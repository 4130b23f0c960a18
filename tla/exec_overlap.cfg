\* Two management clients and another application; one client sends twice.
SPECIFICATION FairSpec
CONSTANTS
  c1 = c1
  c2 = c2
  p1 = p1
  Client = {c1, c2}
  Peer = {p1}
  MaxSend <- MCOverlap
  None = None
CHECK_DEADLOCK FALSE
INVARIANTS TypeOK AloneGetsOwnReply AloneIsReachable ReplyGoesToOne
PROPERTY ExecEnds
