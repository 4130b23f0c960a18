\* The restart loop under fair scheduling, with kills from two threads and the
\* watchdog; a2 can fail to spawn.
SPECIFICATION FairSpec
CONSTANTS
  a1 = a1
  a2 = a2
  App = {a1, a2}
  Pid = {p1, p2, p3}
  Handler = {h1, h2}
  Waiter = {w1, w2}
  Command = {"kill"}
  BootPolicy <- MCBoth
  CanFail = {a2}
  NoPid = NoPid
  NoApp = NoApp
  NoEntry = NoEntry
  Dangling = Dangling
CHECK_DEADLOCK FALSE
INVARIANTS OneInstance StatusAgrees InboxAgrees
PROPERTIES DeadIsNoticed AlwaysRestarts
