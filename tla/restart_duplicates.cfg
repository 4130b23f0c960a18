\* One restart at a time of an application that is always restarted.
SPECIFICATION Spec
CONSTANTS
  a1 = a1
  a2 = a2
  App = {a1}
  Pid = {p1, p2, p3}
  Handler = {h1}
  Waiter = {w1, w2, w3}
  Command = {"restart"}
  BootPolicy <- MCAlways
  CanFail = {}
  NoPid = NoPid
  NoApp = NoApp
  NoEntry = NoEntry
  Dangling = Dangling
CHECK_DEADLOCK FALSE
INVARIANT QuietOneInstance
