\* Every command, two at a time, on an application that is always restarted.
SPECIFICATION Spec
CONSTANTS
  a1 = a1
  a2 = a2
  App = {a1}
  Pid = {p1, p2, p3}
  Handler = {h1, h2}
  Waiter = {w1, w2}
  Command = {"run", "kill", "restart", "reload", "update"}
  BootPolicy <- MCAlways
  CanFail = {a1}
  NoPid = NoPid
  NoApp = NoApp
  NoEntry = NoEntry
  Dangling = Dangling
CHECK_DEADLOCK FALSE
SYMMETRY Symmetry
INVARIANTS TypeOK Owned RunningIsWatched
