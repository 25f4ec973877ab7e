SPECIFICATION Spec
CONSTANTS
  Calls = {c1, c2, c3}
  Cancellable = {c2, c3}
  CfgCap = 2
  ServerCaps = {0, 1, 3}
  Modes = {"off", "precise", "polling"}
  DialMayFail = TRUE
INVARIANTS
  TypeOK
  CountsHolders
  NoLostWakeup
PROPERTIES
  WithinCapacity
  WaitersReturn
  CancelledReturns
  CancellersEnd
CHECK_DEADLOCK FALSE
