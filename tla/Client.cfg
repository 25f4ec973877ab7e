SPECIFICATION Spec
CONSTANTS
  Pushers = {p1, p2}
  NoAuth = {p2}
  Queued = {q1}
  Stoppers = {s1, s2}
  Killers = {k1}
  MaxRetries = 1
  HasCallback = TRUE
  NoReq = NoReq
INVARIANTS
  NoDoubleClose
  SubmitterSafe
  ClosedInOrder
  WaitsBalanced
  QueuedAccounted
PROPERTIES
  StateMonotone
  ImplementsShutdown
  BlockedPushesReturn
  StopReachesPipeline
  AcceptedKillUnblocksStop
CHECK_DEADLOCK FALSE
