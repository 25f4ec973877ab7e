SPECIFICATION Spec
CONSTANTS
  Pushers = {p1}
  NoAuth = {}
  Queued = {}
  Stoppers = {s1}
  Killers = {}
  MaxRetries = 0
  HasCallback = TRUE
  NoReq = NoReq
INVARIANTS
  PushIsSafe
CHECK_DEADLOCK FALSE
