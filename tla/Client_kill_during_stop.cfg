SPECIFICATION Spec
CONSTANTS
  Pushers = {}
  NoAuth = {}
  Queued = {}
  Stoppers = {s1}
  Killers = {k1}
  MaxRetries = 0
  HasCallback = TRUE
  NoReq = NoReq
PROPERTIES
  KillUnblocksStop
CHECK_DEADLOCK FALSE
