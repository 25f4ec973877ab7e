SPECIFICATION Spec
CONSTANTS
  Mixed = {}
  Broken = {}
  Four = {f1, f2, f3, f4}
  Three = {t1, t2, t3}
  Requests <- MCRequests
  Silent = {f1, f2, f3, f4, t1, t2, t3}
  Own = {}
  Refusable = {}
  RetryCap = 1
  BufSize = 1
  MaxRetries = 1
  Outcomes <- MCOutcomes
  Scenarios <- MCWedging
SYMMETRY MCSymmetry
INVARIANTS
  NotWedged
CHECK_DEADLOCK FALSE
