SPECIFICATION Spec
CONSTANTS
  Mixed = {m1, m2}
  Broken = {b1, b2}
  Four = {f1, f2, f3, f4}
  Three = {t1, t2, t3}
  Requests <- MCRequests
  Silent = {b1, b2, f1, f2, f3, f4, t1, t2, t3}
  Own = {m2}
  Refusable = {m1}
  RetryCap = 1
  BufSize = 1
  MaxRetries = 1
  Outcomes <- MCOutcomes
  Scenarios <- MCScenarios
SYMMETRY MCSymmetry
INVARIANTS
  AnsweredOnce
  DropsExplained
  CallbackClosedLast
  RetriesServiced
  EveryRequestAnswered
  StopCompletes
PROPERTIES
  StepsForward
CHECK_DEADLOCK FALSE
