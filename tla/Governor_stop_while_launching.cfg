SPECIFICATION Spec
CONSTANTS
  MinConns = 1
  MaxConns = 1
  Scale <- MCIncremental
  Width = 16
  Streams = 2
  MaxFaults = 0
  Polling = FALSE
  DialMayFail = FALSE
  ConnMayBreak = FALSE
PROPERTIES
  SoftStopCompletes
CHECK_DEADLOCK FALSE
