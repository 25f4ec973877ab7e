SPECIFICATION Spec
CONSTANTS
  MinConns = 0
  MaxConns = 2
  Scale <- MCExponential
  Width = 16
  Streams = 2
  MaxFaults = 1
  Polling = TRUE
  DialMayFail = TRUE
  ConnMayBreak = TRUE
PROPERTIES
  HardStopTerminates
  
  ScalesToMaxConns
CHECK_DEADLOCK FALSE
