SPECIFICATION Spec
CONSTANTS
  MinConns = 1
  MaxConns = 2
  Scale <- MCExponential
  Width = 16
  Streams = 2
  MaxFaults = 2
  Polling = TRUE
  DialMayFail = TRUE
  ConnMayBreak = TRUE
INVARIANTS
  LiveWithinMaxConns
  LiveIsKnown
  SoftStopLeavesNobody
  SoftStopDrains
  LaunchesPaid
  EverybodyTold
PROPERTIES
  ReplacesOnly
CHECK_DEADLOCK FALSE
