SPECIFICATION Spec
CONSTANTS
  Submitters = {s1}
  Trips = {t1}
  Half = 5
  Second = 4
  MinSustain = 3
  PollInterval = 2
  MaxRate = 1
  MaxBandwidth = 8
  Sizes = {1}
  MaxWaits = 1
  MaxAmount = 1
  MaxSamples = 3
INVARIANTS
  FoldKeepsBalance
  DrawLosesNothing
  DecisionJustified
CHECK_DEADLOCK FALSE
