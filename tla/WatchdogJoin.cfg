SPECIFICATION FairSpec
CONSTANTS
  Tolerance = 3
  Skew = 1
  MaxFaults = 0
CHECK_DEADLOCK FALSE
PROPERTY StopReturns
