SPECIFICATION FairSpec
CONSTANTS
  Tolerance = 3
  Skew = 1
  MaxFaults = 3
CHECK_DEADLOCK FALSE
PROPERTIES HealthyNotKilled ClientRevived StopReturnsWhileBeating StopEndsWatchdog
