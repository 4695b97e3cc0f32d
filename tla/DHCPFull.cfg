SPECIFICATION DHCPSpec
CONSTANTS
  Depth = 3
  NetIP = 18
  Addresses = {0, 2, 11, 12, 21, 22, 31}
CHECK_DEADLOCK FALSE
INVARIANT NoIPMeansNoneLeft
