SPECIFICATION MCSpec
CONSTANTS
  Producers = {p1, p2}
  Consumers = {c1, c2}
  NumItems = 2
  Capacity = 2
  Nodes = {1, 2, 3, 4, 5}
  MaxFaults = 1
  XProducers = {x1, x2}
  XConsumers = {y1, y2}
  XMessages = 2
  NUM_ITEMS = 1
  INT_BYTES = 2
  UIDProcesses = {1, 2}
  UIDMax = 3
  MTValues = {1, 2}
  MTMaxLen = 7
  MTThreads = {1, 2, 3}
  MTFaults = 1
SYMMETRY Symmetry
CHECK_DEADLOCK FALSE
INVARIANTS ListIntact PermitsConserved ExchangesHold ProgramsEnd
