SPECIFICATION MCSpec
CONSTANTS
  KeySet = {1, 2, 3, 4}
  Names = {a, b}
  DEF_CAPACITY = 2
  DEFAULT_CAPACITY = 1
  DLLNodes = {1, 2, 3, 4}
  DLLData = {1, 2}
  SLLNodes = {1, 2, 3, 4, 5}
  SLLData = {1, 2}
  BSTKeys = {1, 2, 3, 4, 5, 6}
  AVLKeys = {1, 2, 3, 4, 5, 6, 7, 8}
  Capacity = 3
  HashKeys = {1, 2, 3, 4, 5}
  CBuffCapacities = {0, 3}
  StackCapacity = 3
  Bytes = {0, 1}
  WORD_SIZE = 2
  VSAPools = {6, 20}
  FSABlocks = {1, 3}
  BlockSizes = {1, 4}
  Depth = 3
  NetIP = 18
  Addresses = {0, 2, 11, 12, 21, 22, 31}
  SortValues = {0, 3, 12, 21, 30}
  SortMaxLen = 4
  SIZE_MAX = 15
  Chars = {"n", "+", "-", "*", "/", "^", "(", ")", "[", "]", " ", "?"}
  MaxText = 5
  LongChars = {"n", "+", "*", "^", "(", ")"}
  MaxLong = 9
  Tours <- MCTours
  CHAR_BIT = 2
  ByteCount = 2
  ArraySizes = {3, 4, 6}
  StrChars = {65, 97, 98}
  Delimiters = {98}
  StrMaxLen = 3
  MemSize = 5
  word_size = 2
  IntBits = 6
  MAX_FIB = 12
  Handles = {1, 2, 3}
  RefObjects = {1, 2, 3}
  Texts = {1, 2}
CHECK_DEADLOCK FALSE
INVARIANTS StructuresHold MemoryHolds AlgorithmsAgree
 
