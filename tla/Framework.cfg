SPECIFICATION MCSpec
CONSTANTS
  Consumers = {c1, c2, c3}
  Values = {a, b}
  None = None
  MaxLen = 3
  Fds = {1, 2}
  Keys = {"b", "c"}
  FirstKeys = {"b"}
  Files = {"b", "c"}
  MaxInputs = 2
  MaxEarly = 1
  Dispatchers = {1, 2}
  Callbacks = {11, 12}
  MaxNest = 2
  HThreads = {t1, t2}
  LogThreads = {t1, t2}
  MaxLogs = 1
INVARIANTS NoLostWakeup FrameworkHolds
PROPERTIES ImplementsBlockingQueue ThreadsReturn
