SPECIFICATION InjectionFairSpec
CONSTANTS
  t1 = t1  t2 = t2  t3 = t3
  NoTask = NoTask
  Tasks = {t1, t2, t3}
  Delay <- Delays
  TimerThreads = {c1, c2, c3}
  MaxLate = 3
CHECK_DEADLOCK FALSE
INVARIANTS TimerCoversQueue OwnerAlive ScheduledOnce
PROPERTY CalledAgain
