SPECIFICATION FairSpec
CONSTANTS
  Tasks = {t1, t2, t3}
  Intervals = {0, 1, 2}
  MaxLate = 1
INVARIANT OneOwner
PROPERTIES EarliestFirst StopReturns EveryTaskServed
