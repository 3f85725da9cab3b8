CONSTANTS
  Threads = {t1, t2, t3}
  CounterSize = 4
  MaxSpurious = 1
  Sizes = {2, 3}
  MaxWaits = 4
  Sleeper = t1
  MaxRounds = 4
  Unparkers = {t1, t2}
  StateSize = 4
  OnceThreads = {t1, t2, t3}
  MaxCalls = 3
SPECIFICATION StdSpec
INVARIANTS MutualExclusion NoLostWakeup RunsAlone
PROPERTIES SomebodyLocks ImplementsBarrier WokenWorkerReturns ImplementsToken OnceReleases
CHECK_DEADLOCK FALSE
