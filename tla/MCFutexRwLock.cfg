CONSTANTS
  Threads = {t1, t2, t3}
  MAX_READERS = 2
  MaxCalls = 1
SPECIFICATION FairSpec
INVARIANTS Exclusion ReadersWaitBehindWriter SleepersRemembered
PROPERTIES AllServed
CHECK_DEADLOCK FALSE
