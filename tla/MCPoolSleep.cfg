CONSTANTS
  None = None
  Pool = Pool
  N = 2
  Externals = {e1}
  MaxInjects = 2
  MaxForks = 1
  JecSize = 2
SPECIFICATION FairSpec
INVARIANTS CountersExact SetLatchWakes InjectedJobSeen
PROPERTIES AllStop
CHECK_DEADLOCK FALSE
