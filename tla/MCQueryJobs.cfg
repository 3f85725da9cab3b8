CONSTANTS
  None = None
  Workers = {w1, w2, w3}
  Keys = {a, b}
  Roots = {a, b}
  Forks = {a}
  Panics = {b}
  CallGraphs <- AllGraphs
SPECIFICATION FairSpec
INVARIANTS OneRun CountsExact HandlerFindsCycle NotifyFindsWaiter ResultAfterWait
PROPERTIES Settles
CHECK_DEADLOCK FALSE
