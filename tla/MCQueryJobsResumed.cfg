CONSTANTS
  None = None
  Workers = {w1, w2, w3}
  Keys = {a, b}
  Roots = {a, b}
  Forks = {a}
  Panics = {}
  CallGraphs <- AllGraphs
SYMMETRY Symmetry
SPECIFICATION Spec
INVARIANT ResumedWaiterOnCycle
CHECK_DEADLOCK FALSE
