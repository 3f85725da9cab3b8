CONSTANTS
  None = None
  Jobs = {a, b, c}
  Threads = {t1}
  Graphs <- AllGraphs
  Workers = {w1, w2}
  Queries = {1, 2, 3, 4, 5, 6}
  Values = {0, 1}
  Red = Red
  EvalAlways = {1, 2}
  Provider <- SomeProvider
  Roots = {5, 6}
  Setups <- SomeSetups
  MaxAsks = 1
SPECIFICATION GraphsSpec
SYMMETRY Symmetry
INVARIANTS SearchFindsFollowedCycle CycleCanBeBroken ResultsClean OnlyNeededRun GraphExact NobodyStuck
CHECK_DEADLOCK FALSE
