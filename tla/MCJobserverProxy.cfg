CONSTANTS
  Threads = {main, t1, t2, t3, t4}
  Main = main
  Tokens = 2
  MaxRequests = 6
SPECIFICATION FairSpec
INVARIANTS TokensConserved WaitersHaveSource
PROPERTIES WaiterWorks
