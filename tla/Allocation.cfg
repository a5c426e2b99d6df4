SPECIFICATION FairSpec
CONSTANTS
  Threads = {t1, t2, t3}
  NumBlocks = 6
  NumTrials = 2
  Null = Null
INVARIANTS DistinctBlocks BoundaryExact ListExact
PROPERTIES ImplementsBlockPool Termination
