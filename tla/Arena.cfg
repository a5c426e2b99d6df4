SPECIFICATION ArenaSpec
CONSTANTS
  Threads = {t1, t2}
  NumNodelets = 2
  NumIters = 4
INVARIANT SerialAllocations
