SPECIFICATION ArenaSpec
CONSTANTS
  Threads = {t1, t2}
  NumNodelets = 2
  NumIters = 2
INVARIANT PrivateVectors
