SPECIFICATION QueueFairSpec
CONSTANTS
  Threads = {t1, t2, t3}
  None = None
  N = 8
  NumTrials = 2
  MaxThreads = 2
INVARIANTS InnerLockHasOneOwner LockHasOneOwner SleepersAreQueued NoSleeperWhenFree
PROPERTIES ImplementsMutex NoBarging Termination
