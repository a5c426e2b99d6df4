SPECIFICATION SpinFairSpec
CONSTANTS
  Threads = {t1, t2, t3, t4}
  None = None
  N = 8
  NumTrials = 2
  Impls = {"A", "B"}
INVARIANTS MutualExclusion LockedIffHeld NoLostUpdate ValidationExact
PROPERTIES ImplementsMutex Termination
