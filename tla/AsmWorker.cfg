SPECIFICATION FairSpec
CONSTANTS
  Threads = {t1, t2, t3}
  None = None
  N = 6
  NumTrials = 2
  AsmImpls = {"D", "E", "F"}
PROPERTIES ImplementsSpinLock Termination
