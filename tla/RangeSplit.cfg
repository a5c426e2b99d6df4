SPECIFICATION FairSpec
CONSTANTS
  Modes = {"recursive", "serial", "recursive_remote", "serial_remote", "shallow"}
  Sizes = {2, 4, 16}
  ThreadCounts = {2, 3, 4}
  NumNodelets = 2
INVARIANTS EachIndexOnce WorkerCount
PROPERTIES ImplementsForEach Termination
