SPECIFICATION FairSpec
CONSTANTS
  Arguments <- ChaseArguments
  NumTrials = 2
  RandMax = 15
  Null = Null
  Unset = Unset
INVARIANTS IndicesPermutation SortModeRespected ListsAreChunks
PROPERTY EndsExactly
