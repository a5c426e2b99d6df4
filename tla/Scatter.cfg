SPECIFICATION FairSpec
CONSTANTS
  Arguments <- ScatterArguments
  NumTrials = 2
  SpawnCap = 17
INVARIANTS SourceComplete ThreadBudget
PROPERTIES TrialComplete Termination
