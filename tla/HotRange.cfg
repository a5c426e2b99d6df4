SPECIFICATION FairSpec
CONSTANTS
  Arguments <- HotArguments
  NumTrials = 2
INVARIANTS NoLostUpdate ValidationExact
PROPERTY Termination
