SPECIFICATION FairSpec
CONSTANTS
  Arguments <- StreamArguments
  MaxTrials = 2
INVARIANT VerdictExact
PROPERTY Termination
