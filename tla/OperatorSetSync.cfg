CONSTANTS
  Pubkeys = {1, 2}
  OperatorSets <- MCOperatorSets
  WeightOf <- MCWeightOf
  Threshold = 66
  Retries = 2
  MaxBlocks = 5
  MaxBroadcasts = 1
  MaxErrors = 1
  MaxCrashes = 1
  None = None
SPECIFICATION FairSpec
INVARIANTS CopyFollowsMainnet NextUpdateVerifies
PROPERTIES NextIdNeverGoesBack NextUpdateArrives
CHECK_DEADLOCK FALSE
