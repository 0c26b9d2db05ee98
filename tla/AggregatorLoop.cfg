CONSTANTS
  k1 = k1
  d1 = d1
  d2 = d2
  o1 = o1
  o2 = o2
  s1 = s1
  s2 = s2
  None = None
  Keys = {k1}
  TaskKeys = {}
  OperatorSetKeys = {k1}
  Digests = {d1, d2}
  Operators = {o1, o2}
  Senders = {s1, s2}
  AvsStates <- SameStakes
  StakeOf <- SumStakes
  Threshold = 66
  MaxCalls = 2
  MaxCrashes = 1
SPECIFICATION LoopSpec
SYMMETRY Symmetry
INVARIANTS BroadcastVerifies StoredPairMatches QuorumBacked QuorumNoticed OneRoundAtATime
PROPERTY ResponsesOfARound
CHECK_DEADLOCK FALSE
