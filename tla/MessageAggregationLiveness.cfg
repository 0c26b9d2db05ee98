CONSTANTS
  k1 = k1
  k2 = k2
  d1 = d1
  d2 = d2
  o1 = o1
  o2 = o2
  o3 = o3
  s1 = s1
  s2 = s2
  None = None
  Keys = {k1, k2}
  TaskKeys = {k2}
  Digests = {d1, d2}
  Operators = {o1, o2}
  Senders = {s1, s2}
  AvsStates <- UnequalStakes
  StakeOf <- SumStakes
  Threshold = 66
  MaxCalls = 1
SPECIFICATION FairSpec
INVARIANT TaskAggregatedOnce
PROPERTIES RoundTerminates 
CHECK_DEADLOCK FALSE
