CONSTANTS
  c1 = c1
  c2 = c2
  o1 = o1
  StateRootUpdates = {"root"}
  OperatorSetUpdates = {"set"}
  Timestamps = {4, 5}
  Operators = {o1}
  Quorum = 1
  Creators = {c1, c2}
  Submission = 1
  Aggregation = 2
  Latency = 1
  Interval = 1
  MaxCheckpointRange = 1
  ResponseWindow = 2
  Start = 5
  MaxClock = 8
  MaxCalls = 2
  MaxTasks = 2
  MaxCrashes = 1
  None = None
SYMMETRY MCSymmetry
SPECIFICATION Spec
INVARIANTS RangesFollow ResponseIsComplete
PROPERTY CheckpointIsSettled
CHECK_DEADLOCK FALSE
