SPECIFICATION PathFairSpec
CONSTANTS
  Retries = 2
  Rollups <- MCRollups
  Rollup = 1
  ChannelSize = 1
  MaxInputs = 2
  MaxEvents = 3
INVARIANTS  ReceivedFromDa 
PROPERTIES HeadsResume StartEnds BlocksArrive
CHECK_DEADLOCK FALSE
