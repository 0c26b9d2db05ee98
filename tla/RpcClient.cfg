SPECIFICATION RpcFairSpec
CONSTANTS
  Messages = {m1, m2}
  Requests = {r1}
  MaxRetries = 2
  MaxOutages = 2
  MaxShutdowns = 2
INVARIANT NothingLost
PROPERTIES QueueStep 
