SPECIFICATION OrsFairSpec
CONSTANTS
  Subs = {"pubkeys", "sockets"}
  Logs <- MCLogs
  MaxHeight = 3
  BlockChunkSize = 1
  BlockMaxRange = 2
  CacheSize = 4
  MaxFaults = 2
  NoSocket = NoSocket
  o1 = o1
  o2 = o2
  s1 = s1
  s2 = s2
INVARIANTS LogsOnceInOrder RegistrationsCurrent
PROPERTIES LogsArrive
CHECK_DEADLOCK FALSE
