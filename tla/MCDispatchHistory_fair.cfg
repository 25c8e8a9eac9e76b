SPECIFICATION HistorySpec
CONSTANTS
  Hash = {h1, h2}
  Req = {r1, r2}
  NumServers = 2
  MaxKeyCacheSize = 1
  MaxBusyQueueSize = 1
  ServerBusyTimeout = 0
  KeyBusyTimeout = 0
  MaxWaitAttempts = 0
SYMMETRY HashAndReqSymmetry
INVARIANTS
  CacheProcessingDisjoint
  SnIsReal
  NoServerPassedOver
