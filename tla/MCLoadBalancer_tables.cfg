SPECIFICATION RecencySpec
CONSTANTS
  Hash = {h1, h2, h3}
  Req = {r1, r2}
  NumServers = 1
  MaxKeyCacheSize = 2
  MaxBusyQueueSize = 2
  ServerBusyTimeout = 1
  KeyBusyTimeout = 1
  MaxWaitAttempts = 1
SYMMETRY HashAndReqSymmetry
INVARIANTS
  TablesWellFormed
  ProcessingInTimeOrder
PROPERTIES
  ImplementsJobPool
  LeastRecentlyUsedGoes
