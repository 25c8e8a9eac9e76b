SPECIFICATION Spec
CONSTANTS
  Hash = {h1, h2}
  Req = {r1, r2}
  NumServers = 1
  MaxKeyCacheSize = 1
  MaxBusyQueueSize = 2
  ServerBusyTimeout = 1
  KeyBusyTimeout = 1
  MaxWaitAttempts = 1
PROPERTIES
  NoDispatchWhileProcessing
