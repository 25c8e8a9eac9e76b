SPECIFICATION LiveHistorySpec
CONSTANTS
  Hash = {h1, h2}
  Req = {r1, r2}
  NumServers = 1
  MaxKeyCacheSize = 1
  MaxBusyQueueSize = 1
  ServerBusyTimeout = 1
  KeyBusyTimeout = 0
  MaxWaitAttempts = 1
INVARIANTS
  TypeOK
  SleepsBounded
  ProtectedKeyHasOneJob
PROPERTIES
  NoHashBlockedForever
  BusyServerRecovers
  WaitEnds
