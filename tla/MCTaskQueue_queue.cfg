SPECIFICATION LiveSpec
CONSTANTS
  Task = {1, 2, 3}
  Priority <- Priorities
  UpdateTime <- Dates
  PriorityWeight = 10
  MaxQueueSize = 1
  QueueWaitTimeout = 2
  Workers = 1
  MaxClients = 2
INVARIANTS
  TypeOK
  QueueBounded
  RecordOutlivesWait
PROPERTIES
  FinalStatusKept
  ServedInOrder
  ImplementsJobPool
  ClientAnswered
  FirstInLineServed
