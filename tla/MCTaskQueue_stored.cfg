SPECIFICATION PromptSpec
CONSTANTS
  Task = {1, 2, 3}
  Priority <- Priorities
  UpdateTime <- Dates
  PriorityWeight = 10
  MaxQueueSize = 2
  QueueWaitTimeout = 2
  Workers = 1
  MaxClients = 2
PROPERTIES
  ResponseStaysStored
