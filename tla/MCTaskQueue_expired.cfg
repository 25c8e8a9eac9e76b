SPECIFICATION PromptSpec
CONSTANTS
  Task = {1, 2, 3}
  Priority <- Priorities
  UpdateTime <- Dates
  PriorityWeight = 10
  MaxQueueSize = 2
  QueueWaitTimeout = 1
  Workers = 1
  MaxClients = 3
PROPERTIES
  ExpiredTaskNotProcessed
