SPECIFICATION PromptSpec
CONSTANTS
  Task = {1, 2, 3}
  Priority <- SqlPriorities
  UpdateTime <- SqlDates
  PriorityWeight = 10
  MaxQueueSize = 2
  QueueWaitTimeout = 2
  Workers = 1
  MaxClients = 3
PROPERTIES
  PriorityFirst
