SPECIFICATION QueuesSpec
CONSTANTS
  Requests <- MCRequests
  MaxTasks = 5
  MaxSteps = 2
INVARIANTS
  NoCircularWait
  TasksInOrder
PROPERTIES
  EveryTaskEnds
CHECK_DEADLOCK FALSE
