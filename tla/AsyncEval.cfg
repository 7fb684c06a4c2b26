SPECIFICATION Spec
CONSTANTS
  S1 = S1
  S2 = S2
  N = 4
  Streams <- MCStreams
  Graphs <- MCGraphs
  Faulty <- NoFault
  DISPATCHES_PER_TASK = 2
  MAX_ACTIVE_TASKS = 1
  MemoryLimit = 3
  MaxEvals = 2
  MaxOutputs = 2
INVARIANTS TypeOK ReadsSettled PendingBuffersOwned AvailableMeansComputed  FenceExists NoDeadlock EventWaitsCovered
PROPERTIES FencesAdvance
