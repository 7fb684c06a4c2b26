SPECIFICATION Spec
CONSTANTS
  S1 = S1
  S2 = S2
  N = 4
  Streams <- MCStreams
  Graphs <- MCGraphs
  Faulty <- LastFault
  DISPATCHES_PER_TASK = 2
  MAX_ACTIVE_TASKS = 1
  MemoryLimit = 3
  MaxEvals = 2
  MaxOutputs = 2
INVARIANTS FenceWaitsCovered
CHECK_DEADLOCK FALSE
