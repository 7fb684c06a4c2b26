SPECIFICATION Spec
CONSTANTS
  S1 = S1
  S2 = S2
  N = 3
  Streams <- MCStreams
  Graphs <- Pairs
  Faulty <- LastFault
  DISPATCHES_PER_TASK = 2
  MAX_ACTIVE_TASKS = 1
  MemoryLimit = 3
  MaxEvals = 2
  MaxOutputs = 1
INVARIANT AvailableMeansComputed
