SPECIFICATION AllSpec
CONSTANTS
  Parts = {"stream", "pool", "files", "cuda"}
  c1 = c1
  c2 = c2
  t1 = t1
  t2 = t2
  t3 = t3
  Clients <- MCClients
  Tasks <- MCTasks
  MaxSpurious = 2
  Workers = {1, 2}
  Sizes = {1, 2}
  MaxResizes = 2
  Loads <- MCLoads
  PoolSize = 2
  MaxFaults = 1
  Buffers = {1, 2}
  BatchSizes = {2}
  MaxNodes = 1
  MaxKernels = 2
  MaxCommits = 2
INVARIANTS TypeOK NoLostWakeup ExitsDrained LoadsHonest
PROPERTIES ImplementsExecutor DestructorReturns WorkersReturn
