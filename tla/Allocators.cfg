SPECIFICATION AllSpec
CONSTANTS
  Parts = {"allocators", "metal", "cuda"}
  Buffers = {1, 2, 3}
  MaxKernels = 3
  DonateIndices = FALSE
  BatchSizes = {2}
  MaxNodes = 3
  MaxCommits = 3
  Backends = {"metal", "cuda", "no_gpu"}
  Threads = {1, 2}
  MetalRequests = {1, 3, 5}
  MetalIds = {1, 2, 3, 4}
  MetalLimits = {0, 8}
  ResourceLimit = 2
  Recommended = 7
  CudaRequests = {1, 8, 12}
  CudaIds = {1, 2}
  CudaLimits = {0, 24}
  NumBlocks = 2
  MaxDrift = 4
  CommonRequests = {1, 2}
  CommonIds = {1, 2, 3}
  CommonLimits = {2, 4}
  MaxLost = 2
  WordSize = 128
INVARIANTS CacheConsistent BuffersAccounted ResidencyExact ResourcesBounded ConflictsOrdered HandlersAfterKernels
PROPERTIES AllocatesUnderLimit CacheTrimmed
CHECK_DEADLOCK FALSE
