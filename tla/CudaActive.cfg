SPECIFICATION Spec
CONSTANTS
  Backends = {"cuda"}
  Threads = {1}
  MetalRequests = {1}
  MetalIds = {1}
  MetalLimits = {0}
  ResourceLimit = 1
  Recommended = 7
  CudaRequests = {1, 8, 12}
  CudaIds = {1, 2}
  CudaLimits = {24}
  NumBlocks = 1
  MaxDrift = 4
  CommonRequests = {1}
  CommonIds = {1}
  CommonLimits = {4}
  MaxLost = 2
  WordSize = 128
INVARIANT ActiveIsInUse
CHECK_DEADLOCK FALSE
