SPECIFICATION Spec
CONSTANTS
  Buffers = {1, 2, 3}
  DonateIndices = TRUE
  MaxKernels = 3
INVARIANT Ordered
CHECK_DEADLOCK FALSE
