SPECIFICATION Spec
CONSTANTS
  Buffers = {1, 2}
  BatchSizes = {130}
  MaxNodes = 20
  MaxKernels = 2
  MaxCommits = 3
INVARIANT HandlersAfter
CHECK_DEADLOCK FALSE
