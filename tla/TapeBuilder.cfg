SPECIFICATION AllSpec
CONSTANTS
  Parts = {"walk", "compile", "transform"}
  S1 = S1
  S2 = S2
  N = 4
  Streams <- MCStreams
  Cases <- MCCases
  MaxWidths = {1, 2}
  Programs <- MCPrograms
  max_compile_depth = 3
  max_compile_arrays = 4
  Modes = {"enabled", "no_simplify", "no_fuse"}
  Keys = {1}
  MaxCalls = 2
  MaxThrows = 1
  Requests <- MCRequested
  BatchSize = 4
  method <- MCMethods
  Value <- MCValue
INVARIANTS UsesFound TapeIsOrdered FencesExact CompiledOutput CompiledParents VmapIsExact GradientsAreExact
PROPERTIES WalksEnd
