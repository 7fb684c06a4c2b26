----------------------------- MODULE MCDevices ------------------------------
(***************************************************************************)
(* What decides when the memory of an array may be used again: the three   *)
(* allocators (the module extended), and the command encoders of a Metal   *)
(* and of a CUDA stream, which keep buffers from them while the GPU needs  *)
(* them.  The first state chooses one; the variables of the others keep    *)
(* their initial values.                                                   *)
(*                                                                         *)
(* Three buffers and three kernels: a kernel that has not finished, one    *)
(* that could overtake it, and one between or behind them in another        *)
(* encoder or graph, with one buffer to go from hand to hand.              *)
(***************************************************************************)
EXTENDS MCAllocators

CONSTANTS
  Parts,
  Buffers, MaxKernels,
  DonateIndices,
  BatchSizes, MaxNodes, MaxCommits

VARIABLES
  part,
  live, flying,
  stream, handlers, kernels,
  temporaries, graph, encoded, finished, pending, batches, committed, signals,
  signaled, stop, tasks, wpc, upc

ASSUME DevicesAssumption ==
  Buffers # {} /\ IsFiniteSet(Buffers) /\ MaxNodes \in Nat \ {0} /\ BatchSizes \subseteq Nat

MetalStream == INSTANCE MetalCommands
CudaStream == INSTANCE CudaCommands

sharedVars == <<live, flying>>
metalVars == <<stream, handlers, kernels>>
cudaVars ==
  <<temporaries, graph, encoded, finished, pending, batches, committed, signals,
    signaled, stop, tasks, wpc, upc>>
allVars == <<part, vars, sharedVars, metalVars, cudaVars>>

OnlyAllocators == UNCHANGED <<part, sharedVars, metalVars, cudaVars>>
OnlyMetal == UNCHANGED <<part, vars, cudaVars>>
OnlyCuda == UNCHANGED <<part, vars, metalVars>>

AllInit ==
  /\ part \in Parts
  /\ Init /\ MetalStream!Init /\ CudaStream!Init
  /\ part # "allocators" =>
       backend = "no_gpu" /\ limits.memory = CHOOSE n \in CommonLimits : TRUE

AllNext ==
  \/ part = "allocators" /\ Next /\ OnlyAllocators
  \/ part = "metal" /\ MetalStream!Next /\ OnlyMetal
  \/ part = "cuda" /\ CudaStream!Next /\ OnlyCuda

AllSpec == AllInit /\ [][AllNext]_allVars

-----------------------------------------------------------------------------
(* Properties *)

\* Of two kernels that have not finished and of which one writes what the
\* other uses, the one encoded first runs first: the barriers and fences of
\* Metal, or the edges of a CUDA graph, suffice together with the buffers kept
\* alive, also for buffers donated, or freed and handed out again.  For Metal
\* this is without a donated index array, see the run metal_donated_offset.
ConflictsOrdered ==
  /\ part = "metal" => MetalStream!Ordered
  /\ part = "cuda" => CudaStream!Ordered

\* A completion handler of a CUDA stream (a buffer released, a promise of
\* synchronize kept) runs after every kernel encoded before it was added.
HandlersAfterKernels == part = "cuda" => CudaStream!HandlersAfter
=============================================================================
