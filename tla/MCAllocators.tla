---------------------------- MODULE MCAllocators ----------------------------
(***************************************************************************)
(* The allocators of the three backends on small instances.  A build has   *)
(* one of them: the first state chooses, and the run covers each in turn.  *)
(* A page is four blocks of the pool for CUDA and two heap buffers for     *)
(* Metal: the least for which every comparison of the code (reuse window,  *)
(* rounding, limits) goes both ways.                                       *)
(***************************************************************************)
EXTENDS Integers, Sequences, FiniteSets

CONSTANTS
  Backends, Threads,
  MetalRequests, MetalIds, MetalLimits, ResourceLimit, Recommended,
  CudaRequests, CudaIds, CudaLimits, NumBlocks, MaxDrift,
  CommonRequests, CommonIds, CommonLimits, MaxLost,
  WordSize

NoBuffer == [id |-> 0, size |-> 0, where |-> "null"]

VARIABLES backend, memory, limits, held, pc

vars == <<backend, memory, limits, held, pc>>

Metal == INSTANCE MetalAllocator WITH
  Requests <- MetalRequests, BufferIds <- MetalIds, Limits <- MetalLimits,
  SmallSize <- 2, PageSize <- 2
Cuda == INSTANCE CudaAllocator WITH
  Requests <- CudaRequests, BufferIds <- CudaIds, Limits <- CudaLimits,
  SmallSize <- 1, PageSize <- 4
Common == INSTANCE CommonAllocator WITH
  Requests <- CommonRequests, BufferIds <- CommonIds, Limits <- CommonLimits

\* What the code takes for granted of its own constants.
ASSUME ConstantsOK ==
  /\ Backends \subseteq {"metal", "cuda", "no_gpu"}
  /\ IsFiniteSet(Threads)
  /\ ResourceLimit \in Nat \ {0} /\ WordSize \in Nat \ {0}
  /\ MetalRequests \cup CudaRequests \cup CommonRequests \subseteq Nat \ {0}
  /\ MetalIds \cup CudaIds \cup CommonIds \subseteq Nat
  /\ MetalLimits \cup CudaLimits \cup CommonLimits \subseteq Nat
  /\ {Recommended, NumBlocks, MaxDrift, MaxLost} \subseteq Nat

Init ==
  /\ backend \in Backends
  /\ backend = "metal"  => Metal!Init
  /\ backend = "cuda"   => Cuda!Init
  /\ backend = "no_gpu" => Common!Init

Next ==
  \/ backend = "metal"  /\ Metal!Next  /\ UNCHANGED backend
  \/ backend = "cuda"   /\ Cuda!Next   /\ UNCHANGED backend
  \/ backend = "no_gpu" /\ Common!Next /\ UNCHANGED backend

Spec == Init /\ [][Next]_vars

-----------------------------------------------------------------------------
(* Properties *)

\* n of size_t, taken for an int64_t.
Positive(n) == 0 < n /\ 2 * n < WordSize

\* The multimap and the linked list of a BufferCache hold the same buffers,
\* each once, in both directions, and pool_size_ is their sum, after any
\* series of reuse, recycle and partial release.
CacheConsistent ==
  /\ backend = "metal" => Metal!Consistent(memory.cache)
  /\ backend = "cuda"  => Cuda!Consistent(memory.cache)

\* No buffer is lost, given out twice or freed while in use, whatever the
\* threads do between the two locked sections of a call; the statistics are
\* those of the buffers, but for what a failed std::malloc leaves behind and
\* for CUDA's active memory.
BuffersAccounted ==
  /\ backend = "metal"  => Metal!Accounted
  /\ backend = "cuda"   => Cuda!Accounted
  /\ backend = "no_gpu" => Common!Accounted

\* The residency set holds exactly the device buffers the allocator owns, in
\* the wired part or outside it, and the wired part fits the wired limit,
\* wherever set_wired_limit cuts.
ResidencyExact == backend = "metal" => Metal!ResidentOnce

\* The lock is released between the test of the resource limit and the count:
\* each other thread can be in between, so the limit is overshot by at most
\* the number of threads less one.
ResourcesBounded == backend = "metal" => Metal!Overshoot

\* A thread goes to the device only with the memory in use, cached and asked
\* for at or below the limit, or with nothing cached left to give back.  What
\* CUDA counts as in use drifts and may have gone below zero, so that only the
\* sign of the difference, as a number of the width of size_t, means anything.
AllocatesUnderLimit ==
  [][\A t \in Threads :
       pc'[t].at = "allocate" /\ pc[t].at # "allocate" =>
         LET taken == memory'.active + memory'.cache.size + pc'[t].size
         IN  \/ memory'.cache.size = 0
             \/ backend = "metal" /\ taken <= limits.gc
             \/ backend = "cuda" /\ ~Positive((taken - limits.memory) % WordSize)]_vars

\* "If using more than the given limit, free memory will be reclaimed from the
\* cache on the next allocation" (memory.h): one that returns a buffer leaves
\* the cache within its limit.
CacheTrimmed ==
  [][(backend \in {"metal", "cuda"} /\ held' \ held # {}) =>
       memory'.cache.size <= limits.maxPool]_vars

\* "Get the actively used memory in bytes" (memory.h).
ActiveIsInUse == backend = "cuda" => Cuda!ActiveIsHeld
=============================================================================
