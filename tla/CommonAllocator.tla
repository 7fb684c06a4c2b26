-------------------------- MODULE CommonAllocator ---------------------------
(***************************************************************************)
(* CommonAllocator (mlx/backend/no_gpu/allocator.cpp), used by several     *)
(* threads: std::malloc and std::free are called outside the lock that     *)
(* guards the statistics, and the bytes asked for are counted whether or   *)
(* not there was memory.  peak_memory_ is only reported and is left out.   *)
(***************************************************************************)
EXTENDS Integers, FiniteSets, FiniteSetsExt

CONSTANTS
  Threads,    \* threads that allocate and free
  Requests,   \* sizes asked for
  BufferIds,  \* bound: buffers alive at a time
  Limits,     \* what the limit can be set to
  MaxLost,    \* bound: bytes counted by allocations that failed
  NoBuffer    \* nullptr

VARIABLES
  memory,   \* statistics, blocks std::malloc gave out, bytes of failed calls
  limits,   \* memory_limit_
  held,     \* buffers malloc returned and nobody freed yet
  pc        \* per thread: the buffer a malloc or free has between two steps

vars == <<memory, limits, held, pc>>

Idle == [at |-> "idle", size |-> 0, buf |-> NoBuffer]
At(t, where) == pc[t].at = where
Bytes(bufs) == MapThenSumSet(LAMBDA b : b.size, bufs)

Init ==
  /\ memory = [active |-> 0, live |-> {}, lost |-> 0]
  /\ \E n \in Limits : limits = [memory |-> n]
  /\ held = {}
  /\ pc = [t \in Threads |-> Idle]

\* std::malloc, which has memory or not.
TakeMemory(t, size) ==
  LET free == BufferIds \ {b.id : b \in memory.live}
      b == [id |-> Min(free), size |-> size, where |-> "malloc"]
  IN  /\ At(t, "idle") /\ free # {}
      /\ memory' = [memory EXCEPT !.live = @ \cup {b}]
      /\ pc' = [pc EXCEPT ![t] = [at |-> "count", size |-> size, buf |-> b]]
      /\ UNCHANGED <<limits, held>>

NoMemory(t, size) ==
  /\ At(t, "idle") /\ memory.lost + size <= MaxLost
  /\ memory' = [memory EXCEPT !.lost = @ + size]
  /\ pc' = [pc EXCEPT ![t] = [at |-> "count", size |-> size, buf |-> NoBuffer]]
  /\ UNCHANGED <<limits, held>>

\* The statistics, under the lock; the caller of a failed malloc throws.
Count(t) ==
  /\ At(t, "count")
  /\ memory' = [memory EXCEPT !.active = @ + pc[t].size]
  /\ held' = held \cup ({pc[t].buf} \ {NoBuffer})
  /\ pc' = [pc EXCEPT ![t] = Idle]
  /\ UNCHANGED limits

\* The size is read, then the block is given back, then it is discounted.
ReturnMemory(t, b) ==
  /\ At(t, "idle") /\ b \in held
  /\ memory' = [memory EXCEPT !.live = @ \ {b}]
  /\ held' = held \ {b}
  /\ pc' = [pc EXCEPT ![t] = [at |-> "discount", size |-> b.size, buf |-> b]]
  /\ UNCHANGED limits

Discount(t) ==
  /\ At(t, "discount")
  /\ memory' = [memory EXCEPT !.active = @ - pc[t].size]
  /\ pc' = [pc EXCEPT ![t] = Idle]
  /\ UNCHANGED <<limits, held>>

SetMemoryLimit(n) ==
  /\ limits' = [memory |-> n]
  /\ UNCHANGED <<memory, held, pc>>

Next ==
  \/ \E t \in Threads :
       \/ \E size \in Requests : TakeMemory(t, size) \/ NoMemory(t, size)
       \/ Count(t) \/ (\E b \in held : ReturnMemory(t, b)) \/ Discount(t)
  \/ \E n \in Limits : SetMemoryLimit(n)

-----------------------------------------------------------------------------
(* What the run of MCAllocators checks of this backend *)

\* active_memory_ is behind by what is on its way, and ahead by what the
\* allocations that failed left behind for good.
Accounted ==
  LET sum(where) == MapThenSumSet(LAMBDA t : pc[t].size,
                                  {t \in Threads : At(t, where)})
  IN  /\ memory.active + sum("count")
           = Bytes(memory.live) + memory.lost + sum("discount")
      /\ held \subseteq memory.live
=============================================================================
