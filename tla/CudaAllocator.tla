--------------------------- MODULE CudaAllocator ----------------------------
(***************************************************************************)
(* CudaAllocator with its pool of small blocks and its buffer cache        *)
(* (mlx/backend/cuda/allocator.cpp).  The lock is given up around          *)
(* cudaMallocManaged only, which is external: it succeeds, runs out of     *)
(* memory (malloc then returns a buffer without data) or fails otherwise   *)
(* (malloc throws).  peak_memory_ is only reported and is left out.        *)
(***************************************************************************)
EXTENDS BufferCache

CONSTANTS
  Threads,     \* threads that allocate and free
  Requests,    \* sizes asked for
  BufferIds,   \* bound: managed buffers alive at a time
  NumBlocks,   \* the blocks of the scalar pool
  SmallSize,   \* small_block_size
  Limits,      \* what the limits can be set to
  MaxDrift,    \* bound: bytes active_memory_ is off by
  WordSize     \* size_t counts modulo this

VARIABLES
  memory,   \* what mutex_ guards, and the managed buffers of the driver
  limits,   \* max_pool_size_, memory_limit_
  held,     \* buffers malloc returned and nobody freed yet
  pc        \* per thread: the allocation it makes outside the lock

vars == <<memory, limits, held, pc>>

Idle == [at |-> "idle", size |-> 0, buf |-> NoBuffer]
At(t, where) == pc[t].at = where
Blocks == 1 .. NumBlocks
Block(i) == [id |-> i, size |-> SmallSize, where |-> "pool"]

Init ==
  /\ memory = [cache |-> EmptyCache, active |-> 0, live |-> {},
               free |-> [i \in Blocks |-> i]]
  /\ \E n \in Limits : limits = [maxPool |-> n, memory |-> n]
  /\ held = {}
  /\ pc = [t \in Threads |-> Idle]

\* next_power_of_2
NextPowerOf2(n) == Min({2 ^ k : k \in {j \in 0 .. n : 2 ^ j >= n}})

Rounded(size) ==
  IF size <= SmallSize THEN SmallSize
  ELSE IF size < PageSize THEN NextPowerOf2(size)
  ELSE PageSize * ((size + PageSize - 1) \div PageSize)

\* cuda_free, for each of a sequence of buffers: a block goes back on the stack.
CudaFree(m, bufs) ==
  LET after[k \in 0 .. Len(bufs)] ==
        IF k = 0 THEN m.free
        ELSE IF bufs[k].where = "pool" THEN <<bufs[k].id>> \o after[k - 1]
        ELSE after[k - 1]
  IN  [m EXCEPT !.free = after[Len(bufs)], !.live = @ \ ToSet(bufs)]

Released(m, min) ==
  LET r == ReleaseCachedBuffers(m.cache, min)
  IN  CudaFree([m EXCEPT !.cache = r.cache], r.freed)

\* malloc adds the size asked for, not that of the buffer.
Counted(m, size) ==
  LET c == [m EXCEPT !.active = (@ + size) % WordSize]
  IN  IF c.cache.size > limits.maxPool
      THEN Released(c, c.cache.size - limits.maxPool) ELSE c

Return(t, m, b, size) ==
  /\ memory' = Counted(m, size)
  /\ held' = held \cup {b}
  /\ pc' = [pc EXCEPT ![t] = Idle]
  /\ UNCHANGED limits

Drift == (Bytes(held) - memory.active) % WordSize

MallocFromCache(t, size) ==
  /\ At(t, "idle")
  /\ LET b == Reusable(memory.cache, size)
     IN  /\ b # NoBuffer
         /\ Drift + b.size - size <= MaxDrift
         /\ Return(t, [memory EXCEPT !.cache = TakeOut(@, b)], b, size)

\* int64_t mem_to_free, from a difference of size_t.
MemToFree(size) ==
  LET n == (memory.active + memory.cache.size + size - limits.memory) % WordSize
  IN  IF 2 * n >= WordSize THEN n - WordSize ELSE n

\* Mutant: the block stays the first of the free list.
TakeNoBlock(m, size) ==
  [m |-> m, buf |-> IF size <= SmallSize /\ m.free # <<>>
                    THEN Block(Head(m.free)) ELSE NoBuffer]

\* scalar_pool_.malloc(), tried for the smallest size only.
TakeBlock(m, size) ==
  IF size <= SmallSize /\ m.free # <<>>
  THEN [m |-> [m EXCEPT !.free = Tail(@)], buf |-> Block(Head(m.free))]
  ELSE [m |-> m, buf |-> NoBuffer]

MallocMiss(t, size) ==
  LET m == IF MemToFree(size) > 0 THEN Released(memory, MemToFree(size))
           ELSE memory
      taken == TakeBlock(m, size)
  IN  /\ At(t, "idle")
      /\ Reusable(memory.cache, size) = NoBuffer
      /\ memory' = taken.m
      /\ pc' = [pc EXCEPT ![t] = [at |-> "allocate", size |-> size,
                                  buf |-> taken.buf]]
      /\ UNCHANGED <<limits, held>>

MallocBlock(t) ==
  /\ At(t, "allocate") /\ pc[t].buf # NoBuffer
  /\ Return(t, memory, pc[t].buf, pc[t].size)

\* cudaMallocManaged with or without memory: the buffer is returned either way.
MallocManaged(t) ==
  LET free == BufferIds \ {b.id : b \in memory.live}
  IN  /\ At(t, "allocate") /\ pc[t].buf = NoBuffer
      /\ free # {}
      /\ \E where \in {"managed", "no data"} :
           LET b == [id |-> Min(free), size |-> pc[t].size, where |-> where]
           IN  Return(t, [memory EXCEPT !.live = @ \cup {b}], b, pc[t].size)

MallocThrows(t) ==
  /\ At(t, "allocate") /\ pc[t].buf = NoBuffer
  /\ pc' = [pc EXCEPT ![t] = Idle]
  /\ UNCHANGED <<memory, limits, held>>

Free(t, b) ==
  LET m == [memory EXCEPT !.active = (@ - b.size) % WordSize]
  IN  /\ At(t, "idle") /\ b \in held
      /\ held' = held \ {b}
      /\ memory' = IF m.cache.size < limits.maxPool
                   THEN [m EXCEPT !.cache = RecycleToCache(@, b)]
                   ELSE CudaFree(m, <<b>>)
      /\ UNCHANGED <<limits, pc>>

SetCacheLimit(n) ==
  /\ limits' = [limits EXCEPT !.maxPool = n]
  /\ UNCHANGED <<memory, held, pc>>

SetMemoryLimit(n) ==
  /\ limits' = [limits EXCEPT !.memory = n]
  /\ UNCHANGED <<memory, held, pc>>

\* clear_cache frees in the order of the sizes.
ClearCache ==
  /\ memory' = CudaFree([memory EXCEPT !.cache = EmptyCache], memory.cache.pool)
  /\ UNCHANGED <<limits, held, pc>>

Malloc(t) ==
  \/ \E size \in {Rounded(r) : r \in Requests} :
       MallocFromCache(t, size) \/ MallocMiss(t, size)
  \/ MallocBlock(t) \/ MallocManaged(t) \/ MallocThrows(t)

Next ==
  \/ \E t \in Threads : Malloc(t) \/ \E b \in held : Free(t, b)
  \/ \E n \in Limits : SetCacheLimit(n) \/ SetMemoryLimit(n)
  \/ ClearCache

-----------------------------------------------------------------------------
(* What the runs of MCAllocators check of this backend *)

\* A block of the pool is on the free list once, or in use, cached or on its
\* way to a caller; a managed buffer is held or cached.
Accounted ==
  LET taken == {pc[t].buf : t \in Threads} \ {NoBuffer}
      out == held \cup Cached(memory.cache) \cup taken
  IN  /\ held \cap Cached(memory.cache) = {}
      /\ taken \cap (held \cup Cached(memory.cache)) = {}
      /\ \A t, u \in Threads : t # u /\ pc[t].buf = pc[u].buf => pc[t].buf = NoBuffer
      /\ memory.live = {b \in out : b.where # "pool"}
      /\ IsInjective(memory.free)
      /\ {b.id : b \in out \ memory.live} = Blocks \ ToSet(memory.free)

ActiveIsHeld == memory.active = Bytes(held)
=============================================================================
