--------------------------- MODULE MetalAllocator ---------------------------
(***************************************************************************)
(* MetalAllocator (mlx/backend/metal/allocator.cpp) with its buffer cache  *)
(* and its residency set (mlx/backend/metal/resident.cpp), used by several *)
(* threads.  A section under mutex_ is one step.  Two things happen        *)
(* outside it: newBuffer of a malloc that missed the cache, and the        *)
(* release of a buffer that free did not cache.                            *)
(*                                                                         *)
(* The device is external: newBuffer returns a buffer or nothing, a heap   *)
(* that has room or not is a choice, and allocatedSize() is length().  A   *)
(* malloc of 0 bytes or of more than maxBufferLength returns or throws     *)
(* before it touches any state, so Requests has neither.  peak_memory_ is   *)
(* only reported and is left out.                                          *)
(***************************************************************************)
EXTENDS BufferCache

CONSTANTS
  Threads,        \* threads that allocate and free
  Requests,       \* sizes asked for
  BufferIds,      \* bound: buffers alive at a time
  SmallSize,      \* small_size_: smaller buffers come from the heap
  Recommended,    \* 0.95 * recommendedMaxWorkingSetSize
  ResourceLimit,  \* resource_limit_
  Limits,         \* what the limits can be set to
  WordSize        \* size_t counts modulo this

VARIABLES
  memory,   \* what mutex_ guards, and the buffers the device has given out
  limits,   \* max_pool_size_, block_limit_, gc_limit_
  held,     \* buffers malloc returned and nobody freed yet
  pc        \* per thread: what it does outside the lock

vars == <<memory, limits, held, pc>>

Idle == [at |-> "idle", size |-> 0, buf |-> NoBuffer]
At(t, where) == pc[t].at = where

\* The heap that small buffers come from is itself in the residency set.
HeapObject == [id |-> -1, size |-> SmallSize, where |-> "itself"]

InitMemory ==
  [cache |-> EmptyCache, active |-> 0, numResources |-> 0,
   wired |-> {}, unwired |-> {HeapObject}, capacity |-> 0, live |-> {}]

Init ==
  /\ memory = InitMemory
  /\ \E block \in Limits :
       limits = [maxPool |-> block, block |-> block,
                 gc |-> Min({Recommended, block})]
  /\ held = {}
  /\ pc = [t \in Threads |-> Idle]

(***************************************************************************)
(* ResidencySet                                                            *)
(***************************************************************************)
Insert(m, b) ==
  IF b.where = "heap" THEN m
  ELSE IF Bytes(m.wired) + b.size <= m.capacity
  THEN [m EXCEPT !.wired = @ \cup {b}]
  ELSE [m EXCEPT !.unwired = @ \cup {b}]

\* Mutant: erase looks among the wired allocations only.
EraseWired(m, bufs) == [m EXCEPT !.wired = @ \ bufs]

Erase(m, bufs) == [m EXCEPT !.wired = @ \ bufs, !.unwired = @ \ bufs]

(***************************************************************************)
(* resize walks an unordered set and an unordered array: what it wires is  *)
(* any set of unwired allocations to which none of the rest can be added,  *)
(* what it unwires any set that is enough, and one less would not be.      *)
(***************************************************************************)
Resized(m, n) ==
  LET grown == {w \in SUBSET (m.wired \cup m.unwired) :
                  /\ m.wired \subseteq w /\ Bytes(w) <= n
                  /\ \A b \in m.unwired \ w : Bytes(w) + b.size > n}
      shrunk == {w \in SUBSET m.wired :
                   /\ Bytes(w) <= n
                   /\ \E b \in m.wired \ w : Bytes(w) + b.size > n}
      sets == IF Bytes(m.wired) < n THEN grown
              ELSE IF Bytes(m.wired) > n THEN shrunk ELSE {m.wired}
  IN  IF m.capacity = n THEN {m}
      ELSE {[m EXCEPT !.wired = w, !.unwired = (@ \cup m.wired) \ w,
                      !.capacity = n] : w \in sets}

(***************************************************************************)
(* Buffers leave the cache: the callback takes them out of the residency   *)
(* set and releases them, the caller lowers num_resources_.                *)
(***************************************************************************)
Collected(m, r) ==
  Erase([m EXCEPT !.cache = r.cache, !.numResources = @ - Len(r.freed),
                  !.live = @ \ ToSet(r.freed)],
        ToSet(r.freed))

Released(m, min) == Collected(m, ReleaseCachedBuffers(m.cache, min))

Align(size) ==
  IF size > PageSize THEN PageSize * ((size + PageSize - 1) \div PageSize)
  ELSE size

\* Mutant: nothing brings the cache below its limit.
CountedOnly(m, b) ==
  [m EXCEPT !.active = @ + b.size]

\* The end of malloc: statistics, then the cache is brought below its limit.
Counted(m, b) ==
  LET c == [m EXCEPT !.active = @ + b.size]
  IN  IF c.cache.size > limits.maxPool
      THEN Released(c, c.cache.size - limits.maxPool) ELSE c

Return(t, m, b) ==
  /\ memory' = Counted(m, b)
  /\ held' = held \cup {b}
  /\ pc' = [pc EXCEPT ![t] = Idle]
  /\ UNCHANGED limits

MallocFromCache(t, size) ==
  /\ At(t, "idle")
  /\ LET b == Reusable(memory.cache, size)
     IN  /\ b # NoBuffer
         /\ Return(t, [memory EXCEPT !.cache = TakeOut(@, b)], b)

\* Mutant: mem_required without the memory in the cache.
RequiredUncached(size) == memory.active + size

Required(size) == memory.active + memory.cache.size + size

\* Mutant: the resource limit is not tested.
MallocMissUnlimited(t, size) ==
  /\ At(t, "idle")
  /\ Reusable(memory.cache, size) = NoBuffer
  /\ pc' = [pc EXCEPT ![t] = [at |-> "allocate", size |-> size, buf |-> NoBuffer]]
  /\ UNCHANGED <<memory, limits, held>>

\* Nothing to reuse: reclaim memory under pressure, and give up at the limit.
MallocMiss(t, size) ==
  LET pressed == \/ Required(size) >= limits.gc
                 \/ memory.numResources >= ResourceLimit
      m == IF pressed
           THEN Released(memory, (Required(size) - limits.gc) % WordSize)
           ELSE memory
  IN  /\ At(t, "idle")
      /\ Reusable(memory.cache, size) = NoBuffer
      /\ memory' = m
      /\ pc' = IF m.numResources >= ResourceLimit THEN pc
               ELSE [pc EXCEPT ![t] = [at |-> "allocate", size |-> size,
                                       buf |-> NoBuffer]]
      /\ UNCHANGED <<limits, held>>

\* newBuffer, from the heap or the device, and what follows under the lock.
MallocNew(t) ==
  /\ At(t, "allocate")
  /\ \E where \in {"device"} \cup (IF pc[t].size < SmallSize THEN {"heap"} ELSE {}) :
       LET free == BufferIds \ {b.id : b \in memory.live}
           b == [id |-> Min(free), size |-> pc[t].size, where |-> where]
       IN  /\ free # {}
           /\ Return(t, Insert([memory EXCEPT !.numResources = @ + 1,
                                              !.live = @ \cup {b}], b), b)

\* The device has no memory: malloc returns a null buffer, its caller throws.
MallocFails(t) ==
  /\ At(t, "allocate")
  /\ pc' = [pc EXCEPT ![t] = Idle]
  /\ UNCHANGED <<memory, limits, held>>

Free(t, b) ==
  LET m == [memory EXCEPT !.active = @ - b.size]
  IN  /\ At(t, "idle") /\ b \in held
      /\ held' = held \ {b}
      /\ IF m.cache.size < limits.maxPool
         THEN /\ memory' = [m EXCEPT !.cache = RecycleToCache(@, b)]
              /\ UNCHANGED pc
         ELSE /\ memory' = Erase([m EXCEPT !.numResources = @ - 1], {b})
              /\ pc' = [pc EXCEPT ![t] = [at |-> "release", size |-> 0,
                                          buf |-> b]]
      /\ UNCHANGED limits

\* buf->release() after the lock was given up.
ReleaseBuffer(t) ==
  /\ At(t, "release")
  /\ memory' = [memory EXCEPT !.live = @ \ {pc[t].buf}]
  /\ pc' = [pc EXCEPT ![t] = Idle]
  /\ UNCHANGED <<limits, held>>

SetCacheLimit(n) ==
  /\ limits' = [limits EXCEPT !.maxPool = n]
  /\ UNCHANGED <<memory, held, pc>>

SetMemoryLimit(n) ==
  /\ limits' = [limits EXCEPT !.block = n, !.gc = Min({n, Recommended})]
  /\ UNCHANGED <<memory, held, pc>>

SetWiredLimit(n) ==
  /\ memory' \in Resized(memory, n)
  /\ UNCHANGED <<limits, held, pc>>

ClearCache ==
  /\ memory' = Collected(memory, [cache |-> EmptyCache,
                                  freed |-> memory.cache.pool])
  /\ UNCHANGED <<limits, held, pc>>

Malloc(t) ==
  \/ \E size \in {Align(r) : r \in Requests} :
       MallocFromCache(t, size) \/ MallocMiss(t, size)
  \/ MallocNew(t) \/ MallocFails(t)

Next ==
  \/ \E t \in Threads :
       Malloc(t) \/ (\E b \in held : Free(t, b)) \/ ReleaseBuffer(t)
  \/ \E n \in Limits : SetCacheLimit(n) \/ SetMemoryLimit(n) \/ SetWiredLimit(n)
  \/ ClearCache

-----------------------------------------------------------------------------
(* What the run of MCAllocators checks of this backend *)

Releasing == {pc[t].buf : t \in {u \in Threads : At(u, "release")}}

\* Every buffer of the device is held, cached or being released, and counted.
Accounted ==
  /\ held \cap Cached(memory.cache) = {}
  /\ memory.live = held \cup Cached(memory.cache) \cup Releasing
  /\ Releasing \cap (held \cup Cached(memory.cache)) = {}
  /\ memory.active = Bytes(held)
  /\ memory.numResources = Cardinality(held) + Len(memory.cache.pool)

\* The residency set has what the allocator owns, in one of its two parts.
ResidentOnce ==
  /\ memory.wired \cup memory.unwired =
       {b \in held \cup Cached(memory.cache) : b.where = "device"}
         \cup {HeapObject}
  /\ memory.wired \cap memory.unwired = {}
  /\ Bytes(memory.wired) <= memory.capacity

Overshoot == memory.numResources <= ResourceLimit + Cardinality(Threads) - 1
=============================================================================
