---------------------------- MODULE BufferCache ----------------------------
(***************************************************************************)
(* BufferCache<T> (mlx/backend/common/buffer_cache.h): freed buffers kept  *)
(* for reuse, in a multimap ordered by size and, at the same time, in a    *)
(* doubly linked list from the last one freed (head) to the first (tail).  *)
(* A cache is a record, an operation maps it to the cache it leaves; the   *)
(* allocators hold their lock around each call.  A buffer is a record with *)
(* at least a size; its holder is known by the buffer it holds.            *)
(***************************************************************************)
EXTENDS Integers, Sequences, FiniteSets, SequencesExt

CONSTANTS
  PageSize,  \* page_size_
  NoBuffer   \* nullptr

EmptyCache ==
  [pool |-> <<>>, next |-> <<>>, prev |-> <<>>,
   head |-> NoBuffer, tail |-> NoBuffer, size |-> 0]

Cached(c) == ToSet(c.pool)
Bytes(bufs) == MapThenSumSet(LAMBDA b : b.size, bufs)

\* add_at_head, for a holder just made, whose links are null.
AddAtHead(c, b) ==
  LET holders == DOMAIN c.next \cup {b}
  IN  [c EXCEPT !.next = [x \in holders |-> IF x = b THEN c.head ELSE c.next[x]],
                !.prev = [x \in holders |-> IF x = b THEN NoBuffer
                                            ELSE IF x = c.head THEN b ELSE c.prev[x]],
                !.head = b,
                !.tail = IF c.head = NoBuffer THEN b ELSE @]

\* delete: what is left of the links of one kind.
Without(links, b) == Restrict(links, DOMAIN links \ {b})

\* Mutant: a holder taken out of the middle leaves the link back to it.
RemoveHalfLinked(c, b) ==
  LET p == c.prev[b]
      n == c.next[b]
  IN  [c EXCEPT
         !.next = Without(IF p = NoBuffer THEN @ ELSE [@ EXCEPT ![p] = n], b),
         !.prev = Without(@, b),
         !.head = IF b = @ THEN n ELSE @,
         !.tail = IF b = @ THEN p ELSE @]

\* remove_from_list: the four cases of the code, and the holder is deleted.
RemoveFromList(c, b) ==
  LET p == c.prev[b]
      n == c.next[b]
      middle == p # NoBuffer /\ n # NoBuffer
      last   == ~middle /\ p # NoBuffer /\ b = c.tail
      first  == ~middle /\ ~last /\ b = c.head /\ n # NoBuffer
      only   == ~middle /\ ~last /\ ~first /\ b = c.head /\ b = c.tail
      next == IF middle THEN [c.next EXCEPT ![p] = n]
              ELSE IF last THEN [c.next EXCEPT ![p] = NoBuffer] ELSE c.next
      prev == IF middle THEN [c.prev EXCEPT ![n] = p]
              ELSE IF first THEN [c.prev EXCEPT ![n] = NoBuffer] ELSE c.prev
  IN  [c EXCEPT !.next = Without(next, b), !.prev = Without(prev, b),
                !.head = IF first THEN n ELSE IF only THEN NoBuffer ELSE @,
                !.tail = IF last THEN p ELSE IF only THEN NoBuffer ELSE @]

\* lower_bound(size): the first entry at least that large, or 0.
LowerBound(c, size) ==
  LET large == {i \in DOMAIN c.pool : c.pool[i].size >= size}
  IN  IF large = {} THEN 0 ELSE Min(large)

\* The buffer reuse_from_cache returns, NoBuffer if none is close enough.
Reusable(c, size) ==
  LET i == LowerBound(c, size)
  IN  IF i = 0 THEN NoBuffer
      ELSE IF c.pool[i].size >= Min({2 * size, size + 2 * PageSize})
      THEN NoBuffer ELSE c.pool[i]

\* The cache without b: reuse_from_cache once it has found b, and one round of
\* the loop of release_cached_buffers.
TakeOut(c, b) ==
  LET it == CHOOSE i \in DOMAIN c.pool : c.pool[i] = b
  IN  [RemoveFromList(c, b) EXCEPT !.pool = RemoveAt(@, it), !.size = @ - b.size]

\* emplace puts an entry behind those of its size.
RecycleToCache(c, b) ==
  LET i == Cardinality({j \in DOMAIN c.pool : c.pool[j].size <= b.size})
  IN  [AddAtHead(c, b) EXCEPT !.pool = InsertAt(@, i + 1, b),
                              !.size = @ + b.size]

(***************************************************************************)
(* release_cached_buffers(min): the cache that is left and the buffers the *)
(* callback free_ got, in order.  Everything goes when nine tenths or more *)
(* are asked for (clear), else buffers from the tail until min bytes are   *)
(* free; after[k] is the state after at most k rounds of that loop.        *)
(***************************************************************************)
ReleaseCachedBuffers(c, min) ==
  IF 10 * min >= 9 * c.size THEN [cache |-> EmptyCache, freed |-> c.pool]
  ELSE LET after[k \in 0 .. Len(c.pool)] ==
             IF k = 0 THEN [cache |-> c, freed |-> <<>>]
             ELSE LET s == after[k - 1]
                      t == s.cache.tail
                  IN  IF t = NoBuffer \/ c.size - s.cache.size >= min THEN s
                      ELSE [cache |-> TakeOut(s.cache, t),
                            freed |-> Append(s.freed, t)]
       IN  after[Len(c.pool)]

\* The list walked from start: at most as many steps as there are entries.
WalkOf(c, start, link) ==
  LET at[k \in 0 .. Len(c.pool)] ==
        IF k = 0 THEN start
        ELSE IF at[k - 1] \in DOMAIN link THEN link[at[k - 1]] ELSE NoBuffer
      steps == {k \in 0 .. Len(c.pool) : at[k] # NoBuffer}
  IN  [k \in 1 .. Cardinality(steps) |-> at[k - 1]]

(***************************************************************************)
(* The two indexes agree: the list holds the buffers of the pool, each     *)
(* once, walked backwards it is the reverse, the pool is in order and the  *)
(* size is that of its buffers.                                            *)
(***************************************************************************)
Consistent(c) ==
  LET list == WalkOf(c, c.head, c.next)
  IN  /\ ToSet(list) = Cached(c) /\ Len(list) = Len(c.pool)
      /\ Cardinality(Cached(c)) = Len(c.pool)
      /\ WalkOf(c, c.tail, c.prev) = Reverse(list)
      /\ DOMAIN c.next = Cached(c) /\ DOMAIN c.prev = Cached(c)
      /\ \A i \in 1 .. Len(c.pool) - 1 : c.pool[i].size <= c.pool[i + 1].size
      /\ c.size = Bytes(Cached(c))
=============================================================================
