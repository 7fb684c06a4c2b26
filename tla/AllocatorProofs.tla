-------------------------- MODULE AllocatorProofs ---------------------------
(***************************************************************************)
(* Theorems about the three allocators and their buffer cache              *)
(* (mlx/backend/common/buffer_cache.h, mlx/backend/metal/allocator.cpp,    *)
(* mlx/backend/cuda/allocator.cpp, mlx/backend/no_gpu/allocator.cpp), for  *)
(* any number of threads, any sizes and limits and any page size: the      *)
(* index and the list of the cache agree, no buffer is lost, owned twice   *)
(* or freed in use, the residency set holds what it should, the limit of   *)
(* resources is overshot by a thread each at most, the cache a malloc      *)
(* leaves is within its limit, and a malloc goes to the device only under  *)
(* the limit or with nothing cached.  First the operations of the cache,   *)
(* then each allocator with its invariant, then the theorems.              *)
(***************************************************************************)
EXTENDS MCDevices, Induction, SequenceTheorems, TLAPS

\* The operations of the buffer cache, which do not depend on the page size.
Cache == INSTANCE BufferCache WITH PageSize <- 1

-----------------------------------------------------------------------------
(* Sums of sizes *)

AllSized(S) == IsFiniteSet(S) /\ \A b \in S : b.size \in Nat

\* The bytes of a set of buffers, one buffer more or less.
LEMMA BytesSum ==
  ASSUME NEW S, AllSized(S)
  PROVE  \E g : SumsUp(g, S, [b \in S |-> b.size]) /\ Cache!Bytes(S) = g[S]
<1> DEFINE w == [b \in S |-> b.size]
           Sums(g) == g = [T \in SUBSET S |-> IF T = {} THEN 0
                             ELSE (CHOOSE x \in T : TRUE).size + g[T \ {CHOOSE x \in T : TRUE}]]
<1>1. \A T \in SUBSET S : T # {} => Pick(T) \in S /\ w[Pick(T)] = Pick(T).size
  BY DEF Pick
<1>2. PICK g : SumsUp(g, S, w)
  <2>1. \A x \in S : w[x] \in Nat
    BY DEF AllSized
  <2>2. IsFiniteSet(S)
    BY DEF AllSized
  <2> HIDE DEF w
  <2> QED
    BY <2>1, <2>2, SumExists
<1>3. ASSUME NEW h PROVE SumsUp(h, S, w) <=> Sums(h)
  <2>1. [T \in SUBSET S |-> IF T = {} THEN 0 ELSE w[Pick(T)] + h[T \ {Pick(T)}]]
          = [T \in SUBSET S |-> IF T = {} THEN 0 ELSE Pick(T).size + h[T \ {Pick(T)}]]
    BY <1>1
  <2> QED
    BY <2>1 DEF SumsUp, Pick
<1>4. Cache!Bytes(S) = (CHOOSE h : Sums(h))[S]
  BY DEF Cache!Bytes, Cache!MapThenSumSet, Cache!MapThenFoldSet
<1>5. Sums(CHOOSE h : Sums(h))
  <2>1. Sums(g)
    BY <1>2, <1>3
  <2> HIDE DEF Sums
  <2> QED
    BY <2>1
<1> QED
  <2> HIDE DEF Sums, w
  <2> QED
    BY <1>3, <1>4, <1>5 DEF w

\* The bytes of a set: of none, of all, and of all but one.
LEMMA BytesFacts ==
  ASSUME NEW S, AllSized(S)
  PROVE  /\ Cache!Bytes({}) = 0
         /\ Cache!Bytes(S) \in Nat
         /\ \A T \in SUBSET S : AllSized(T) /\ Cache!Bytes(T) \in Nat
         /\ \A x \in S : Cache!Bytes(S) = x.size + Cache!Bytes(S \ {x})
<1>1. \A T \in SUBSET S : AllSized(T)
  BY FS_Subset DEF AllSized
<1>2. \A T \in SUBSET S : Cache!Bytes(T) \in Nat
  <2> TAKE T \in SUBSET S
  <2>1. PICK w : w = [b \in T |-> b.size]
    OBVIOUS
  <2>2. PICK g : SumsUp(g, T, w) /\ Cache!Bytes(T) = g[T]
    BY <1>1, <2>1, BytesSum
  <2>3. IsFiniteSet(T) /\ \A x \in T : w[x] \in Nat
    BY <1>1, <2>1 DEF AllSized
  <2>4. g[T] \in Nat
    BY <2>2, <2>3, SumAdds
  <2> QED
    BY <2>2, <2>4
<1>3. Cache!Bytes({}) = 0
  <2>1. PICK w : w = [b \in {} |-> b.size]
    OBVIOUS
  <2>2. AllSized({})
    BY <1>1
  <2>3. PICK g : SumsUp(g, {}, w) /\ Cache!Bytes({}) = g[{}]
    BY <2>1, <2>2, BytesSum
  <2>4. IsFiniteSet({}) /\ \A x \in {} : w[x] \in Nat
    BY <2>2 DEF AllSized
  <2> QED
    BY <2>3, <2>4, SumAdds
<1>4. ASSUME NEW x \in S PROVE Cache!Bytes(S) = x.size + Cache!Bytes(S \ {x})
  <2>1. PICK w, v, R : w = [b \in S |-> b.size] /\ R = S \ {x} /\ v = [b \in R |-> b.size]
    OBVIOUS
  <2>2. AllSized(S) /\ AllSized(R)
    BY <1>1, <2>1
  <2>3. PICK g : SumsUp(g, S, w) /\ Cache!Bytes(S) = g[S]
    BY <2>1, BytesSum
  <2>4. PICK h : SumsUp(h, R, v) /\ Cache!Bytes(R) = h[R]
    BY <2>1, <2>2, BytesSum
  <2>5. /\ IsFiniteSet(S) /\ \A y \in S : w[y] \in Nat
        /\ IsFiniteSet(R) /\ \A y \in R : v[y] \in Nat
        /\ \A y \in R : w[y] = v[y]
        /\ R \subseteq S /\ R \subseteq R
    BY <2>1, <2>2 DEF AllSized
  <2>6. g[R] = h[R]
    BY <2>3, <2>4, <2>5, SumAgrees
  <2>7. g[S] = w[x] + g[R]
    <3>1. IsFiniteSet(S)
      BY <2>5
    <3>3. \A y \in S : w[y] \in Nat
      BY <2>5
    <3>4. SumsUp(g, S, w)
      BY <2>3
    <3>2. S \in SUBSET S
      OBVIOUS
    <3>5. g[S] = w[x] + g[S \ {x}]
      BY <3>1, <3>2, <3>3, <3>4, SumAdds
    <3> QED
      BY <2>1, <3>5
  <2> QED
    BY <2>1, <2>3, <2>4, <2>6, <2>7
<1> QED
  BY <1>1, <1>2, <1>3, <1>4

\* One buffer more.
LEMMA BytesAdd ==
  ASSUME NEW S, AllSized(S), NEW x, x \notin S, x.size \in Nat
  PROVE  AllSized(S \cup {x}) /\ Cache!Bytes(S \cup {x}) = Cache!Bytes(S) + x.size
<1>1. PICK U : U = S \cup {x}
  OBVIOUS
<1>2. AllSized(U)
  BY <1>1, FS_AddElement DEF AllSized
<1>3. U \ {x} = S
  BY <1>1
<1>4. Cache!Bytes(U) = x.size + Cache!Bytes(S)
  BY <1>1, <1>2, <1>3, BytesFacts
<1>5. Cache!Bytes(S) \in Nat
  BY BytesFacts
<1> QED
  BY <1>1, <1>2, <1>4, <1>5

\* A part of a set has no more bytes than the whole.
LEMMA BytesPart ==
  ASSUME NEW S, AllSized(S), NEW T, T \subseteq S
  PROVE  Cache!Bytes(T) \in Nat /\ Cache!Bytes(S) \in Nat /\ Cache!Bytes(T) <= Cache!Bytes(S)
<1>1. Cache!Bytes(T) \in Nat /\ Cache!Bytes(S) \in Nat /\ AllSized(T)
  BY BytesFacts
<1> DEFINE F == {U \in SUBSET (S \ T) : Cache!Bytes(T) <= Cache!Bytes(T \cup U)}
<1>2. {} \in F
  <2>1. T \cup {} = T
    OBVIOUS
  <2> QED
    BY <1>1, <2>1
<1>3. ASSUME NEW U \in F, NEW x \in S \ T, U \subseteq S \ T, x \notin U PROVE U \cup {x} \in F
  <2>1. PICK V : V = T \cup U
    OBVIOUS
  <2>2. AllSized(V) /\ Cache!Bytes(V) \in Nat
    BY <2>1, BytesFacts
  <2>3. x \notin V /\ x.size \in Nat
    BY <1>3, <2>1 DEF AllSized
  <2>4. Cache!Bytes(V \cup {x}) = Cache!Bytes(V) + x.size
    BY <2>2, <2>3, BytesAdd
  <2>5. V \cup {x} = T \cup (U \cup {x})
    BY <2>1
  <2>6. Cache!Bytes(T) <= Cache!Bytes(V)
    BY <2>1
  <2> QED
    BY <1>1, <2>2, <2>3, <2>4, <2>5, <2>6
<1>4. IsFiniteSet(S \ T)
  BY FS_Subset DEF AllSized
<1>5. S \ T \in F
  <2> HIDE DEF F
  <2> QED
    BY <1>2, <1>3, <1>4, FiniteSetInduction
<1>6. T \cup (S \ T) = S
  OBVIOUS
<1> QED
  BY <1>1, <1>5, <1>6

-----------------------------------------------------------------------------
(* Sequences without repetition *)

Elems(s) == {s[i] : i \in DOMAIN s}
Distinct(s) == \A i, j \in DOMAIN s : s[i] = s[j] => i = j

RemovedAt(s, i) == [k \in 1 .. Len(s) - 1 |-> IF k < i THEN s[k] ELSE s[k + 1]]
InsertedAt(s, i, e) ==
  [k \in 1 .. Len(s) + 1 |-> IF k < i THEN s[k] ELSE IF k = i THEN e ELSE s[k - 1]]

\* The elements of a concatenation.
LEMMA ConcatIs ==
  ASSUME NEW V, NEW p \in Seq(V), NEW q \in Seq(V), NEW m, m = Len(p), NEW n, n = Len(q),
         NEW r, r = p \o q
  PROVE  /\ r \in Seq(V) /\ Len(r) = m + n /\ DOMAIN r = 1 .. m + n
         /\ \A k \in 1 .. m + n : r[k] = IF k <= m THEN p[k] ELSE q[k - m]
  OBVIOUS

\* RemoveAt of the community modules is RemovedAt.
LEMMA RemoveAtIs ==
  ASSUME NEW V, NEW s \in Seq(V), NEW i \in 1 .. Len(s)
  PROVE  Cache!RemoveAt(s, i) = RemovedAt(s, i)
<1>1. PICK p, q : p = SubSeq(s, 1, i - 1) /\ q = SubSeq(s, i + 1, Len(s))
  OBVIOUS
<1>2. /\ p \in Seq(V) /\ Len(p) = i - 1 /\ \A k \in 1 .. i - 1 : p[k] = s[k]
      /\ q \in Seq(V) /\ Len(q) = Len(s) - i /\ \A k \in 1 .. Len(s) - i : q[k] = s[i + k]
  BY <1>1
<1>3. PICK r : r = p \o q
  OBVIOUS
<1>4. r \in Seq(V) /\ Len(r) = Len(s) - 1
      /\ \A k \in 1 .. Len(s) - 1 : r[k] = IF k < i THEN s[k] ELSE s[k + 1]
  <2>1. PICK m, n : m = Len(p) /\ n = Len(q) /\ m = i - 1 /\ n = Len(s) - i
    BY <1>2
  <2>2. /\ r \in Seq(V) /\ Len(r) = m + n
        /\ \A k \in 1 .. m + n : r[k] = IF k <= m THEN p[k] ELSE q[k - m]
    <3>1. p \in Seq(V)
      BY <1>2
    <3>2. q \in Seq(V)
      BY <1>2
    <3>3. m = Len(p)
      BY <2>1
    <3>4. n = Len(q)
      BY <2>1
    <3> QED
      BY ONLY <1>3, <3>1, <3>2, <3>3, <3>4, ConcatIs
  <2>3. ASSUME NEW k \in 1 .. Len(s) - 1
        PROVE  r[k] = IF k < i THEN s[k] ELSE s[k + 1]
    <3>1. CASE k < i
      <4>1. k \in 1 .. m + n /\ k <= m /\ k \in 1 .. i - 1
        BY <2>1, <3>1
      <4> QED
        BY <1>2, <2>2, <3>1, <4>1
    <3>2. CASE k >= i
      <4>1. PICK j \in 1 .. Len(s) - i : j = k - m /\ i + j = k + 1
        BY <2>1, <3>2
      <4>2. k \in 1 .. m + n /\ ~(k <= m)
        BY <2>1, <3>2
      <4>3. r[k] = q[j] /\ q[j] = s[k + 1]
        BY <1>2, <2>2, <4>1, <4>2
      <4> QED
        BY <3>2, <4>3
    <3> QED
      BY <3>1, <3>2
  <2> QED
    BY <2>1, <2>2, <2>3
<1>5. r = RemovedAt(s, i)
  BY <1>4 DEF RemovedAt
<1> QED
  BY <1>1, <1>3, <1>5 DEF Cache!RemoveAt

\* InsertAt of the community modules is InsertedAt.
LEMMA InsertAtIs ==
  ASSUME NEW V, NEW s \in Seq(V), NEW i \in 1 .. Len(s) + 1, NEW e \in V
  PROVE  Cache!InsertAt(s, i, e) = InsertedAt(s, i, e)
<1>1. PICK p, q : p = SubSeq(s, 1, i - 1) /\ q = SubSeq(s, i, Len(s))
  OBVIOUS
<1>2. /\ p \in Seq(V) /\ Len(p) = i - 1 /\ \A k \in 1 .. i - 1 : p[k] = s[k]
      /\ q \in Seq(V) /\ Len(q) = Len(s) - i + 1
      /\ \A k \in 1 .. Len(s) - i + 1 : q[k] = s[i - 1 + k]
  BY <1>1
<1>3. PICK r : r = (p \o <<e>>) \o q
  OBVIOUS
<1>4. PICK u : u = p \o <<e>> /\ u \in Seq(V) /\ Len(u) = i
               /\ u[i] = e /\ \A k \in 1 .. i - 1 : u[k] = s[k]
  <2>1. PICK u, z : z = <<e>> /\ u = p \o z
    OBVIOUS
  <2>2. PICK m, n : m = i - 1 /\ n = 1
    OBVIOUS
  <2>3. z \in Seq(V) /\ n = Len(z) /\ m = Len(p) /\ p \in Seq(V) /\ z[1] = e
    BY <1>2, <2>1, <2>2
  <2>4. /\ u \in Seq(V) /\ Len(u) = m + n
        /\ \A k \in 1 .. m + n : u[k] = IF k <= m THEN p[k] ELSE z[k - m]
    BY <2>1, <2>3, ConcatIs
  <2>5. u[i] = e
    BY <2>2, <2>3, <2>4
  <2>6. \A k \in 1 .. i - 1 : u[k] = s[k]
    BY <1>2, <2>2, <2>4
  <2>7. u = p \o <<e>> /\ Len(u) = i
    BY <2>1, <2>2, <2>4
  <2> QED
    BY <2>4, <2>5, <2>6, <2>7
<1>5. r \in Seq(V) /\ Len(r) = Len(s) + 1
      /\ \A k \in 1 .. Len(s) + 1 : r[k] = IF k <= i THEN u[k] ELSE q[k - i]
  <2>1. PICK n : n = Len(q) /\ n = Len(s) - i + 1
    BY <1>2
  <2>2. r = u \o q /\ u \in Seq(V) /\ q \in Seq(V) /\ i = Len(u)
    BY <1>2, <1>3, <1>4
  <2>3. /\ r \in Seq(V) /\ Len(r) = i + n
        /\ \A k \in 1 .. i + n : r[k] = IF k <= i THEN u[k] ELSE q[k - i]
    <3>1. r = u \o q
      BY <2>2
    <3>2. u \in Seq(V)
      BY <2>2
    <3>3. q \in Seq(V)
      BY <2>2
    <3>4. i = Len(u)
      BY <2>2
    <3>5. n = Len(q)
      BY <2>1
    <3> QED
      BY ONLY <3>1, <3>2, <3>3, <3>4, <3>5, ConcatIs
  <2>4. i + n = Len(s) + 1
    BY <2>1
  <2> QED
    BY <2>3, <2>4
<1>6. ASSUME NEW k \in 1 .. Len(s) + 1
      PROVE  r[k] = IF k < i THEN s[k] ELSE IF k = i THEN e ELSE s[k - 1]
  <2>1. CASE k < i
    BY <1>4, <1>5, <2>1
  <2>2. CASE k = i
    BY <1>4, <1>5, <2>2
  <2>3. CASE k > i
    <3>1. PICK j \in 1 .. Len(s) - i + 1 : j = k - i /\ i - 1 + j = k - 1
      BY <2>3
    <3>2. ~(k <= i) /\ ~(k < i) /\ k # i
      BY <2>3
    <3>3. r[k] = q[j] /\ q[j] = s[k - 1]
      BY <1>2, <1>5, <3>1, <3>2
    <3> QED
      BY <3>2, <3>3
  <2> QED
    BY <2>1, <2>2, <2>3
<1>7. r = InsertedAt(s, i, e)
  BY <1>5, <1>6 DEF InsertedAt
<1> QED
  BY <1>1, <1>3, <1>7 DEF Cache!InsertAt

\* A sequence without repetitions loses the element that is removed.
LEMMA RemovedFacts ==
  ASSUME NEW V, NEW s \in Seq(V), Distinct(s), NEW i \in 1 .. Len(s), NEW r, r = RemovedAt(s, i)
  PROVE  /\ r \in Seq(V) /\ Len(r) = Len(s) - 1 /\ Distinct(r)
         /\ Elems(r) = Elems(s) \ {s[i]}
<1>1. r \in Seq(V) /\ Len(r) = Len(s) - 1 /\ DOMAIN r = 1 .. Len(s) - 1
      /\ \A k \in 1 .. Len(s) - 1 : r[k] = IF k < i THEN s[k] ELSE s[k + 1]
  BY DEF RemovedAt
<1>2. Distinct(r)
  <2>1. PICK f : f = [k \in 1 .. Len(s) - 1 |-> IF k < i THEN k ELSE k + 1]
    OBVIOUS
  <2>2. \A k \in 1 .. Len(s) - 1 : f[k] \in DOMAIN s /\ r[k] = s[f[k]]
    BY <1>1, <2>1
  <2>3. \A k, j \in 1 .. Len(s) - 1 : f[k] = f[j] => k = j
    BY <2>1
  <2> QED
    BY <1>1, <2>2, <2>3 DEF Distinct
<1>3. Elems(r) \subseteq Elems(s) \ {s[i]}
  BY <1>1 DEF Elems, Distinct
<1>4. ASSUME NEW k \in 1 .. Len(s), k # i PROVE s[k] \in Elems(r)
  <2>1. CASE k < i
    <3>1. k \in 1 .. Len(s) - 1 /\ r[k] = s[k]
      BY <1>1, <2>1
    <3> QED
      BY <1>1, <3>1 DEF Elems
  <2>2. CASE k > i
    <3>1. PICK j \in 1 .. Len(s) - 1 : k = j + 1 /\ r[j] = s[k]
      <4>1. k - 1 \in 1 .. Len(s) - 1 /\ ~(k - 1 < i) /\ (k - 1) + 1 = k
        BY <2>2
      <4> QED
        BY <1>1, <4>1
    <3> QED
      BY <1>1, <3>1 DEF Elems
  <2> QED
    BY <1>4, <2>1, <2>2
<1>5. Elems(s) \ {s[i]} \subseteq Elems(r)
  BY <1>4 DEF Elems
<1> QED
  BY <1>1, <1>2, <1>3, <1>5

\* A sequence without repetitions stays so when a new element is inserted.
LEMMA InsertedFacts ==
  ASSUME NEW V, NEW s \in Seq(V), Distinct(s), NEW i \in 1 .. Len(s) + 1,
         NEW e \in V, e \notin Elems(s), NEW r, r = InsertedAt(s, i, e)
  PROVE  /\ r \in Seq(V) /\ Len(r) = Len(s) + 1 /\ Distinct(r)
         /\ Elems(r) = Elems(s) \cup {e}
<1>1. r \in Seq(V) /\ Len(r) = Len(s) + 1 /\ DOMAIN r = 1 .. Len(s) + 1
      /\ \A k \in 1 .. Len(s) + 1 :
           r[k] = IF k < i THEN s[k] ELSE IF k = i THEN e ELSE s[k - 1]
  BY DEF InsertedAt
<1>2. Distinct(r)
  <2>1. PICK f : f = [k \in 1 .. Len(s) + 1 |-> IF k < i THEN k ELSE k - 1]
    OBVIOUS
  <2>2. \A k \in 1 .. Len(s) + 1 : k # i => f[k] \in DOMAIN s /\ r[k] = s[f[k]]
    BY <1>1, <2>1
  <2>3. \A k, j \in 1 .. Len(s) + 1 : k # i /\ j # i /\ f[k] = f[j] => k = j
    BY <2>1
  <2>4. r[i] = e /\ \A k \in DOMAIN s : s[k] # e
    BY <1>1 DEF Elems
  <2> SUFFICES ASSUME NEW k \in 1 .. Len(s) + 1, NEW j \in 1 .. Len(s) + 1, r[k] = r[j]
               PROVE  k = j
    BY <1>1 DEF Distinct
  <2>5. CASE k = i \/ j = i
    BY <2>2, <2>4, <2>5
  <2>6. CASE k # i /\ j # i
    <3>1. s[f[k]] = s[f[j]] /\ f[k] \in DOMAIN s /\ f[j] \in DOMAIN s
      BY <2>2, <2>6
    <3>2. f[k] = f[j]
      BY <3>1 DEF Distinct
    <3> QED
      BY <2>3, <2>6, <3>2
  <2> QED
    BY <2>5, <2>6
<1>3. Elems(r) \subseteq Elems(s) \cup {e}
  BY <1>1 DEF Elems
<1>4. ASSUME NEW k \in 1 .. Len(s) PROVE s[k] \in Elems(r)
  <2>1. CASE k < i
    <3>1. k \in 1 .. Len(s) + 1 /\ r[k] = s[k]
      BY <1>1, <2>1
    <3> QED
      BY <1>1, <3>1 DEF Elems
  <2>2. CASE k >= i
    <3>1. PICK j \in 1 .. Len(s) + 1 : j = k + 1
      OBVIOUS
    <3>2. r[j] = s[k]
      BY <1>1, <2>2, <3>1
    <3> QED
      BY <1>1, <3>2 DEF Elems
  <2> QED
    BY <2>1, <2>2
<1>5. e \in Elems(r)
  <2>1. r[i] = e /\ i \in 1 .. Len(s) + 1
    BY <1>1
  <2> QED
    BY <1>1, <2>1 DEF Elems
<1>6. Elems(s) \subseteq Elems(r)
  BY <1>4 DEF Elems
<1> QED
  BY <1>1, <1>2, <1>3, <1>5, <1>6

\* A sequence without repetitions is as long as it has elements.
LEMMA ElemsFinite ==
  ASSUME NEW V, NEW s \in Seq(V)
  PROVE  /\ IsFiniteSet(Elems(s)) /\ Elems(s) \subseteq V
         /\ Distinct(s) => Cardinality(Elems(s)) = Len(s)
<1>1. PICK n \in Nat : n = Len(s) /\ DOMAIN s = 1 .. n
  OBVIOUS
<1>2. IsFiniteSet(1 .. n) /\ Cardinality(1 .. n) = n
  BY FS_Interval
<1>3. PICK f : f = [i \in 1 .. n |-> s[i]]
  OBVIOUS
<1>4. f \in Surjection(1 .. n, Elems(s))
  BY <1>1, <1>3 DEF Surjection, Elems
<1>5. IsFiniteSet(Elems(s))
  BY <1>2, <1>4, FS_Surjection
<1>6. ASSUME Distinct(s) PROVE Cardinality(Elems(s)) = Len(s)
  <2>1. f \in Injection(1 .. n, Elems(s))
    BY <1>1, <1>3, <1>4, <1>6 DEF Injection, Surjection, IsInjective, Distinct, Elems
  <2>2. f \in Bijection(1 .. n, Elems(s))
    BY <1>4, <2>1 DEF Bijection
  <2> QED
    <3>1. ExistsBijection(1 .. n, Elems(s))
      BY <2>2 DEF ExistsBijection
    <3> QED
      BY <1>1, <1>2, <3>1, FS_Bijection
<1> QED
  BY <1>5, <1>6 DEF Elems

-----------------------------------------------------------------------------
(* The buffer cache *)

Places == {"heap", "device", "pool", "managed", "no data", "malloc"}
Buffer == [id : Int, size : Nat, where : Places]
Link == Buffer \cup {NoBuffer}
Links == UNION {[D -> Link] : D \in SUBSET Buffer}
Caches == [pool : Seq(Buffer), next : Links, prev : Links, head : Link, tail : Link, size : Nat]

\* The links of c are those of a list without repetition.
Linked(c, list) ==
  /\ list \in Seq(Buffer) /\ Distinct(list)
  /\ DOMAIN c.next = Elems(list) /\ DOMAIN c.prev = Elems(list)
  /\ \A i \in 1 .. Len(list) :
       /\ c.next[list[i]] = IF i = Len(list) THEN NoBuffer ELSE list[i + 1]
       /\ c.prev[list[i]] = IF i = 1 THEN NoBuffer ELSE list[i - 1]
  /\ c.head = IF Len(list) = 0 THEN NoBuffer ELSE list[1]
  /\ c.tail = IF Len(list) = 0 THEN NoBuffer ELSE list[Len(list)]

Sorted(s) == \A i, j \in DOMAIN s : i < j => s[i].size <= s[j].size

\* The pool is in order, has each buffer once and those of the list, and the
\* size of the cache is the sum of theirs.
WellFormed(c) ==
  /\ c \in Caches
  /\ Distinct(c.pool) /\ Sorted(c.pool)
  /\ c.size = Cache!Bytes(Elems(c.pool))
  /\ \E list : Linked(c, list) /\ Elems(list) = Elems(c.pool) /\ Len(list) = Len(c.pool)

\* The null pointer is no buffer.
LEMMA NullIsNoBuffer == NoBuffer \notin Buffer
  BY DEF NoBuffer, Buffer, Places

\* A function from buffers to links is one of the link tables.
LEMMA LinksType ==
  ASSUME NEW D \in SUBSET Buffer, NEW f, f = [x \in D |-> f[x]], \A x \in D : f[x] \in Link
  PROVE  f \in Links
  BY DEF Links

\* The types of the fields of a cache.
LEMMA CachesFields ==
  ASSUME NEW c \in Caches
  PROVE  /\ c.pool \in Seq(Buffer) /\ c.next \in Links /\ c.prev \in Links
         /\ c.head \in Link /\ c.tail \in Link /\ c.size \in Nat
         /\ c.next = [x \in DOMAIN c.next |-> c.next[x]]
         /\ c.prev = [x \in DOMAIN c.prev |-> c.prev[x]]
         /\ DOMAIN c.next \subseteq Buffer /\ DOMAIN c.prev \subseteq Buffer
         /\ \A x \in DOMAIN c.next : c.next[x] \in Link
         /\ \A x \in DOMAIN c.prev : c.prev[x] \in Link
<1>1. /\ c.pool \in Seq(Buffer) /\ c.next \in Links /\ c.prev \in Links
      /\ c.head \in Link /\ c.tail \in Link /\ c.size \in Nat
  BY DEF Caches
<1>2. \A f \in Links : /\ f = [x \in DOMAIN f |-> f[x]] /\ DOMAIN f \subseteq Buffer
                       /\ \A x \in DOMAIN f : f[x] \in Link
  BY DEF Links
<1> QED
  BY <1>1, <1>2

\* d is c without the holder of b, which is between those of p and n.
Unlinked(c, d, b, p, n) ==
  /\ d \in Caches /\ d.pool = c.pool /\ d.size = c.size
  /\ d.next = [x \in DOMAIN c.next \ {b} |-> IF x = p THEN n ELSE c.next[x]]
  /\ d.prev = [x \in DOMAIN c.prev \ {b} |-> IF x = n THEN p ELSE c.prev[x]]
  /\ d.head = IF p = NoBuffer THEN n ELSE c.head
  /\ d.tail = IF n = NoBuffer THEN p ELSE c.tail

\* What remove_from_list does to the links of the i-th holder's neighbours.
LEMMA UnlinkIs ==
  ASSUME NEW c \in Caches, NEW list, Linked(c, list), NEW i \in 1 .. Len(list),
         NEW d, d = Cache!RemoveFromList(c, list[i])
  PROVE  \E b, p, n :
         b = list[i] /\ p = c.prev[b] /\ n = c.next[b] /\ Unlinked(c, d, b, p, n)
<1>0. PICK b, p, n : b = list[i] /\ p = c.prev[b] /\ n = c.next[b]
  OBVIOUS
<1>1. /\ n = IF i = Len(list) THEN NoBuffer ELSE list[i + 1]
      /\ p = IF i = 1 THEN NoBuffer ELSE list[i - 1]
  BY <1>0 DEF Linked
<1>2. /\ i # 1 => i - 1 \in 1 .. Len(list) /\ list[i - 1] \in Buffer
      /\ i # Len(list) => i + 1 \in 1 .. Len(list) /\ list[i + 1] \in Buffer
      /\ list[i] \in Buffer /\ Len(list) # 0 /\ 1 \in 1 .. Len(list) /\ Len(list) \in 1 .. Len(list)
  BY DEF Linked
<1>3. /\ p = NoBuffer <=> i = 1
      /\ n = NoBuffer <=> i = Len(list)
      /\ b = c.head <=> i = 1
      /\ b = c.tail <=> i = Len(list)
  <2>1. c.head = list[1] /\ c.tail = list[Len(list)] /\ DOMAIN list = 1 .. Len(list) /\ Distinct(list)
    BY <1>2 DEF Linked
  <2> QED
    BY <1>0, <1>1, <1>2, <2>1, NullIsNoBuffer DEF Distinct
<1>4. /\ p # NoBuffer => p \in DOMAIN c.next
      /\ n # NoBuffer => n \in DOMAIN c.prev
  BY <1>1, <1>2 DEF Linked, Elems
<1>5. /\ c.next = [x \in DOMAIN c.next |-> c.next[x]]
      /\ c.prev = [x \in DOMAIN c.prev |-> c.prev[x]]
      /\ NoBuffer \notin DOMAIN c.next /\ NoBuffer \notin DOMAIN c.prev
  BY CachesFields, NullIsNoBuffer
<1>7. PICK nx, pv, hd, tl :
        /\ nx = IF p # NoBuffer THEN [c.next EXCEPT ![p] = n] ELSE c.next
        /\ pv = IF n # NoBuffer THEN [c.prev EXCEPT ![n] = p] ELSE c.prev
        /\ hd = IF p = NoBuffer THEN n ELSE c.head
        /\ tl = IF n = NoBuffer THEN p ELSE c.tail
  OBVIOUS
<1>8. d = [c EXCEPT !.next = Cache!Without(nx, b), !.prev = Cache!Without(pv, b),
                    !.head = hd, !.tail = tl]
  <2> USE DEF Cache!RemoveFromList
  <2>1. CASE p # NoBuffer /\ n # NoBuffer
    BY <1>0, <1>3, <1>7, <2>1
  <2>2. CASE p # NoBuffer /\ n = NoBuffer
    BY <1>0, <1>3, <1>7, <2>2
  <2>3. CASE p = NoBuffer /\ n # NoBuffer
    BY <1>0, <1>3, <1>7, <2>3
  <2>4. CASE p = NoBuffer /\ n = NoBuffer
    BY <1>0, <1>3, <1>7, <2>4
  <2> QED
    BY <2>1, <2>2, <2>3, <2>4
<1>9. /\ Cache!Without(nx, b) = [x \in DOMAIN c.next \ {b} |-> IF x = p THEN n ELSE c.next[x]]
      /\ Cache!Without(pv, b) = [x \in DOMAIN c.prev \ {b} |-> IF x = n THEN p ELSE c.prev[x]]
  <2>1. DOMAIN nx = DOMAIN c.next /\ \A x \in DOMAIN c.next : nx[x] = IF x = p THEN n ELSE c.next[x]
    BY <1>4, <1>5, <1>7
  <2>2. DOMAIN pv = DOMAIN c.prev /\ \A x \in DOMAIN c.prev : pv[x] = IF x = n THEN p ELSE c.prev[x]
    BY <1>4, <1>5, <1>7
  <2> QED
    BY <2>1, <2>2 DEF Cache!Without, Cache!Restrict
<1>10. PICK nl, pl : nl = Cache!Without(nx, b) /\ pl = Cache!Without(pv, b)
  OBVIOUS
<1>11. d = [c EXCEPT !.next = nl, !.prev = pl, !.head = hd, !.tail = tl]
  BY <1>8, <1>10
<1>12. /\ d.next = nl /\ d.prev = pl /\ d.head = hd /\ d.tail = tl
       /\ d.pool = c.pool /\ d.size = c.size
  BY <1>11 DEF Caches
<1>13. p \in Link /\ n \in Link /\ hd \in Link /\ tl \in Link
  BY <1>1, <1>2, <1>7, CachesFields DEF Link
<1>14. nl \in Links
  <2>1. PICK D \in SUBSET Buffer : D = DOMAIN c.next \ {b}
    BY CachesFields
  <2>2. nl = [x \in D |-> nl[x]] /\ \A x \in D : nl[x] \in Link
    BY <1>9, <1>10, <1>13, <2>1, CachesFields
  <2> QED
    BY <2>2, LinksType
<1>15. pl \in Links
  <2>1. PICK D \in SUBSET Buffer : D = DOMAIN c.prev \ {b}
    BY CachesFields
  <2>2. pl = [x \in D |-> pl[x]] /\ \A x \in D : pl[x] \in Link
    BY <1>9, <1>10, <1>13, <2>1, CachesFields
  <2> QED
    BY <2>2, LinksType
<1>16. d \in Caches
  BY <1>11, <1>13, <1>14, <1>15 DEF Caches
<1>17. Unlinked(c, d, b, p, n)
  BY <1>7, <1>9, <1>10, <1>12, <1>16 DEF Unlinked
<1> QED
  BY <1>0, <1>17

\* The list without its i-th holder.
LEMMA UnlinkKeeps ==
  ASSUME NEW c \in Caches, NEW list, Linked(c, list), NEW i \in 1 .. Len(list),
         NEW d, d = Cache!RemoveFromList(c, list[i])
  PROVE  /\ d \in Caches /\ d.pool = c.pool /\ d.size = c.size
         /\ Linked(d, RemovedAt(list, i))
<1>0. PICK b, p, n :
        b = list[i] /\ p = c.prev[b] /\ n = c.next[b] /\ Unlinked(c, d, b, p, n)
  BY UnlinkIs
<1>3. /\ d \in Caches /\ d.pool = c.pool /\ d.size = c.size
      /\ d.next = [x \in DOMAIN c.next \ {b} |-> IF x = p THEN n ELSE c.next[x]]
      /\ d.prev = [x \in DOMAIN c.prev \ {b} |-> IF x = n THEN p ELSE c.prev[x]]
      /\ d.head = IF p = NoBuffer THEN n ELSE c.head
      /\ d.tail = IF n = NoBuffer THEN p ELSE c.tail
  BY <1>0 DEF Unlinked
<1>1. PICK r, m : /\ b = list[i] /\ p = c.prev[b] /\ n = c.next[b]
                  /\ r = RemovedAt(list, i) /\ m = Len(list)
  BY <1>0
<1>2. /\ list \in Seq(Buffer) /\ Distinct(list) /\ DOMAIN list = 1 .. m /\ m \in Nat
      /\ DOMAIN c.next = Elems(list) /\ DOMAIN c.prev = Elems(list)
      /\ \A k \in 1 .. m : /\ c.next[list[k]] = IF k = m THEN NoBuffer ELSE list[k + 1]
                           /\ c.prev[list[k]] = IF k = 1 THEN NoBuffer ELSE list[k - 1]
      /\ c.head = list[1] /\ c.tail = list[m]
  BY <1>1 DEF Linked
<1>4. /\ p = IF i = 1 THEN NoBuffer ELSE list[i - 1]
      /\ n = IF i = m THEN NoBuffer ELSE list[i + 1]
      /\ p \in Link /\ n \in Link
  <2>1. /\ p = IF i = 1 THEN NoBuffer ELSE list[i - 1]
        /\ n = IF i = m THEN NoBuffer ELSE list[i + 1]
    BY <1>1, <1>2
  <2> QED
    BY <1>2, <2>1 DEF Link
<1>5. /\ r \in Seq(Buffer) /\ Len(r) = m - 1 /\ Distinct(r) /\ Elems(r) = Elems(list) \ {b}
      /\ \A k \in 1 .. m - 1 : r[k] = IF k < i THEN list[k] ELSE list[k + 1]
  <2>1. \A k \in 1 .. m - 1 : r[k] = IF k < i THEN list[k] ELSE list[k + 1]
    BY <1>1 DEF RemovedAt
  <2>2. r \in Seq(Buffer) /\ Len(r) = m - 1 /\ Distinct(r) /\ Elems(r) = Elems(list) \ {b}
    BY <1>1, <1>2, RemovedFacts
  <2> QED
    BY <2>1, <2>2
<1>6. DOMAIN d.next = Elems(r) /\ DOMAIN d.prev = Elems(r)
  BY <1>2, <1>3, <1>5
<1>7. \A k, j \in 1 .. m : list[k] = list[j] => k = j
  BY <1>2 DEF Distinct
<1>8. \A k \in 1 .. m : list[k] \in Buffer /\ list[k] # NoBuffer
  BY <1>2, NullIsNoBuffer
<1>9. ASSUME NEW k \in 1 .. m - 1
      PROVE  d.next[r[k]] = IF k = m - 1 THEN NoBuffer ELSE r[k + 1]
  <2>1. PICK j \in 1 .. m : j = (IF k < i THEN k ELSE k + 1) /\ r[k] = list[j] /\ j # i
    BY <1>2, <1>5
  <2>2. r[k] \in DOMAIN c.next \ {b}
    <3>1. list[j] \in Elems(list) /\ list[j] # b
      BY <1>1, <1>2, <1>7, <2>1 DEF Elems
    <3> QED
      BY <1>2, <2>1, <3>1
  <2>3. d.next[r[k]] = IF list[j] = p THEN n ELSE IF j = m THEN NoBuffer ELSE list[j + 1]
    BY <1>2, <1>3, <2>1, <2>2
  <2>4. list[j] = p <=> j = i - 1
    <3>1. CASE i = 1
      BY <1>4, <1>8, <2>1, <3>1
    <3>2. CASE i # 1
      <4>1. i - 1 \in 1 .. m /\ p = list[i - 1]
        BY <1>1, <1>4, <3>2
      <4> QED
        BY <1>7, <4>1
    <3> QED
      BY <3>1, <3>2
  <2>5. CASE j = i - 1
    BY <1>2, <1>4, <1>5, <2>1, <2>3, <2>4, <2>5
  <2>6. CASE j # i - 1
    <3>1. d.next[r[k]] = IF j = m THEN NoBuffer ELSE list[j + 1]
      BY <2>3, <2>4, <2>6
    <3>2. CASE k < i
      <4>1. j = k /\ k + 1 < i /\ k # m - 1 /\ j # m /\ k + 1 \in 1 .. m - 1
        BY <1>1, <2>1, <2>6, <3>2
      <4> QED
        BY <1>5, <3>1, <4>1
    <3>3. CASE k >= i
      <4>1. j = k + 1 /\ (j = m <=> k = m - 1) /\ (k # m - 1 => k + 1 \in 1 .. m - 1 /\ ~(k + 1 < i))
        BY <1>1, <2>1, <3>3
      <4> QED
        BY <1>5, <3>1, <4>1
    <3> QED
      BY <3>2, <3>3
  <2> QED
    BY <2>5, <2>6
<1>10. ASSUME NEW k \in 1 .. m - 1
       PROVE  d.prev[r[k]] = IF k = 1 THEN NoBuffer ELSE r[k - 1]
  <2>1. PICK j \in 1 .. m : j = (IF k < i THEN k ELSE k + 1) /\ r[k] = list[j] /\ j # i
    BY <1>2, <1>5
  <2>2. r[k] \in DOMAIN c.prev \ {b}
    <3>1. list[j] \in Elems(list) /\ list[j] # b
      BY <1>1, <1>2, <1>7, <2>1 DEF Elems
    <3> QED
      BY <1>2, <2>1, <3>1
  <2>3. d.prev[r[k]] = IF list[j] = n THEN p ELSE IF j = 1 THEN NoBuffer ELSE list[j - 1]
    BY <1>2, <1>3, <2>1, <2>2
  <2>4. list[j] = n <=> j = i + 1
    <3>1. CASE i = m
      BY <1>4, <1>8, <2>1, <3>1
    <3>2. CASE i # m
      <4>1. i + 1 \in 1 .. m /\ n = list[i + 1]
        BY <1>1, <1>4, <3>2
      <4> QED
        BY <1>7, <4>1
    <3> QED
      BY <3>1, <3>2
  <2>5. CASE j = i + 1
    BY <1>2, <1>4, <1>5, <2>1, <2>3, <2>4, <2>5
  <2>6. CASE j # i + 1
    BY <1>2, <1>5, <2>1, <2>3, <2>4, <2>6
  <2> QED
    BY <2>5, <2>6
<1>11. /\ d.head = IF m - 1 = 0 THEN NoBuffer ELSE r[1]
       /\ d.tail = IF m - 1 = 0 THEN NoBuffer ELSE r[m - 1]
  <2>0. /\ p = NoBuffer <=> i = 1
        /\ n = NoBuffer <=> i = m
    <3>1. i # 1 => i - 1 \in 1 .. m
      BY <1>1
    <3>2. i # m => i + 1 \in 1 .. m
      BY <1>1
    <3> QED
      BY <1>4, <1>8, <3>1, <3>2
  <2>1. m \in Nat /\ i \in 1 .. m
    BY <1>1, <1>2
  <2>2. CASE m = 1
    <3>1. i = 1 /\ i = m
      BY <2>1, <2>2
    <3> QED
      BY <1>3, <1>4, <2>0, <2>2, <3>1
  <2>3. CASE m # 1
    <3>1. 1 \in 1 .. m - 1 /\ m - 1 \in 1 .. m - 1 /\ m - 1 # 0
      BY <2>1, <2>3
    <3>2. d.head = r[1]
      <4>1. r[1] = IF i = 1 THEN list[2] ELSE list[1]
        BY <1>5, <2>1, <3>1
      <4> QED
        BY <1>2, <1>3, <1>4, <2>0, <2>3, <4>1
    <3>3. d.tail = r[m - 1]
      <4>1. r[m - 1] = IF i = m THEN list[m - 1] ELSE list[m]
        BY <1>5, <2>1, <3>1
      <4> QED
        BY <1>2, <1>3, <1>4, <2>0, <2>3, <4>1
    <3> QED
      BY <3>1, <3>2, <3>3
  <2> QED
    BY <2>2, <2>3
<1>12. Linked(d, r)
  BY <1>5, <1>6, <1>9, <1>10, <1>11 DEF Linked
<1> QED
  BY <1>1, <1>3, <1>12

\* The list with a new holder in front.
LEMMA LinkKeeps ==
  ASSUME NEW c \in Caches, NEW list, Linked(c, list), NEW b \in Buffer, b \notin Elems(list),
         NEW d, d = Cache!AddAtHead(c, b)
  PROVE  /\ d \in Caches /\ d.pool = c.pool /\ d.size = c.size
         /\ Linked(d, InsertedAt(list, 1, b))
<1>1. PICK r, m, D : r = InsertedAt(list, 1, b) /\ m = Len(list) /\ D = DOMAIN c.next \cup {b}
  OBVIOUS
<1>2. /\ list \in Seq(Buffer) /\ Distinct(list) /\ DOMAIN list = 1 .. m /\ m \in Nat
      /\ DOMAIN c.next = Elems(list) /\ DOMAIN c.prev = Elems(list)
      /\ \A k \in 1 .. m : /\ c.next[list[k]] = IF k = m THEN NoBuffer ELSE list[k + 1]
                           /\ c.prev[list[k]] = IF k = 1 THEN NoBuffer ELSE list[k - 1]
      /\ c.head = IF m = 0 THEN NoBuffer ELSE list[1]
      /\ c.tail = IF m = 0 THEN NoBuffer ELSE list[m]
  BY <1>1 DEF Linked
<1>3. PICK nx, pv, tl :
        /\ nx = [x \in D |-> IF x = b THEN c.head ELSE c.next[x]]
        /\ pv = [x \in D |-> IF x = b THEN NoBuffer ELSE IF x = c.head THEN b ELSE c.prev[x]]
        /\ tl = IF c.head = NoBuffer THEN b ELSE c.tail
  OBVIOUS
<1>4. d = [c EXCEPT !.next = nx, !.prev = pv, !.head = b, !.tail = tl]
  BY <1>1, <1>3 DEF Cache!AddAtHead
<1>5. /\ d.next = nx /\ d.prev = pv /\ d.head = b /\ d.tail = tl
      /\ d.pool = c.pool /\ d.size = c.size
  BY <1>4 DEF Caches
<1>6. D \in SUBSET Buffer /\ b \in Link /\ NoBuffer \in Link /\ c.head \in Link /\ tl \in Link
      /\ (\A x \in DOMAIN c.next : c.next[x] \in Link)
      /\ (\A x \in DOMAIN c.prev : c.prev[x] \in Link)
  BY <1>1, <1>3, CachesFields DEF Link
<1>7. nx \in Links
  <2>1. nx = [x \in D |-> nx[x]] /\ \A x \in D : nx[x] \in Link
    BY <1>1, <1>3, <1>6
  <2> QED
    BY <1>6, <2>1, LinksType
<1>8. pv \in Links
  <2>1. pv = [x \in D |-> pv[x]] /\ \A x \in D : pv[x] \in Link
    BY <1>1, <1>2, <1>3, <1>6
  <2> QED
    BY <1>6, <2>1, LinksType
<1>9. d \in Caches
  BY <1>4, <1>6, <1>7, <1>8 DEF Caches
<1>10. /\ r \in Seq(Buffer) /\ Len(r) = m + 1 /\ Distinct(r) /\ Elems(r) = Elems(list) \cup {b}
  <2>1. 1 \in 1 .. Len(list) + 1
    BY <1>1, <1>2
  <2> QED
    BY <1>1, <1>2, <2>1, InsertedFacts
<1>11. r[1] = b /\ \A k \in 1 .. m + 1 : k # 1 => r[k] = list[k - 1]
  BY <1>1, <1>2 DEF InsertedAt
<1>12. DOMAIN d.next = Elems(r) /\ DOMAIN d.prev = Elems(r)
  BY <1>1, <1>2, <1>3, <1>5, <1>10
<1>13. \A k \in 1 .. m : list[k] \in D /\ list[k] # b /\ list[k] # NoBuffer
  BY <1>1, <1>2, NullIsNoBuffer DEF Elems
<1>14. c.head = NoBuffer <=> m = 0
  BY <1>2, <1>13
<1>15. b \in D
  BY <1>1
<1>16. ASSUME NEW k \in 1 .. m + 1
       PROVE  /\ d.next[r[k]] = IF k = m + 1 THEN NoBuffer ELSE r[k + 1]
              /\ d.prev[r[k]] = IF k = 1 THEN NoBuffer ELSE r[k - 1]
  <2>1. CASE k = 1
    <3>1. d.next[r[k]] = c.head /\ d.prev[r[k]] = NoBuffer
      BY <1>3, <1>5, <1>11, <1>15, <2>1
    <3>2. CASE m = 0
      BY <1>2, <2>1, <3>1, <3>2
    <3>3. CASE m # 0
      <4>0. 2 \in 1 .. m + 1 /\ 2 - 1 = 1
        BY <1>2, <3>3
      <4>1. r[2] = list[1] /\ c.head = list[1]
        BY <1>2, <1>11, <3>3, <4>0
      <4>2. k # m + 1 /\ k + 1 = 2
        BY <1>2, <2>1, <3>3
      <4> QED
        BY <2>1, <3>1, <4>1, <4>2
    <3> QED
      BY <3>2, <3>3
  <2>2. CASE k # 1
    <3>1. PICK j \in 1 .. m : j = k - 1 /\ r[k] = list[j] /\ list[j] \in D /\ list[j] # b
      <4>1. PICK j \in 1 .. m : j = k - 1
        BY <1>2, <2>2
      <4> QED
        BY <1>11, <1>13, <2>2, <4>1
    <3>2. d.next[r[k]] = IF j = m THEN NoBuffer ELSE list[j + 1]
      BY <1>2, <1>3, <1>5, <3>1
    <3>3. d.next[r[k]] = IF k = m + 1 THEN NoBuffer ELSE r[k + 1]
      BY <1>2, <1>11, <2>2, <3>1, <3>2
    <3>4. list[j] = c.head <=> j = 1
      <4>1. m # 0 /\ 1 \in 1 .. m /\ c.head = list[1]
        BY <1>2, <3>1
      <4>2. \A k1, k2 \in 1 .. m : list[k1] = list[k2] => k1 = k2
        BY <1>2 DEF Distinct
      <4> QED
        BY <3>1, <4>1, <4>2
    <3>5. d.prev[r[k]] = IF j = 1 THEN b ELSE list[j - 1]
      BY <1>2, <1>3, <1>5, <3>1, <3>4
    <3>6. d.prev[r[k]] = r[k - 1]
      BY <1>2, <1>11, <2>2, <3>1, <3>5
    <3> QED
      BY <2>2, <3>3, <3>6
  <2> QED
    BY <2>1, <2>2
<1>17. d.head = r[1] /\ d.tail = r[m + 1] /\ m + 1 # 0
  BY <1>2, <1>3, <1>5, <1>11, <1>14
<1>18. Linked(d, r)
  BY <1>10, <1>12, <1>16, <1>17 DEF Linked
<1> QED
  BY <1>1, <1>5, <1>9, <1>18

\* The elements of a sequence of buffers have sizes.
LEMMA BuffersSized == ASSUME NEW s \in Seq(Buffer) PROVE AllSized(Elems(s))
<1>1. IsFiniteSet(Elems(s)) /\ Elems(s) \subseteq Buffer
  BY ElemsFinite
<1>2. \A b \in Buffer : b.size \in Nat
  BY DEF Buffer
<1> QED
  BY <1>1, <1>2 DEF AllSized

\* The cache that one buffer leaves.
LEMMA TakeOutKeeps ==
  ASSUME NEW c, WellFormed(c), NEW b \in Elems(c.pool), NEW d, d = Cache!TakeOut(c, b)
  PROVE  /\ WellFormed(d) /\ Elems(d.pool) = Elems(c.pool) \ {b}
         /\ Len(d.pool) = Len(c.pool) - 1 /\ d.size = c.size - b.size
         /\ d.size \in Nat /\ c.size \in Nat
<1>1. c \in Caches /\ Distinct(c.pool) /\ Sorted(c.pool) /\ c.size = Cache!Bytes(Elems(c.pool))
  BY DEF WellFormed
<1>2. c.pool \in Seq(Buffer) /\ c.size \in Nat
  BY <1>1, CachesFields
<1>3. PICK list : Linked(c, list) /\ Elems(list) = Elems(c.pool) /\ Len(list) = Len(c.pool)
  BY DEF WellFormed
<1>4. PICK i \in 1 .. Len(list) : list[i] = b
  <2>1. b \in Elems(list) /\ DOMAIN list = 1 .. Len(list)
    BY <1>3 DEF Linked
  <2> QED
    BY <2>1 DEF Elems
<1>5. PICK e : e = Cache!RemoveFromList(c, b)
  OBVIOUS
<1>6. e \in Caches /\ e.pool = c.pool /\ e.size = c.size /\ Linked(e, RemovedAt(list, i))
  <2>1. e = Cache!RemoveFromList(c, list[i])
    BY <1>4, <1>5
  <2> QED
    BY <1>1, <1>3, <2>1, UnlinkKeeps
<1>7. PICK it : it = CHOOSE k \in DOMAIN c.pool : c.pool[k] = b
  OBVIOUS
<1>8. it \in 1 .. Len(c.pool) /\ c.pool[it] = b
  <2>1. \E k \in DOMAIN c.pool : c.pool[k] = b
    BY DEF Elems
  <2>2. DOMAIN c.pool = 1 .. Len(c.pool)
    BY <1>2
  <2> QED
    BY <1>7, <2>1, <2>2
<1>9. PICK q : q = RemovedAt(c.pool, it) /\ q = Cache!RemoveAt(c.pool, it)
  BY <1>2, <1>8, RemoveAtIs
<1>10. PICK n : n = c.size - b.size
  OBVIOUS
<1>11. d = [e EXCEPT !.pool = q, !.size = n]
  BY <1>5, <1>6, <1>7, <1>9, <1>10 DEF Cache!TakeOut
<1>12. /\ q \in Seq(Buffer) /\ Len(q) = Len(c.pool) - 1 /\ Distinct(q)
       /\ Elems(q) = Elems(c.pool) \ {b}
  <2>1. PICK s \in Seq(Buffer) : s = c.pool
    BY <1>2
  <2>2. Distinct(s) /\ it \in 1 .. Len(s) /\ s[it] = b /\ q = RemovedAt(s, it)
    BY <1>1, <1>8, <1>9, <2>1
  <2>3. /\ q \in Seq(Buffer) /\ Len(q) = Len(s) - 1 /\ Distinct(q)
        /\ Elems(q) = Elems(s) \ {s[it]}
    <3>1. PICK k \in 1 .. Len(s) : k = it
      BY <2>2
    <3>2. Distinct(s) /\ q = RemovedAt(s, k)
      BY <2>2, <3>1
    <3>3. /\ q \in Seq(Buffer) /\ Len(q) = Len(s) - 1 /\ Distinct(q)
          /\ Elems(q) = Elems(s) \ {s[k]}
      BY <3>2, RemovedFacts
    <3> QED
      BY <3>1, <3>3
  <2> QED
    BY <2>1, <2>2, <2>3
<1>13. n = Cache!Bytes(Elems(q)) /\ n \in Nat
  <2>1. AllSized(Elems(c.pool)) /\ AllSized(Elems(q))
    BY <1>2, <1>12, BuffersSized
  <2>2. /\ Cache!Bytes(Elems(q)) \in Nat
        /\ Cache!Bytes(Elems(c.pool)) = b.size + Cache!Bytes(Elems(c.pool) \ {b})
    BY <2>1, BytesFacts
  <2>3. b.size \in Nat
    BY <2>1 DEF AllSized
  <2> QED
    BY <1>1, <1>10, <1>12, <2>2, <2>3
<1>14. d \in Caches /\ d.pool = q /\ d.size = n /\ d.next = e.next /\ d.prev = e.prev
       /\ d.head = e.head /\ d.tail = e.tail
  BY <1>6, <1>11, <1>12, <1>13 DEF Caches
<1>15. Linked(d, RemovedAt(list, i))
  BY <1>6, <1>14 DEF Linked
<1>16. /\ Elems(RemovedAt(list, i)) = Elems(list) \ {b}
       /\ Len(RemovedAt(list, i)) = Len(list) - 1
  <2>1. list \in Seq(Buffer) /\ Distinct(list)
    BY <1>3 DEF Linked
  <2>2. PICK r : r = RemovedAt(list, i)
    OBVIOUS
  <2>3. Elems(r) = Elems(list) \ {list[i]} /\ Len(r) = Len(list) - 1
    BY <2>1, <2>2, RemovedFacts
  <2> QED
    BY <1>4, <2>2, <2>3
<1>17. Sorted(q)
  <2>1. /\ DOMAIN q = 1 .. Len(c.pool) - 1 /\ DOMAIN c.pool = 1 .. Len(c.pool)
        /\ \A k \in 1 .. Len(c.pool) - 1 : q[k] = IF k < it THEN c.pool[k] ELSE c.pool[k + 1]
    BY <1>2, <1>9 DEF RemovedAt
  <2>2. ASSUME NEW k \in DOMAIN q, NEW l \in DOMAIN q, k < l PROVE q[k].size <= q[l].size
    <3>1. PICK f, g : f = (IF k < it THEN k ELSE k + 1) /\ g = (IF l < it THEN l ELSE l + 1)
      OBVIOUS
    <3>2. f \in DOMAIN c.pool /\ g \in DOMAIN c.pool /\ f < g
      BY <1>8, <2>1, <2>2, <3>1
    <3>3. q[k] = c.pool[f] /\ q[l] = c.pool[g]
      BY <2>1, <3>1
    <3> QED
      BY <1>1, <3>2, <3>3 DEF Sorted
  <2> QED
    BY <2>2 DEF Sorted
<1>18. WellFormed(d)
  BY <1>3, <1>12, <1>13, <1>14, <1>15, <1>16, <1>17 DEF WellFormed
<1> QED
  BY <1>2, <1>10, <1>12, <1>13, <1>14, <1>18

\* The cache that one buffer comes to.
LEMMA RecycleKeeps ==
  ASSUME NEW c, WellFormed(c), NEW b \in Buffer, b \notin Elems(c.pool),
         NEW d, d = Cache!RecycleToCache(c, b)
  PROVE  /\ WellFormed(d) /\ Elems(d.pool) = Elems(c.pool) \cup {b}
         /\ Len(d.pool) = Len(c.pool) + 1 /\ d.size = c.size + b.size
<1>1. c \in Caches /\ Distinct(c.pool) /\ Sorted(c.pool) /\ c.size = Cache!Bytes(Elems(c.pool))
  BY DEF WellFormed
<1>2. c.pool \in Seq(Buffer) /\ c.size \in Nat /\ b.size \in Nat
      /\ \A k \in DOMAIN c.pool : c.pool[k].size \in Nat
  <2>1. c.pool \in Seq(Buffer) /\ c.size \in Nat
    BY <1>1, CachesFields
  <2>2. \A x \in Buffer : x.size \in Nat
    BY DEF Buffer
  <2> QED
    BY <2>1, <2>2
<1>3. PICK list : Linked(c, list) /\ Elems(list) = Elems(c.pool) /\ Len(list) = Len(c.pool)
  BY DEF WellFormed
<1>5. PICK e : e = Cache!AddAtHead(c, b)
  OBVIOUS
<1>6. e \in Caches /\ e.pool = c.pool /\ e.size = c.size /\ Linked(e, InsertedAt(list, 1, b))
  BY <1>1, <1>3, <1>5, LinkKeeps
<1>7. PICK m, S, i : /\ m = Len(c.pool) /\ S = {j \in DOMAIN c.pool : c.pool[j].size <= b.size}
                     /\ i = Cardinality(S)
  OBVIOUS
<1>8. m \in Nat /\ DOMAIN c.pool = 1 .. m
  BY <1>2, <1>7
<1>9. i \in 0 .. m /\ S = 1 .. i
  <2>1. ASSUME NEW j \in S, NEW k \in 1 .. m, k < j PROVE k \in S
    <3>1. j \in DOMAIN c.pool /\ k \in DOMAIN c.pool /\ c.pool[j].size <= b.size
      BY <1>7, <1>8
    <3>2. c.pool[k].size <= c.pool[j].size
      BY <1>1, <2>1, <3>1 DEF Sorted
    <3>3. c.pool[k].size <= b.size
      BY <1>2, <3>1, <3>2
    <3> QED
      BY <1>7, <3>1, <3>3
  <2>2. \E n \in 0 .. m : S = 1 .. n
    <3>1. CASE S = 1 .. m
      BY <1>8, <3>1
    <3>2. CASE S # 1 .. m
      <4>1. PICK T : T = (1 .. m) \ S
        OBVIOUS
      <4>2. T \subseteq Nat /\ T # {}
        BY <1>7, <1>8, <3>2, <4>1
      <4>3. PICK n \in T : \A k \in T : n <= k
        BY <4>2, LeastNat
      <4>4. S = 1 .. n - 1
        BY <1>7, <1>8, <2>1, <4>1, <4>2, <4>3
      <4> QED
        BY <1>8, <4>1, <4>3, <4>4
    <3> QED
      BY <3>1, <3>2
  <2>3. PICK n \in 0 .. m : S = 1 .. n
    BY <2>2
  <2>4. Cardinality(1 .. n) = n
    <3>1. Cardinality(1 .. n) = IF 1 > n THEN 0 ELSE n - 1 + 1
      BY FS_Interval
    <3> QED
      BY <3>1
  <2> QED
    BY <1>7, <2>3, <2>4
<1>10. PICK q : q = InsertedAt(c.pool, i + 1, b) /\ q = Cache!InsertAt(c.pool, i + 1, b)
  <2>1. i + 1 \in 1 .. Len(c.pool) + 1
    BY <1>7, <1>8, <1>9
  <2> QED
    BY <1>2, <2>1, InsertAtIs
<1>11. PICK n : n = c.size + b.size
  OBVIOUS
<1>12. d = [e EXCEPT !.pool = q, !.size = n]
  <2>1. i = Cache!Cardinality({j \in DOMAIN c.pool : c.pool[j].size <= b.size})
    BY <1>7, Zenon DEF Cardinality, Cache!Cardinality
  <2> QED
    BY <1>5, <1>6, <1>10, <1>11, <2>1 DEF Cache!RecycleToCache
<1>13. /\ q \in Seq(Buffer) /\ Len(q) = Len(c.pool) + 1 /\ Distinct(q)
       /\ Elems(q) = Elems(c.pool) \cup {b}
  <2>1. i + 1 \in 1 .. Len(c.pool) + 1
    BY <1>7, <1>8, <1>9
  <2> QED
    BY <1>1, <1>2, <1>10, <2>1, InsertedFacts
<1>14. n = Cache!Bytes(Elems(q)) /\ n \in Nat
  <2>1. AllSized(Elems(c.pool))
    BY <1>2, BuffersSized
  <2>2. Cache!Bytes(Elems(c.pool) \cup {b}) = Cache!Bytes(Elems(c.pool)) + b.size
    BY <1>2, <2>1, BytesAdd
  <2> QED
    BY <1>1, <1>2, <1>11, <1>13, <2>2
<1>15. d \in Caches /\ d.pool = q /\ d.size = n /\ d.next = e.next /\ d.prev = e.prev
       /\ d.head = e.head /\ d.tail = e.tail
  BY <1>6, <1>12, <1>13, <1>14 DEF Caches
<1>16. Linked(d, InsertedAt(list, 1, b))
  BY <1>6, <1>15 DEF Linked
<1>17. /\ Elems(InsertedAt(list, 1, b)) = Elems(list) \cup {b}
       /\ Len(InsertedAt(list, 1, b)) = Len(list) + 1
  <2>1. list \in Seq(Buffer) /\ Distinct(list) /\ b \notin Elems(list) /\ 1 \in 1 .. Len(list) + 1
    BY <1>3 DEF Linked
  <2>2. PICK r : r = InsertedAt(list, 1, b)
    OBVIOUS
  <2>3. Elems(r) = Elems(list) \cup {b} /\ Len(r) = Len(list) + 1
    BY <2>1, <2>2, InsertedFacts
  <2> QED
    BY <2>2, <2>3
<1>18. Sorted(q)
  <2>1. /\ DOMAIN q = 1 .. m + 1
        /\ \A k \in 1 .. m + 1 :
             q[k] = IF k < i + 1 THEN c.pool[k] ELSE IF k = i + 1 THEN b ELSE c.pool[k - 1]
    BY <1>7, <1>8, <1>10 DEF InsertedAt
  <2>2. /\ \A k \in 1 .. m : k <= i => c.pool[k].size <= b.size
        /\ \A k \in 1 .. m : k > i => b.size <= c.pool[k].size
    <3>1. \A k \in 1 .. m : k <= i <=> c.pool[k].size <= b.size
      BY <1>7, <1>8, <1>9
    <3> QED
      BY <1>2, <1>8, <1>9, <3>1
  <2>3. ASSUME NEW k \in DOMAIN q, NEW l \in DOMAIN q, k < l PROVE q[k].size <= q[l].size
    <3>1. CASE k # i + 1 /\ l # i + 1
      <4>1. PICK f, g : f = (IF k < i + 1 THEN k ELSE k - 1) /\ g = (IF l < i + 1 THEN l ELSE l - 1)
        OBVIOUS
      <4>2. f \in DOMAIN c.pool /\ g \in DOMAIN c.pool /\ f < g
        BY <1>8, <1>9, <2>1, <2>3, <3>1, <4>1
      <4>3. q[k] = c.pool[f] /\ q[l] = c.pool[g]
        BY <2>1, <3>1, <4>1
      <4> QED
        BY <1>1, <4>2, <4>3 DEF Sorted
    <3>2. CASE k = i + 1
      <4>1. l - 1 \in 1 .. m /\ l - 1 > i /\ q[l] = c.pool[l - 1] /\ q[k] = b
        BY <1>8, <1>9, <2>1, <2>3, <3>2
      <4> QED
        BY <2>2, <4>1
    <3>3. CASE l = i + 1
      <4>1. k \in 1 .. m /\ k <= i /\ q[k] = c.pool[k] /\ q[l] = b
        BY <1>8, <1>9, <2>1, <2>3, <3>3
      <4> QED
        BY <2>2, <4>1
    <3> QED
      BY <3>1, <3>2, <3>3
  <2> QED
    BY <2>3 DEF Sorted
<1>19. WellFormed(d)
  BY <1>3, <1>13, <1>14, <1>15, <1>16, <1>17, <1>18 DEF WellFormed
<1> QED
  BY <1>11, <1>13, <1>15, <1>19

\* The empty cache is well formed.
LEMMA EmptyIsWellFormed ==
  /\ WellFormed(Cache!EmptyCache) /\ Cache!EmptyCache.pool = <<>> /\ Cache!EmptyCache.size = 0
<1>1. PICK c : c = Cache!EmptyCache
  OBVIOUS
<1>2. /\ c.pool = <<>> /\ c.next = <<>> /\ c.prev = <<>> /\ c.head = NoBuffer
      /\ c.tail = NoBuffer /\ c.size = 0
  BY <1>1 DEF Cache!EmptyCache
<1>3. <<>> \in Links
  BY DEF Links
<1>4. c \in Caches
  <2>1. <<>> \in Seq(Buffer) /\ NoBuffer \in Link /\ 0 \in Nat
    BY DEF Link
  <2> QED
    BY <1>1, <1>3, <2>1 DEF Cache!EmptyCache, Caches
<1>5. Elems(<<>>) = {}
  BY DEF Elems
<1>6. Linked(c, <<>>)
  BY <1>2, <1>5 DEF Linked, Distinct
<1>7. Cache!Bytes({}) = 0
  <2>1. AllSized({})
    BY FS_EmptySet DEF AllSized
  <2> QED
    BY <2>1, BytesFacts
<1>8. Distinct(<<>>) /\ Sorted(<<>>)
  BY DEF Distinct, Sorted
<1>9. WellFormed(c)
  BY <1>2, <1>4, <1>5, <1>6, <1>7, <1>8 DEF WellFormed
<1> QED
  BY <1>1, <1>2, <1>9

\* The last holder of the list, if there is one, is of a buffer of the pool.
LEMMA TailIsCached ==
  ASSUME NEW c, WellFormed(c)
  PROVE  /\ c.tail = NoBuffer => Len(c.pool) = 0 /\ c.size = 0
         /\ c.tail # NoBuffer => c.tail \in Elems(c.pool)
<1>1. PICK list : Linked(c, list) /\ Elems(list) = Elems(c.pool) /\ Len(list) = Len(c.pool)
  BY DEF WellFormed
<1>2. list \in Seq(Buffer) /\ c.tail = IF Len(list) = 0 THEN NoBuffer ELSE list[Len(list)]
  BY <1>1 DEF Linked
<1>3. CASE Len(list) = 0
  <2>1. Elems(list) = {}
    BY <1>2, <1>3 DEF Elems
  <2>2. Cache!Bytes({}) = 0
    <3>1. AllSized({})
      BY FS_EmptySet DEF AllSized
    <3> QED
      BY <3>1, BytesFacts
  <2> QED
    BY <1>1, <1>2, <1>3, <2>1, <2>2 DEF WellFormed
<1>4. CASE Len(list) # 0
  <2>1. Len(list) \in DOMAIN list
    BY <1>2, <1>4
  <2>2. list[Len(list)] \in Buffer /\ list[Len(list)] \in Elems(list)
    BY <1>2, <2>1 DEF Elems
  <2> QED
    BY <1>1, <1>2, <1>4, <2>2, NullIsNoBuffer
<1> QED
  BY <1>3, <1>4

\* What has left the cache c, in s, is not in it any more.
Left(c, s) ==
  /\ WellFormed(s.cache) /\ s.freed \in Seq(Buffer) /\ Distinct(s.freed)
  /\ Elems(s.freed) \cap Elems(s.cache.pool) = {}
  /\ Elems(s.freed) \cup Elems(s.cache.pool) = Elems(c.pool)
  /\ Len(s.freed) + Len(s.cache.pool) = Len(c.pool)
  /\ s.cache.size <= c.size

Rounds(c) == {s \in [cache : Caches, freed : Seq(Buffer)] : Left(c, s)}

\* One round of the loop of release_cached_buffers.
Round(c, min, s) ==
  IF s.cache.tail = NoBuffer \/ c.size - s.cache.size >= min THEN s
  ELSE [cache |-> Cache!TakeOut(s.cache, s.cache.tail), freed |-> Append(s.freed, s.cache.tail)]

Done(c, min, s) == s.cache.tail = NoBuffer \/ c.size - s.cache.size >= min

\* Append adds one element.
LEMMA AppendElems ==
  ASSUME NEW s \in Seq(Buffer), Distinct(s), NEW e \in Buffer, e \notin Elems(s)
  PROVE  \E r \in Seq(Buffer) : /\ r = Append(s, e) /\ Len(r) = Len(s) + 1
                                /\ Distinct(r) /\ Elems(r) = Elems(s) \cup {e}
<1>0. PICK r : r = Append(s, e)
  OBVIOUS
<1>1. r \in Seq(Buffer) /\ Len(r) = Len(s) + 1 /\ DOMAIN r = 1 .. Len(s) + 1
      /\ DOMAIN s = 1 .. Len(s) /\ r[Len(s) + 1] = e
      /\ \A k \in 1 .. Len(s) : r[k] = s[k]
  BY <1>0
<1>2. Elems(r) = Elems(s) \cup {e}
  <2>1. Elems(r) \subseteq Elems(s) \cup {e}
    BY <1>1 DEF Elems
  <2>2. ASSUME NEW k \in 1 .. Len(s) PROVE s[k] \in Elems(r)
    <3>1. k \in 1 .. Len(s) + 1
      OBVIOUS
    <3> QED
      BY <1>1, <3>1 DEF Elems
  <2>3. e \in Elems(r)
    <3>1. Len(s) + 1 \in 1 .. Len(s) + 1
      OBVIOUS
    <3> QED
      BY <1>1, <3>1 DEF Elems
  <2> QED
    BY <1>1, <2>1, <2>2, <2>3 DEF Elems
<1>3. Distinct(r)
  <2>1. \A k \in 1 .. Len(s) + 1 : k # Len(s) + 1 => k \in 1 .. Len(s) /\ r[k] # e
    BY <1>1 DEF Elems
  <2> QED
    BY <1>1, <2>1 DEF Distinct
<1> QED
  BY <1>0, <1>1, <1>2, <1>3

\* A round of release_cached_buffers takes the tail or stops.
LEMMA RoundKeeps ==
  ASSUME NEW c, WellFormed(c), NEW min, NEW s \in Rounds(c), NEW u, u = Round(c, min, s)
  PROVE  /\ u \in Rounds(c)
         /\ Done(c, min, s) => u = s
         /\ ~Done(c, min, s) => Len(u.cache.pool) = Len(s.cache.pool) - 1
<1>1. Left(c, s)
  BY DEF Rounds
<1>2. CASE Done(c, min, s)
  BY <1>2 DEF Done, Round
<1>3. CASE ~Done(c, min, s)
  <2>1. PICK t, d, f : t = s.cache.tail /\ d = Cache!TakeOut(s.cache, t) /\ f = Append(s.freed, t)
    OBVIOUS
  <2>2. WellFormed(s.cache)
    BY <1>1 DEF Left
  <2>3. t \in Elems(s.cache.pool)
    BY <1>3, <2>1, <2>2, TailIsCached DEF Done
  <2>4. /\ WellFormed(d) /\ Elems(d.pool) = Elems(s.cache.pool) \ {t}
        /\ Len(d.pool) = Len(s.cache.pool) - 1 /\ d.size = s.cache.size - t.size
        /\ d.size \in Nat /\ s.cache.size \in Nat
    BY <2>1, <2>2, <2>3, TakeOutKeeps
  <2>5. s.cache.pool \in Seq(Buffer)
    <3>1. s.cache \in Caches
      BY <2>2 DEF WellFormed
    <3> QED
      BY <3>1, CachesFields
  <2>6. t \in Buffer /\ t.size \in Nat
    <3>1. t \in Buffer
      BY <2>3, <2>5, ElemsFinite
    <3> QED
      BY <3>1 DEF Buffer
  <2>7. t \notin Elems(s.freed) /\ s.freed \in Seq(Buffer) /\ Distinct(s.freed)
    BY <1>1, <2>3 DEF Left
  <2>8. /\ f \in Seq(Buffer) /\ Len(f) = Len(s.freed) + 1 /\ Distinct(f)
        /\ Elems(f) = Elems(s.freed) \cup {t}
    <3>1. PICK q : q = s.freed
      OBVIOUS
    <3>2. q \in Seq(Buffer) /\ Distinct(q) /\ t \in Buffer /\ t \notin Elems(q) /\ f = Append(q, t)
      BY <2>1, <2>6, <2>7, <3>1
    <3>3. /\ f \in Seq(Buffer) /\ Len(f) = Len(q) + 1 /\ Distinct(f)
          /\ Elems(f) = Elems(q) \cup {t}
      BY <3>2, AppendElems
    <3> QED
      BY <3>1, <3>3
  <2>9. u = [cache |-> d, freed |-> f] /\ u.cache = d /\ u.freed = f
    BY <1>3, <2>1 DEF Done, Round
  <2>10. d \in Caches
    BY <2>4 DEF WellFormed
  <2>11. c.size \in Nat
    <3>1. c \in Caches
      BY DEF WellFormed
    <3> QED
      BY <3>1, CachesFields
  <2>12. d.size <= c.size
    <3>1. s.cache.size <= c.size
      BY <1>1 DEF Left
    <3> QED
      BY <2>4, <2>6, <2>11, <3>1
  <2>13. Len(f) + Len(d.pool) = Len(c.pool)
    <3>1. Len(s.freed) + Len(s.cache.pool) = Len(c.pool)
      BY <1>1 DEF Left
    <3>2. PICK m \in Nat, n \in Nat : m = Len(s.freed) /\ n = Len(s.cache.pool)
      BY <2>5, <2>7
    <3>3. Len(f) = m + 1 /\ Len(d.pool) = n - 1 /\ m + n = Len(c.pool)
      BY <2>4, <2>8, <3>1, <3>2
    <3>4. (m + 1) + (n - 1) = m + n
      OBVIOUS
    <3> QED
      BY <3>3, <3>4
  <2>14. Elems(f) \cap Elems(d.pool) = {} /\ Elems(f) \cup Elems(d.pool) = Elems(c.pool)
    <3>1. /\ Elems(s.freed) \cap Elems(s.cache.pool) = {}
          /\ Elems(s.freed) \cup Elems(s.cache.pool) = Elems(c.pool)
      BY <1>1 DEF Left
    <3> QED
      BY <2>3, <2>4, <2>8, <3>1
  <2>15. Left(c, u)
    BY <2>4, <2>8, <2>9, <2>12, <2>13, <2>14 DEF Left
  <2>16. u \in Rounds(c)
    BY <2>8, <2>9, <2>10, <2>15 DEF Rounds
  <2> QED
    BY <1>3, <2>4, <2>9, <2>16
<1> QED
  BY <1>2, <1>3

\* What release_cached_buffers leaves: buffers it frees are no longer cached,
\* and either enough bytes are free or nothing is cached.
LEMMA ReleaseKeeps ==
  ASSUME NEW c, WellFormed(c), NEW min \in Int, NEW r, r = Cache!ReleaseCachedBuffers(c, min)
  PROVE  Left(c, r) /\ (r.cache.size = 0 \/ c.size - r.cache.size >= min)
<1>1. c \in Caches /\ c.pool \in Seq(Buffer) /\ c.size \in Nat /\ Distinct(c.pool)
  <2>1. c \in Caches /\ Distinct(c.pool)
    BY DEF WellFormed
  <2> QED
    BY <2>1, CachesFields
<1>2. CASE 10 * min >= 9 * c.size
  <2>1. PICK e : e = Cache!EmptyCache
    OBVIOUS
  <2>2. WellFormed(e) /\ e.pool = <<>> /\ e.size = 0
    BY <2>1, EmptyIsWellFormed
  <2>3. r.cache = e /\ r.freed = c.pool
    BY <1>2, <2>1 DEF Cache!ReleaseCachedBuffers
  <2>4. Elems(<<>>) = {}
    BY DEF Elems
  <2>5. Left(c, r)
    <3>1. Elems(r.cache.pool) = {} /\ Len(r.cache.pool) = 0 /\ r.cache.size = 0
      BY <2>2, <2>3, <2>4
    <3>2. r.freed = c.pool /\ WellFormed(r.cache) /\ Len(c.pool) \in Nat
      BY <1>1, <2>2, <2>3
    <3> QED
      BY <1>1, <3>1, <3>2 DEF Left
  <2> QED
    BY <2>2, <2>3, <2>5
<1>3. CASE ~(10 * min >= 9 * c.size)
  <2> DEFINE Body(f) == f = [k \in 0 .. Len(c.pool) |->
               IF k = 0 THEN [cache |-> c, freed |-> <<>>]
               ELSE LET s == f[k - 1]
                        t == s.cache.tail
                    IN  IF t = NoBuffer \/ c.size - s.cache.size >= min THEN s
                        ELSE [cache |-> Cache!TakeOut(s.cache, t), freed |-> Append(s.freed, t)]]
  <2>1. PICK N \in Nat : N = Len(c.pool)
    BY <1>1
  <2>2. PICK base : base = [cache |-> c, freed |-> <<>>]
    OBVIOUS
  <2>3. base \in Rounds(c)
    <3>1. base.cache = c /\ base.freed = <<>>
      BY <2>2
    <3>2. Elems(<<>>) = {} /\ Distinct(<<>>) /\ Len(<<>>) = 0 /\ <<>> \in Seq(Buffer)
      BY DEF Elems, Distinct
    <3>3. Left(c, base)
      BY <1>1, <3>1, <3>2 DEF Left
    <3> QED
      BY <1>1, <2>2, <3>2, <3>3 DEF Rounds
  <2>4. PICK step : step = [k \in Nat |-> [s \in Rounds(c) |-> Round(c, min, s)]]
    OBVIOUS
  <2>5. \A k \in Nat, s \in Rounds(c) : step[k][s] = Round(c, min, s)
    BY <2>4
  <2>6. \A k \in Nat, s \in Rounds(c) : step[k][s] \in Rounds(c)
    BY <2>5, RoundKeeps
  <2>7. Keeps(step, Rounds(c))
    BY <2>6 DEF Keeps
  <2>8. PICK f \in [0 .. N -> Rounds(c)] : Follows(f, N, base, step)
    BY <2>1, <2>3, <2>7, RecursionExists
  <2>9. f[0] = base /\ \A k \in 1 .. N : f[k] = Round(c, min, f[k - 1])
    <3>1. ASSUME NEW k \in 1 .. N PROVE f[k] = Round(c, min, f[k - 1])
      <4>1. k - 1 \in 0 .. N /\ k \in Nat
        OBVIOUS
      <4>2. f[k - 1] \in Rounds(c)
        BY <2>8, <4>1
      <4> QED
        BY <2>5, <2>8, <4>1, <4>2 DEF Follows
    <3> QED
      BY <2>8, <3>1 DEF Follows
  <2>10. Body(f)
    <3>1. DOMAIN f = 0 .. N
      BY <2>8
    <3>2. \A k \in 0 .. N : f[k] = IF k = 0 THEN base ELSE Round(c, min, f[k - 1])
      BY <2>9
    <3>3. f = [k \in 0 .. N |-> IF k = 0 THEN base ELSE Round(c, min, f[k - 1])]
      BY <2>8, <3>1, <3>2
    <3> QED
      BY <2>1, <2>2, <3>3 DEF Round
  <2>11. PICK g : g = (CHOOSE h : Body(h)) /\ Body(g)
    <3> HIDE DEF Body
    <3> QED
      BY <2>10
  <2>12. r = g[N]
    BY <1>3, <2>1, <2>11 DEF Cache!ReleaseCachedBuffers
  <2>13. g[0] = base /\ \A k \in 1 .. N : g[k] = Round(c, min, g[k - 1])
    <3>1. g[0] = base
      <4>1. 0 \in 0 .. N
        OBVIOUS
      <4> QED
        BY <2>1, <2>2, <2>11, <4>1
    <3>2. ASSUME NEW k \in 1 .. N PROVE g[k] = Round(c, min, g[k - 1])
      <4>1. k \in 0 .. N /\ k # 0
        OBVIOUS
      <4> QED
        BY <2>1, <2>11, <4>1 DEF Round
    <3> QED
      BY <3>1, <3>2
  <2> HIDE DEF Body
  <2> DEFINE T == {k \in Nat : k <= N =>
                     g[k] \in Rounds(c) /\ (Done(c, min, g[k]) \/ Len(g[k].cache.pool) = N - k)}
  <2>14. 0 \in T
    <3>1. base.cache.pool = c.pool
      BY <2>2
    <3> QED
      BY <2>1, <2>3, <2>13, <3>1
  <2>15. ASSUME NEW k \in Nat, k \in T PROVE k + 1 \in T
    <3>1. CASE k + 1 <= N
      <4>1. k <= N /\ k + 1 \in 1 .. N /\ (k + 1) - 1 = k
        BY <3>1
      <4>2. PICK s, u : s = g[k] /\ u = g[k + 1] /\ u = Round(c, min, s)
        BY <2>13, <4>1
      <4>3. s \in Rounds(c) /\ (Done(c, min, s) \/ Len(s.cache.pool) = N - k)
        BY <2>15, <4>1, <4>2
      <4>4. /\ u \in Rounds(c)
            /\ Done(c, min, s) => u = s
            /\ ~Done(c, min, s) => Len(u.cache.pool) = Len(s.cache.pool) - 1
        BY <4>2, <4>3, RoundKeeps
      <4>5. Done(c, min, u) \/ Len(u.cache.pool) = N - (k + 1)
        <5>1. CASE Done(c, min, s)
          BY <4>4, <5>1
        <5>2. CASE ~Done(c, min, s)
          <6>1. Len(s.cache.pool) = N - k /\ Len(u.cache.pool) = Len(s.cache.pool) - 1
            BY <4>3, <4>4, <5>2
          <6> QED
            BY <6>1
        <5> QED
          BY <5>1, <5>2
      <4>6. g[k + 1] \in Rounds(c) /\ (Done(c, min, g[k + 1]) \/ Len(g[k + 1].cache.pool) = N - (k + 1))
        BY <4>2, <4>4, <4>5
      <4> QED
        BY <4>6
    <3>2. CASE ~(k + 1 <= N)
      BY <3>2
    <3> QED
      BY <3>1, <3>2
  <2>16. N \in T
    <3> HIDE DEF T
    <3> QED
      BY <2>14, <2>15, NatSetInduction
  <2>17. r \in Rounds(c) /\ (Done(c, min, r) \/ Len(r.cache.pool) = 0)
    BY <2>12, <2>16
  <2>18. Left(c, r)
    BY <2>17 DEF Rounds
  <2>19. r.cache.size = 0 \/ c.size - r.cache.size >= min
    <3>1. WellFormed(r.cache)
      BY <2>18 DEF Left
    <3>2. CASE Len(r.cache.pool) = 0
      <4>1. r.cache.tail \notin Elems(r.cache.pool)
        <5>1. r.cache.pool \in Seq(Buffer)
          <6>1. r.cache \in Caches
            BY <3>1 DEF WellFormed
          <6> QED
            BY <6>1, CachesFields
        <5> QED
          BY <3>2, <5>1 DEF Elems
      <4> QED
        BY <3>1, <4>1, TailIsCached
    <3>3. CASE Done(c, min, r)
      BY <3>1, <3>3, TailIsCached DEF Done
    <3> QED
      BY <2>17, <3>2, <3>3
  <2> QED
    BY <2>18, <2>19
<1> QED
  BY <1>2, <1>3

\* A walk along links that are those of a list gives the list.
LEMMA WalkIs ==
  ASSUME NEW c, NEW list \in Seq(Buffer), Len(c.pool) = Len(list), NEW start, NEW link,
         DOMAIN link = Elems(list),
         start = IF Len(list) = 0 THEN NoBuffer ELSE list[1],
         \A i \in 1 .. Len(list) :
           link[list[i]] = IF i = Len(list) THEN NoBuffer ELSE list[i + 1]
  PROVE  Cache!WalkOf(c, start, link) = list
<1> DEFINE Body(f) == f = [k \in 0 .. Len(c.pool) |->
             IF k = 0 THEN start
             ELSE IF f[k - 1] \in DOMAIN link THEN link[f[k - 1]] ELSE NoBuffer]
<1>1. PICK N \in Nat : N = Len(list) /\ N = Len(c.pool) /\ DOMAIN list = 1 .. N
  OBVIOUS
<1>2. PICK f : f = [k \in 0 .. N |-> IF k < N THEN list[k + 1] ELSE NoBuffer]
  OBVIOUS
<1>3. f[0] = start
  <2>1. 0 \in 0 .. N
    OBVIOUS
  <2> QED
    BY <1>1, <1>2, <2>1
<1>4. ASSUME NEW k \in 1 .. N
      PROVE  f[k] = IF f[k - 1] \in DOMAIN link THEN link[f[k - 1]] ELSE NoBuffer
  <2>1. k - 1 \in 0 .. N /\ k - 1 < N /\ (k - 1) + 1 = k /\ k \in 0 .. N
    OBVIOUS
  <2>2. f[k - 1] = list[k]
    BY <1>2, <2>1
  <2>3. list[k] \in DOMAIN link
    BY <1>1 DEF Elems
  <2>4. f[k] = IF k = N THEN NoBuffer ELSE list[k + 1]
    BY <1>2, <2>1
  <2> QED
    BY <1>1, <2>2, <2>3, <2>4
<1>5. Body(f)
  <2>1. \A k \in 0 .. N : f[k] = IF k = 0 THEN start
          ELSE IF f[k - 1] \in DOMAIN link THEN link[f[k - 1]] ELSE NoBuffer
    BY <1>3, <1>4
  <2>2. f = [k \in 0 .. N |-> f[k]]
    BY <1>2
  <2>3. f = [k \in 0 .. N |-> IF k = 0 THEN start
               ELSE IF f[k - 1] \in DOMAIN link THEN link[f[k - 1]] ELSE NoBuffer]
    BY <2>1, <2>2
  <2> QED
    BY <1>1, <2>3
<1>6. PICK g : g = (CHOOSE h : Body(h)) /\ Body(g)
  <2> HIDE DEF Body
  <2> QED
    BY <1>5
<1> DEFINE steps == {k \in 0 .. Len(c.pool) : g[k] # NoBuffer}
<1>7. Cache!WalkOf(c, start, link) = [k \in 1 .. Cache!Cardinality(steps) |-> g[k - 1]]
  BY <1>6 DEF Cache!WalkOf
<1>8. g[0] = start /\ \A k \in 1 .. N :
        g[k] = IF g[k - 1] \in DOMAIN link THEN link[g[k - 1]] ELSE NoBuffer
  <2>0. g = [k \in 0 .. N |-> IF k = 0 THEN start
               ELSE IF g[k - 1] \in DOMAIN link THEN link[g[k - 1]] ELSE NoBuffer]
    BY <1>1, <1>6
  <2>1. \A k \in 0 .. N : g[k] = IF k = 0 THEN start
          ELSE IF g[k - 1] \in DOMAIN link THEN link[g[k - 1]] ELSE NoBuffer
    BY ONLY <2>0
  <2>2. 0 \in 0 .. N /\ \A k \in 1 .. N : k \in 0 .. N /\ k # 0
    OBVIOUS
  <2> HIDE DEF Body
  <2> QED
    BY <2>1, <2>2
<1> HIDE DEF Body
<1> DEFINE T == {k \in Nat : k <= N => g[k] = f[k]}
<1>9. \A k \in Nat : k \in T
  <2>1. 0 \in T
    BY <1>3, <1>8
  <2>2. ASSUME NEW k \in Nat, k \in T PROVE k + 1 \in T
    <3>1. CASE k + 1 <= N
      <4>1. k + 1 \in 1 .. N /\ (k + 1) - 1 = k /\ g[k] = f[k]
        BY <2>2, <3>1
      <4>2. g[k + 1] = f[k + 1]
        BY <1>4, <1>8, <4>1
      <4> QED
        BY <4>2
    <3>2. CASE ~(k + 1 <= N)
      BY <3>2
    <3> QED
      BY <3>1, <3>2
  <2> HIDE DEF T
  <2> QED
    BY <2>1, <2>2, NatSetInduction
<1>10. \A k \in 0 .. N : g[k] = f[k]
  BY <1>9
<1>11. steps = 0 .. N - 1
  <2>1. \A k \in 1 .. N : list[k] # NoBuffer
    BY <1>1, NullIsNoBuffer
  <2>2. \A k \in 0 .. N : g[k] = IF k < N THEN list[k + 1] ELSE NoBuffer
    BY <1>2, <1>10
  <2>3. \A k \in 0 .. N : k < N => k + 1 \in 1 .. N
    OBVIOUS
  <2>4. \A k \in 0 .. N : g[k] # NoBuffer <=> k < N
    BY <2>1, <2>2, <2>3
  <2> QED
    BY <1>1, <2>4
<1>12. Cache!Cardinality(steps) = N
  <2>1. Cardinality(0 .. N - 1) = IF 0 > N - 1 THEN 0 ELSE N - 1 - 0 + 1
    BY FS_Interval
  <2>2. Cardinality(0 .. N - 1) = N
    BY <2>1
  <2>3. \A S : Cache!Cardinality(S) = Cardinality(S)
    BY Zenon DEF Cardinality, Cache!Cardinality
  <2> QED
    BY <1>11, <2>2, <2>3
<1>13. \A k \in 1 .. N : g[k - 1] = list[k]
  BY <1>2, <1>10
<1>14. Cache!WalkOf(c, start, link) = [k \in 1 .. N |-> g[k - 1]]
  <2> HIDE DEF steps
  <2> QED
    BY <1>7, <1>12
<1>15. list = [k \in 1 .. N |-> list[k]]
  BY <1>1
<1> QED
  BY <1>13, <1>14, <1>15

\* A cache that is well formed is consistent: both walks meet all of the pool.
LEMMA WellFormedIsConsistent ==
  ASSUME NEW c, WellFormed(c)
  PROVE  Cache!Consistent(c)
<1>1. c \in Caches /\ Distinct(c.pool) /\ Sorted(c.pool) /\ c.size = Cache!Bytes(Elems(c.pool))
  BY DEF WellFormed
<1>2. c.pool \in Seq(Buffer)
  BY <1>1, CachesFields
<1>3. PICK list : Linked(c, list) /\ Elems(list) = Elems(c.pool) /\ Len(list) = Len(c.pool)
  BY DEF WellFormed
<1>4. PICK N \in Nat : N = Len(list) /\ DOMAIN list = 1 .. N /\ list \in Seq(Buffer)
  BY <1>3 DEF Linked
<1>5. Cache!WalkOf(c, c.head, c.next) = list
  <2>1. /\ DOMAIN c.next = Elems(list)
        /\ c.head = IF Len(list) = 0 THEN NoBuffer ELSE list[1]
        /\ \A i \in 1 .. Len(list) :
             c.next[list[i]] = IF i = Len(list) THEN NoBuffer ELSE list[i + 1]
    BY <1>3 DEF Linked
  <2> QED
    BY <1>3, <1>4, <2>1, WalkIs
<1>6. PICK back : back = [i \in 1 .. N |-> list[N - i + 1]]
  OBVIOUS
<1>7. back \in Seq(Buffer) /\ Len(back) = N /\ DOMAIN back = 1 .. N /\ Elems(back) = Elems(list)
  <2>1. \A i \in 1 .. N : N - i + 1 \in 1 .. N
    OBVIOUS
  <2>2. \A i \in 1 .. N : back[i] = list[N - i + 1] /\ list[N - i + 1] \in Buffer
    BY <1>4, <1>6, <2>1
  <2>3. back \in Seq(Buffer) /\ Len(back) = N /\ DOMAIN back = 1 .. N
    BY <1>6, <2>2
  <2>4. \A i \in 1 .. N : \E j \in 1 .. N : list[i] = back[j]
    <3> TAKE i \in 1 .. N
    <3>1. N - i + 1 \in 1 .. N /\ N - (N - i + 1) + 1 = i
      OBVIOUS
    <3>2. back[N - i + 1] = list[i]
      BY <2>2, <3>1
    <3> QED
      BY <3>1, <3>2
  <2>5. Elems(back) \subseteq Elems(list)
    BY <1>4, <2>1, <2>2, <2>3 DEF Elems
  <2>6. Elems(list) \subseteq Elems(back)
    BY <1>4, <2>3, <2>4 DEF Elems
  <2> QED
    BY <2>3, <2>5, <2>6
<1>8. Cache!WalkOf(c, c.tail, c.prev) = back
  <2>1. /\ DOMAIN c.prev = Elems(list)
        /\ c.tail = IF N = 0 THEN NoBuffer ELSE list[N]
        /\ \A i \in 1 .. N : c.prev[list[i]] = IF i = 1 THEN NoBuffer ELSE list[i - 1]
    BY <1>3, <1>4 DEF Linked
  <2>2. DOMAIN c.prev = Elems(back)
    BY <1>7, <2>1
  <2>3. c.tail = IF Len(back) = 0 THEN NoBuffer ELSE back[1]
    BY <1>6, <1>7, <2>1
  <2>4. ASSUME NEW i \in 1 .. Len(back)
        PROVE  c.prev[back[i]] = IF i = Len(back) THEN NoBuffer ELSE back[i + 1]
    <3>1. PICK j \in 1 .. N : j = N - i + 1 /\ back[i] = list[j]
      BY <1>6, <1>7
    <3>2. c.prev[back[i]] = IF j = 1 THEN NoBuffer ELSE list[j - 1]
      BY <2>1, <3>1
    <3>3. i # N => i + 1 \in 1 .. N /\ N - (i + 1) + 1 = j - 1
      BY <1>7, <3>1
    <3>4. i # N => back[i + 1] = list[j - 1]
      BY <1>6, <3>3
    <3>5. j = 1 <=> i = N
      BY <1>7, <3>1
    <3> QED
      BY <1>7, <3>2, <3>4, <3>5
  <2>5. Len(c.pool) = Len(back)
    BY <1>3, <1>4, <1>7
  <2> QED
    BY <1>7, <2>2, <2>3, <2>4, <2>5, WalkIs
<1>9. Cache!Reverse(list) = back
  BY <1>4, <1>6 DEF Cache!Reverse
<1>10. Cache!ToSet(list) = Elems(list) /\ Cache!Cached(c) = Elems(c.pool)
  BY DEF Cache!ToSet, Cache!Cached, Elems
<1>11. Cache!Cardinality(Elems(c.pool)) = Len(c.pool)
  <2>1. \A S : Cache!Cardinality(S) = Cardinality(S)
    BY Zenon DEF Cardinality, Cache!Cardinality
  <2>2. Cardinality(Elems(c.pool)) = Len(c.pool)
    BY <1>1, <1>2, ElemsFinite
  <2> QED
    BY <2>1, <2>2
<1>12. DOMAIN c.next = Elems(c.pool) /\ DOMAIN c.prev = Elems(c.pool)
  BY <1>3 DEF Linked
<1>13. \A i \in 1 .. Len(c.pool) - 1 : c.pool[i].size <= c.pool[i + 1].size
  <2> TAKE i \in 1 .. Len(c.pool) - 1
  <2>1. i \in DOMAIN c.pool /\ i + 1 \in DOMAIN c.pool /\ i < i + 1
    BY <1>2
  <2> QED
    BY <1>1, <2>1 DEF Sorted
<1> QED
  BY <1>1, <1>3, <1>5, <1>8, <1>9, <1>10, <1>11, <1>12, <1>13 DEF Cache!Consistent

-----------------------------------------------------------------------------
(* The Metal allocator *)

\* Its cache is the buffer cache.
LEMMA MetalCache ==
  /\ Metal!EmptyCache = Cache!EmptyCache
  /\ \A c, b : Metal!TakeOut(c, b) = Cache!TakeOut(c, b)
  /\ \A c, b : Metal!RecycleToCache(c, b) = Cache!RecycleToCache(c, b)
  /\ \A c, min : Metal!ReleaseCachedBuffers(c, min) = Cache!ReleaseCachedBuffers(c, min)
  /\ \A c : Metal!Cached(c) = Elems(c.pool)
  /\ \A s : Metal!ToSet(s) = Elems(s)
  /\ \A S : Metal!Bytes(S) = Cache!Bytes(S)
  /\ \A S : Metal!Cardinality(S) = Cardinality(S)
  /\ \A c : Metal!Consistent(c) = Cache!Consistent(c)
<1> USE DEF Metal!EmptyCache, Cache!EmptyCache, Metal!RemoveFromList, Cache!RemoveFromList,
            Metal!TakeOut, Cache!TakeOut, Metal!Without, Cache!Without,
            Metal!Restrict, Cache!Restrict, Metal!RemoveAt, Cache!RemoveAt
<1>1. /\ Metal!EmptyCache = Cache!EmptyCache
      /\ \A c, b : Metal!TakeOut(c, b) = Cache!TakeOut(c, b)
  OBVIOUS
<1>2. \A c, min : Metal!ReleaseCachedBuffers(c, min) = Cache!ReleaseCachedBuffers(c, min)
  BY DEF Metal!ReleaseCachedBuffers, Cache!ReleaseCachedBuffers
<1>3. \A c, b : Metal!RecycleToCache(c, b) = Cache!RecycleToCache(c, b)
  BY DEF Metal!RecycleToCache, Cache!RecycleToCache, Metal!InsertAt, Cache!InsertAt,
         Metal!AddAtHead, Cache!AddAtHead, Metal!Cardinality, Cache!Cardinality
<1>4. /\ \A c : Metal!Cached(c) = Elems(c.pool)
      /\ \A s : Metal!ToSet(s) = Elems(s)
  BY DEF Metal!Cached, Metal!ToSet, Elems
<1>5. \A S : Metal!Bytes(S) = Cache!Bytes(S)
  BY DEF Metal!Bytes, Cache!Bytes, Metal!MapThenSumSet, Cache!MapThenSumSet,
         Metal!MapThenFoldSet, Cache!MapThenFoldSet
<1>6. \A S : Metal!Cardinality(S) = Cardinality(S)
  BY Zenon DEF Metal!Cardinality, Cardinality
<1>7. \A c : Metal!Consistent(c) = Cache!Consistent(c)
  BY DEF Metal!Consistent, Cache!Consistent, Metal!WalkOf, Cache!WalkOf, Metal!ToSet, Cache!ToSet,
         Metal!Cached, Cache!Cached, Metal!Reverse, Cache!Reverse, Metal!Bytes, Cache!Bytes,
         Metal!MapThenSumSet, Cache!MapThenSumSet, Metal!MapThenFoldSet, Cache!MapThenFoldSet,
         Metal!Cardinality, Cache!Cardinality
<1> QED
  BY <1>1, <1>2, <1>3, <1>4, <1>5, <1>6, <1>7

Residents == Buffer \cup {Metal!HeapObject}

MetalMemory ==
  [cache : Caches, active : Int, numResources : Int, wired : SUBSET Residents,
   unwired : SUBSET Residents, capacity : Int, live : SUBSET Buffer]

\* The buffers of the device are held (h), cached or being released (R), each
\* in one way, and counted.
MetalOwns(m, h, R) ==
  /\ IsFiniteSet(h) /\ h \subseteq Buffer /\ R \subseteq Buffer
  /\ WellFormed(m.cache)
  /\ h \cap Elems(m.cache.pool) = {}
  /\ R \cap (h \cup Elems(m.cache.pool)) = {}
  /\ m.live = h \cup Elems(m.cache.pool) \cup R
  /\ \A b \in m.live : b.where \in {"heap", "device"}
  /\ m.active = Cache!Bytes(h)
  /\ m.numResources = Cardinality(h) + Len(m.cache.pool)

\* The residency set has what is held or cached of the device.
MetalResident(m, h) ==
  /\ m.wired \cup m.unwired
       = {b \in h \cup Elems(m.cache.pool) : b.where = "device"} \cup {Metal!HeapObject}
  /\ m.wired \cap m.unwired = {}
  /\ Cache!Bytes(m.wired) <= m.capacity

MetalMemoryOK(m, h, R) == m \in MetalMemory /\ MetalOwns(m, h, R) /\ MetalResident(m, h)

MetalThread ==
  [at : {"idle", "allocate", "release"}, size : Nat, buf : Buffer \cup {NoBuffer}]

\* What a thread has taken out and not released yet is its own.
MetalThreads ==
  /\ pc \in [Threads -> MetalThread]
  /\ \A t \in Threads : Metal!At(t, "release") => pc[t].buf \in Buffer
  /\ \A t, u \in Threads :
       Metal!At(t, "release") /\ Metal!At(u, "release") /\ pc[t].buf = pc[u].buf => t = u

MetalLimitsOK == limits \in [maxPool : Nat, block : Nat, gc : Nat]

\* The limit of resources is passed by the threads that tested it already.
Allocating == {t \in Threads : Metal!At(t, "allocate")}

MetalBounded ==
  memory.numResources + Cardinality(Allocating) <= ResourceLimit - 1 + Cardinality(Threads)

\* The inductive invariant.
MetalInv ==
  /\ MetalMemoryOK(memory, held, Metal!Releasing) /\ MetalThreads /\ MetalLimitsOK
  /\ MetalBounded

\* The heap, which the residency set also holds, is no buffer.
LEMMA HeapObjectIs ==
  /\ Metal!HeapObject \notin Buffer /\ Metal!HeapObject.size \in Nat
  /\ Metal!HeapObject.where # "device"
  BY DEF Metal!HeapObject, Buffer, Places

\* What the residency set holds has sizes.
LEMMA ResidentsSized ==
  ASSUME NEW m, NEW h, NEW R, MetalMemoryOK(m, h, R)
  PROVE  AllSized(m.wired \cup m.unwired) /\ AllSized(m.wired)
<1>1. IsFiniteSet(h) /\ IsFiniteSet(Elems(m.cache.pool))
  <2>1. m.cache \in Caches
    BY DEF MetalMemoryOK, MetalOwns, WellFormed
  <2> QED
    BY <2>1, CachesFields, ElemsFinite DEF MetalMemoryOK, MetalOwns
<1>2. IsFiniteSet(h \cup Elems(m.cache.pool))
  BY <1>1, FS_Union
<1>3. PICK S : S = {b \in h \cup Elems(m.cache.pool) : b.where = "device"}
  OBVIOUS
<1>4. IsFiniteSet(S)
  <2>1. S \subseteq h \cup Elems(m.cache.pool)
    BY <1>3
  <2> QED
    BY <1>2, <2>1, FS_Subset
<1>5. IsFiniteSet(S \cup {Metal!HeapObject})
  BY <1>4, FS_AddElement
<1>6. m.wired \cup m.unwired = S \cup {Metal!HeapObject}
  BY <1>3 DEF MetalMemoryOK, MetalResident
<1>7. m.wired \cup m.unwired \subseteq Residents
  BY DEF MetalMemoryOK, MetalMemory
<1>8. \A b \in Residents : b.size \in Nat
  BY HeapObjectIs DEF Residents, Buffer
<1>9. IsFiniteSet(m.wired)
  <2>1. m.wired \subseteq S \cup {Metal!HeapObject}
    BY <1>6
  <2> QED
    BY <1>5, <2>1, FS_Subset
<1> QED
  BY <1>5, <1>6, <1>7, <1>8, <1>9 DEF AllSized

\* Buffers leave the cache.
LEMMA CollectedKeeps ==
  ASSUME NEW m, NEW h, NEW R, MetalMemoryOK(m, h, R), NEW r, Left(m.cache, r),
         NEW n, n = Metal!Collected(m, r)
  PROVE  MetalMemoryOK(n, h, R) /\ n.numResources <= m.numResources /\ n.cache = r.cache
<1>1. PICK F : F = Elems(r.freed)
  OBVIOUS
<1>2. PICK rest \in Int : rest = m.numResources - Len(r.freed)
  BY DEF MetalMemoryOK, MetalMemory, Left
<1>3. n = [[m EXCEPT !.cache = r.cache, !.numResources = rest, !.live = m.live \ F]
             EXCEPT !.wired = m.wired \ F, !.unwired = m.unwired \ F]
  BY <1>1, <1>2, MetalCache DEF Metal!Collected, Metal!Erase, MetalMemoryOK, MetalMemory
<1>4. m \in MetalMemory
  BY DEF MetalMemoryOK
<1>5. r.cache \in Caches
  BY DEF Left, WellFormed
<1>6. /\ n \in MetalMemory
      /\ n.cache = r.cache /\ n.active = m.active /\ n.numResources = rest
      /\ n.wired = m.wired \ F /\ n.unwired = m.unwired \ F /\ n.capacity = m.capacity
      /\ n.live = m.live \ F
  BY <1>3, <1>4, <1>5 DEF MetalMemory
<1>7. /\ F \cap Elems(r.cache.pool) = {} /\ F \cup Elems(r.cache.pool) = Elems(m.cache.pool)
      /\ WellFormed(r.cache)
  BY <1>1 DEF Left
<1>8. /\ r.freed \in Seq(Buffer) /\ r.cache.pool \in Seq(Buffer) /\ m.cache.pool \in Seq(Buffer)
      /\ Len(r.freed) + Len(r.cache.pool) = Len(m.cache.pool)
  BY <1>4, <1>5, CachesFields DEF Left, MetalMemory
<1>9. MetalOwns(m, h, R) /\ MetalResident(m, h)
  BY DEF MetalMemoryOK
<1>10. rest = Cardinality(h) + Len(r.cache.pool) /\ rest <= m.numResources
  <2>1. m.numResources = Cardinality(h) + Len(m.cache.pool) /\ IsFiniteSet(h)
    BY <1>9 DEF MetalOwns
  <2>2. Cardinality(h) \in Nat
    BY <2>1, FS_CardinalityType
  <2>3. PICK u \in Nat, v \in Nat : u = Len(r.freed) /\ v = Len(r.cache.pool)
    BY <1>8
  <2>4. m.numResources = Cardinality(h) + (u + v) /\ rest = m.numResources - u
    BY <1>2, <1>8, <2>1, <2>3
  <2>5. rest = Cardinality(h) + v /\ rest <= m.numResources
    BY <2>2, <2>4
  <2> QED
    BY <2>3, <2>5
<1>11. MetalOwns(n, h, R)
  BY <1>6, <1>7, <1>9, <1>10 DEF MetalOwns
<1>12. MetalResident(n, h)
  <2>1. Metal!HeapObject \notin F
    <3>1. F \subseteq Buffer
      BY <1>1, <1>8, ElemsFinite
    <3> QED
      BY <3>1, HeapObjectIs
  <2>2. h \cap F = {}
    BY <1>7, <1>9 DEF MetalOwns
  <2>3. n.wired \cup n.unwired
          = {b \in h \cup Elems(n.cache.pool) : b.where = "device"} \cup {Metal!HeapObject}
    BY <1>6, <1>7, <1>9, <2>1, <2>2 DEF MetalResident
  <2>4. Cache!Bytes(n.wired) <= n.capacity
    <3>1. AllSized(m.wired) /\ n.wired \subseteq m.wired
      BY <1>6, ResidentsSized
    <3>2. /\ Cache!Bytes(n.wired) \in Nat /\ Cache!Bytes(m.wired) \in Nat
          /\ Cache!Bytes(n.wired) <= Cache!Bytes(m.wired)
      BY <3>1, BytesPart
    <3>3. Cache!Bytes(m.wired) <= m.capacity /\ m.capacity \in Int
      BY <1>4, <1>9 DEF MetalResident, MetalMemory
    <3> QED
      BY <1>6, <3>2, <3>3
  <2>5. n.wired \cap n.unwired = {}
    BY <1>6, <1>9 DEF MetalResident
  <2> QED
    BY <2>3, <2>4, <2>5 DEF MetalResident
<1> QED
  BY <1>6, <1>10, <1>11, <1>12 DEF MetalMemoryOK

\* release_cached_buffers keeps the memory accounted for, frees what it was
\* asked for or everything, and never adds a resource.
LEMMA ReleasedKeeps ==
  ASSUME NEW m, NEW h, NEW R, MetalMemoryOK(m, h, R), NEW min \in Int,
         NEW n, n = Metal!Released(m, min)
  PROVE  /\ MetalMemoryOK(n, h, R) /\ n.numResources <= m.numResources
         /\ n.cache.size = 0 \/ m.cache.size - n.cache.size >= min
         /\ n.cache.size \in Nat /\ m.cache.size \in Nat /\ n.cache.size <= m.cache.size
<1>1. WellFormed(m.cache)
  BY DEF MetalMemoryOK, MetalOwns
<1>2. PICK r : r = Cache!ReleaseCachedBuffers(m.cache, min)
  OBVIOUS
<1>3. Left(m.cache, r) /\ (r.cache.size = 0 \/ m.cache.size - r.cache.size >= min)
  BY <1>1, <1>2, ReleaseKeeps
<1>4. n = Metal!Collected(m, r)
  BY <1>2, MetalCache DEF Metal!Released
<1>5. MetalMemoryOK(n, h, R) /\ n.numResources <= m.numResources /\ n.cache = r.cache
  BY <1>3, <1>4, CollectedKeeps
<1>6. m.cache \in Caches /\ r.cache \in Caches /\ r.cache.size <= m.cache.size
  BY <1>1, <1>3 DEF WellFormed, Left
<1> QED
  BY <1>3, <1>5, <1>6, CachesFields

\* A memory with one field changed, under a name a lemma can be cited with.
WithCache(m, c) == [m EXCEPT !.cache = c]
WithActive(m, n) == [m EXCEPT !.active = n]
WithNew(m, b) == [m EXCEPT !.numResources = m.numResources + 1, !.live = m.live \cup {b}]

\* The cache that a malloc leaves is within its limit.
LEMMA CountedKeeps ==
  ASSUME NEW m \in MetalMemory, NEW h, NEW R, NEW b \in Buffer, NEW c,
         c = WithActive(m, m.active + b.size),
         MetalMemoryOK(c, h \cup {b}, R), limits.maxPool \in Nat,
         NEW n, n = Metal!Counted(m, b)
  PROVE  /\ MetalMemoryOK(n, h \cup {b}, R) /\ n.numResources <= m.numResources
         /\ n.cache.size <= limits.maxPool
<1>1. /\ c.cache = m.cache /\ c.numResources = m.numResources /\ m.numResources \in Int
      /\ c.cache \in Caches
  BY DEF MetalMemory, WithActive
<1>2. PICK size \in Nat, max \in Nat : size = c.cache.size /\ max = limits.maxPool
  BY <1>1, CachesFields
<1>3. n = IF size > max THEN Metal!Released(c, size - max) ELSE c
  BY <1>2 DEF Metal!Counted, WithActive
<1>4. CASE size > max
  <2>1. PICK min \in Int : min = size - max
    OBVIOUS
  <2>2. n = Metal!Released(c, min)
    BY <1>3, <1>4, <2>1
  <2>3. /\ MetalMemoryOK(n, h \cup {b}, R) /\ n.numResources <= c.numResources
        /\ n.cache.size = 0 \/ c.cache.size - n.cache.size >= min
        /\ n.cache.size \in Nat
    BY <2>2, ReleasedKeeps
  <2>4. PICK left \in Nat : left = n.cache.size
    BY <2>3
  <2>5. left = 0 \/ size - left >= size - max
    BY <1>2, <2>1, <2>3, <2>4
  <2>6. left <= max
    BY <2>5
  <2> QED
    BY <1>1, <1>2, <2>3, <2>4, <2>6
<1>5. CASE ~(size > max)
  BY <1>1, <1>2, <1>3, <1>5
<1> QED
  BY <1>4, <1>5

\* A buffer leaves the cache for its new owner.
LEMMA ReusedKeeps ==
  ASSUME NEW m, NEW h, NEW R, MetalMemoryOK(m, h, R), NEW b \in Elems(m.cache.pool),
         NEW d, d = Cache!TakeOut(m.cache, b), NEW n, n = WithCache(m, d), NEW c,
         c = WithActive(n, n.active + b.size)
  PROVE  /\ b \in Buffer /\ n \in MetalMemory /\ n.numResources = m.numResources
         /\ MetalMemoryOK(c, h \cup {b}, R)
<1>1. m \in MetalMemory /\ MetalOwns(m, h, R) /\ MetalResident(m, h)
  BY DEF MetalMemoryOK
<1>2. /\ WellFormed(d) /\ Elems(d.pool) = Elems(m.cache.pool) \ {b}
      /\ Len(d.pool) = Len(m.cache.pool) - 1
  BY <1>1, TakeOutKeeps DEF MetalOwns
<1>3. d \in Caches /\ m.cache \in Caches /\ m.active \in Int
  BY <1>1, <1>2 DEF WellFormed, MetalMemory
<1>4. b \in Buffer /\ b.size \in Nat /\ Elems(m.cache.pool) \subseteq Buffer
  <2>1. b \in Buffer /\ Elems(m.cache.pool) \subseteq Buffer
    BY <1>3, CachesFields, ElemsFinite
  <2> QED
    BY <2>1 DEF Buffer
<1>5. PICK sum \in Int : sum = m.active + b.size
  BY <1>3, <1>4
<1>6. n \in MetalMemory /\ n.active = m.active /\ n.numResources = m.numResources
  BY <1>1, <1>3 DEF MetalMemory, WithCache
<1>7. /\ c \in MetalMemory /\ c.cache = d /\ c.active = sum
      /\ c.numResources = m.numResources /\ c.wired = m.wired /\ c.unwired = m.unwired
      /\ c.capacity = m.capacity /\ c.live = m.live
  BY <1>1, <1>3, <1>5, <1>6 DEF MetalMemory, WithCache, WithActive
<1>8. b \notin h /\ IsFiniteSet(h) /\ h \subseteq Buffer
  BY <1>1 DEF MetalOwns
<1>9. /\ IsFiniteSet(h \cup {b}) /\ Cardinality(h \cup {b}) = Cardinality(h) + 1
      /\ Cardinality(h) \in Nat
  BY <1>8, FS_AddElement, FS_CardinalityType
<1>10. Cache!Bytes(h \cup {b}) = sum
  <2>1. AllSized(h)
    BY <1>8 DEF AllSized, Buffer
  <2> QED
    BY <1>1, <1>4, <1>5, <1>8, <2>1, BytesAdd DEF MetalOwns
<1>11. c.numResources = Cardinality(h \cup {b}) + Len(c.cache.pool)
  <2>1. m.cache.pool \in Seq(Buffer) /\ d.pool \in Seq(Buffer)
    BY <1>3, CachesFields
  <2>2. PICK k \in Nat, i \in Nat, j \in Nat :
          k = Cardinality(h) /\ i = Len(m.cache.pool) /\ j = Len(d.pool)
    BY <1>9, <2>1
  <2>3. m.numResources = k + i /\ j = i - 1
    BY <1>1, <1>2, <2>2 DEF MetalOwns
  <2>4. m.numResources = (k + 1) + j
    BY <2>3
  <2> QED
    BY <1>7, <1>9, <2>2, <2>4
<1>12. MetalOwns(c, h \cup {b}, R)
  <2>1. /\ (h \cup {b}) \cap Elems(c.cache.pool) = {}
        /\ R \cap ((h \cup {b}) \cup Elems(c.cache.pool)) = {}
        /\ c.live = (h \cup {b}) \cup Elems(c.cache.pool) \cup R
        /\ \A x \in c.live : x.where \in {"heap", "device"}
        /\ h \cup {b} \subseteq Buffer /\ R \subseteq Buffer
    BY <1>1, <1>2, <1>4, <1>7, <1>8 DEF MetalOwns
  <2> QED
    BY <1>2, <1>7, <1>9, <1>10, <1>11, <2>1 DEF MetalOwns
<1>13. MetalResident(c, h \cup {b})
  <2>1. (h \cup {b}) \cup Elems(c.cache.pool) = h \cup Elems(m.cache.pool)
    BY <1>2, <1>7
  <2> QED
    BY <1>1, <1>7, <2>1 DEF MetalResident
<1> QED
  BY <1>4, <1>6, <1>7, <1>12, <1>13 DEF MetalMemoryOK

\* A buffer of the device is new.
LEMMA NewKeeps ==
  ASSUME NEW m, NEW h, NEW R, MetalMemoryOK(m, h, R), NEW b \in Buffer, b \notin m.live,
         b.where \in {"heap", "device"},
         NEW o, o = WithNew(m, b),
         NEW n, n = Metal!Insert(o, b), NEW c, c = WithActive(n, n.active + b.size)
  PROVE  /\ n \in MetalMemory /\ n.numResources = m.numResources + 1
         /\ MetalMemoryOK(c, h \cup {b}, R)
<1>1. m \in MetalMemory /\ MetalOwns(m, h, R) /\ MetalResident(m, h)
  BY DEF MetalMemoryOK
<1>2. PICK num \in Int : num = m.numResources + 1
  BY <1>1 DEF MetalMemory
<1>3. PICK alive \in SUBSET Buffer : alive = m.live \cup {b}
  BY <1>1 DEF MetalMemory
<1>4. /\ o \in MetalMemory /\ o.cache = m.cache /\ o.active = m.active /\ o.numResources = num
      /\ o.wired = m.wired /\ o.unwired = m.unwired /\ o.capacity = m.capacity /\ o.live = alive
  BY <1>1, <1>2, <1>3 DEF MetalMemory, WithNew
<1>5. b.size \in Nat /\ b \in Residents
  BY DEF Buffer, Residents
<1>6. /\ b \notin h /\ b \notin Elems(m.cache.pool) /\ b \notin R
      /\ b \notin m.wired \cup m.unwired
  <2>1. b \notin h /\ b \notin Elems(m.cache.pool) /\ b \notin R
    BY <1>1 DEF MetalOwns
  <2>2. b # Metal!HeapObject
    BY HeapObjectIs
  <2> QED
    BY <1>1, <2>1, <2>2 DEF MetalResident
<1>7. AllSized(m.wired)
  BY ResidentsSized
<1>8. PICK D : D = IF b.where = "device" THEN {b} ELSE {}
  OBVIOUS
<1>9. /\ n \in MetalMemory /\ n.cache = m.cache /\ n.active = m.active /\ n.numResources = num
      /\ n.capacity = m.capacity /\ n.live = alive
      /\ n.wired \cup n.unwired = (m.wired \cup m.unwired) \cup D
      /\ n.wired \cap n.unwired = {}
      /\ Cache!Bytes(n.wired) <= n.capacity
  <2>1. CASE b.where = "heap"
    <3>1. n = o /\ D = {}
      BY <1>8, <2>1 DEF Metal!Insert
    <3> QED
      BY <1>1, <1>4, <3>1 DEF MetalResident
  <2>2. CASE b.where = "device" /\ Cache!Bytes(m.wired) + b.size <= m.capacity
    <3>1. PICK w \in SUBSET Residents : w = m.wired \cup {b}
      BY <1>1, <1>5 DEF MetalMemory
    <3>2. n = [o EXCEPT !.wired = w] /\ D = {b}
      BY <1>4, <1>8, <2>2, <3>1, MetalCache DEF Metal!Insert
    <3>3. /\ n \in MetalMemory /\ n.cache = m.cache /\ n.active = m.active /\ n.numResources = num
          /\ n.capacity = m.capacity /\ n.live = alive /\ n.wired = w /\ n.unwired = m.unwired
      BY <1>4, <3>1, <3>2 DEF MetalMemory
    <3>4. Cache!Bytes(w) = Cache!Bytes(m.wired) + b.size
      BY <1>5, <1>6, <1>7, <3>1, BytesAdd
    <3>5. m.wired \cap m.unwired = {}
      BY <1>1 DEF MetalResident
    <3> QED
      BY <1>6, <2>2, <3>1, <3>2, <3>3, <3>4, <3>5
  <2>3. CASE b.where = "device" /\ ~(Cache!Bytes(m.wired) + b.size <= m.capacity)
    <3>1. PICK w \in SUBSET Residents : w = m.unwired \cup {b}
      BY <1>1, <1>5 DEF MetalMemory
    <3>2. n = [o EXCEPT !.unwired = w] /\ D = {b}
      BY <1>4, <1>8, <2>3, <3>1, MetalCache DEF Metal!Insert
    <3>3. /\ n \in MetalMemory /\ n.cache = m.cache /\ n.active = m.active /\ n.numResources = num
          /\ n.capacity = m.capacity /\ n.live = alive /\ n.wired = m.wired /\ n.unwired = w
      BY <1>4, <3>1, <3>2 DEF MetalMemory
    <3>4. m.wired \cap m.unwired = {} /\ Cache!Bytes(m.wired) <= m.capacity
      BY <1>1 DEF MetalResident
    <3> QED
      BY <1>6, <3>1, <3>2, <3>3, <3>4
  <2> QED
    BY <2>1, <2>2, <2>3
<1>10. PICK sum \in Int : sum = m.active + b.size
  BY <1>1, <1>5 DEF MetalMemory
<1>11. /\ c \in MetalMemory /\ c.cache = m.cache /\ c.active = sum /\ c.numResources = num
       /\ c.capacity = m.capacity /\ c.live = alive /\ c.wired = n.wired /\ c.unwired = n.unwired
  BY <1>9, <1>10 DEF MetalMemory, WithActive
<1>12. IsFiniteSet(h) /\ h \subseteq Buffer
  BY <1>1 DEF MetalOwns
<1>13. /\ IsFiniteSet(h \cup {b}) /\ Cardinality(h \cup {b}) = Cardinality(h) + 1
       /\ Cardinality(h) \in Nat
  BY <1>6, <1>12, FS_AddElement, FS_CardinalityType
<1>14. Cache!Bytes(h \cup {b}) = sum
  <2>1. AllSized(h)
    BY <1>12 DEF AllSized, Buffer
  <2> QED
    BY <1>1, <1>5, <1>6, <1>10, <2>1, BytesAdd DEF MetalOwns
<1>15. MetalOwns(c, h \cup {b}, R)
  <2>1. /\ (h \cup {b}) \cap Elems(c.cache.pool) = {}
        /\ R \cap ((h \cup {b}) \cup Elems(c.cache.pool)) = {}
        /\ c.live = (h \cup {b}) \cup Elems(c.cache.pool) \cup R
        /\ \A x \in c.live : x.where \in {"heap", "device"}
        /\ h \cup {b} \subseteq Buffer /\ R \subseteq Buffer
        /\ WellFormed(c.cache)
    BY <1>1, <1>3, <1>6, <1>11 DEF MetalOwns
  <2>2. c.numResources = Cardinality(h \cup {b}) + Len(c.cache.pool)
    <3>1. m.cache.pool \in Seq(Buffer)
      BY <1>1, CachesFields DEF MetalMemory
    <3>2. PICK k \in Nat, i \in Nat : k = Cardinality(h) /\ i = Len(m.cache.pool)
      BY <1>13, <3>1
    <3>3. num = (k + 1) + i
      BY <1>1, <1>2, <3>2 DEF MetalOwns
    <3> QED
      BY <1>11, <1>13, <3>2, <3>3
  <2> QED
    BY <1>11, <1>13, <1>14, <2>1, <2>2 DEF MetalOwns
<1>16. MetalResident(c, h \cup {b})
  <2>1. {x \in (h \cup {b}) \cup Elems(c.cache.pool) : x.where = "device"}
          = {x \in h \cup Elems(m.cache.pool) : x.where = "device"} \cup D
    BY <1>8, <1>11
  <2> QED
    BY <1>1, <1>9, <1>11, <2>1 DEF MetalResident
<1> QED
  BY <1>2, <1>9, <1>11, <1>15, <1>16 DEF MetalMemoryOK

\* What holds of a set of buffers without one of them.
LEMMA WithoutOne ==
  ASSUME NEW h, IsFiniteSet(h), h \subseteq Buffer, NEW b \in h
  PROVE  /\ IsFiniteSet(h \ {b}) /\ Cardinality(h \ {b}) = Cardinality(h) - 1
         /\ Cardinality(h) \in Nat /\ Cardinality(h \ {b}) \in Nat
         /\ Cache!Bytes(h \ {b}) = Cache!Bytes(h) - b.size
<1>1. AllSized(h)
  BY DEF AllSized, Buffer
<1>2. Cache!Bytes(h) = b.size + Cache!Bytes(h \ {b}) /\ Cache!Bytes(h \ {b}) \in Nat
  BY <1>1, BytesFacts
<1>3. b.size \in Nat
  BY DEF Buffer
<1>4. /\ IsFiniteSet(h \ {b}) /\ Cardinality(h \ {b}) = Cardinality(h) - 1
      /\ Cardinality(h) \in Nat /\ Cardinality(h \ {b}) \in Nat
  BY FS_RemoveElement, FS_CardinalityType
<1> QED
  BY <1>2, <1>3, <1>4

\* A buffer given back goes to the cache.
LEMMA RecycledKeeps ==
  ASSUME NEW m, NEW h, NEW R, MetalMemoryOK(m, h, R), NEW b \in h,
         NEW o, o = WithActive(m, m.active - b.size),
         NEW n, n = WithCache(o, Metal!RecycleToCache(o.cache, b))
  PROVE  MetalMemoryOK(n, h \ {b}, R) /\ n.numResources = m.numResources
<1>1. m \in MetalMemory /\ MetalOwns(m, h, R) /\ MetalResident(m, h)
  BY DEF MetalMemoryOK
<1>2. b \in Buffer /\ b \notin Elems(m.cache.pool) /\ WellFormed(m.cache)
  BY <1>1 DEF MetalOwns
<1>3. PICK rest \in Int : rest = m.active - b.size
  BY <1>1, <1>2 DEF MetalMemory, Buffer
<1>4. /\ o \in MetalMemory /\ o.cache = m.cache /\ o.active = rest
      /\ o.numResources = m.numResources /\ o.wired = m.wired /\ o.unwired = m.unwired
      /\ o.capacity = m.capacity /\ o.live = m.live
  BY <1>1, <1>3 DEF MetalMemory, WithActive
<1>5. PICK d : d = Cache!RecycleToCache(m.cache, b)
  OBVIOUS
<1>6. /\ WellFormed(d) /\ Elems(d.pool) = Elems(m.cache.pool) \cup {b}
      /\ Len(d.pool) = Len(m.cache.pool) + 1
  BY <1>2, <1>5, RecycleKeeps
<1>7. d \in Caches /\ m.cache \in Caches
  BY <1>2, <1>6 DEF WellFormed
<1>8. n = [o EXCEPT !.cache = d]
  BY <1>4, <1>5, MetalCache DEF WithCache
<1>9. /\ n \in MetalMemory /\ n.cache = d /\ n.active = rest
      /\ n.numResources = m.numResources /\ n.wired = m.wired /\ n.unwired = m.unwired
      /\ n.capacity = m.capacity /\ n.live = m.live
  BY <1>4, <1>7, <1>8 DEF MetalMemory
<1>10. IsFiniteSet(h) /\ h \subseteq Buffer
  BY <1>1 DEF MetalOwns
<1>11. /\ IsFiniteSet(h \ {b}) /\ Cardinality(h \ {b}) = Cardinality(h) - 1
       /\ Cardinality(h) \in Nat /\ Cache!Bytes(h \ {b}) = Cache!Bytes(h) - b.size
  BY <1>10, WithoutOne
<1>12. n.numResources = Cardinality(h \ {b}) + Len(n.cache.pool)
  <2>1. m.cache.pool \in Seq(Buffer) /\ d.pool \in Seq(Buffer)
    BY <1>7, CachesFields
  <2>2. PICK k \in Nat, i \in Nat, j \in Nat :
          k = Cardinality(h) /\ i = Len(m.cache.pool) /\ j = Len(d.pool)
    BY <1>11, <2>1
  <2>3. m.numResources = k + i /\ j = i + 1
    BY <1>1, <1>6, <2>2 DEF MetalOwns
  <2>4. m.numResources = (k - 1) + j
    BY <2>3
  <2> QED
    BY <1>9, <1>11, <2>2, <2>4
<1>13. MetalOwns(n, h \ {b}, R)
  <2>1. /\ (h \ {b}) \cap Elems(n.cache.pool) = {}
        /\ R \cap ((h \ {b}) \cup Elems(n.cache.pool)) = {}
        /\ n.live = (h \ {b}) \cup Elems(n.cache.pool) \cup R
        /\ \A x \in n.live : x.where \in {"heap", "device"}
        /\ h \ {b} \subseteq Buffer /\ R \subseteq Buffer
    BY <1>1, <1>2, <1>6, <1>9 DEF MetalOwns
  <2>2. n.active = Cache!Bytes(h \ {b})
    BY <1>1, <1>3, <1>9, <1>11 DEF MetalOwns
  <2> QED
    BY <1>6, <1>9, <1>11, <1>12, <2>1, <2>2 DEF MetalOwns
<1>14. MetalResident(n, h \ {b})
  <2>1. (h \ {b}) \cup Elems(n.cache.pool) = h \cup Elems(m.cache.pool)
    BY <1>6, <1>9
  <2> QED
    BY <1>1, <1>9, <2>1 DEF MetalResident
<1> QED
  BY <1>9, <1>13, <1>14 DEF MetalMemoryOK

\* A buffer given back leaves the residency set and is about to be released.
LEMMA ErasedKeeps ==
  ASSUME NEW m, NEW h, NEW R, MetalMemoryOK(m, h, R), NEW b \in h,
         NEW o, o = WithActive(m, m.active - b.size),
         NEW n, n = Metal!Erase([o EXCEPT !.numResources = o.numResources - 1], {b})
  PROVE  MetalMemoryOK(n, h \ {b}, R \cup {b}) /\ n.numResources = m.numResources - 1
<1>1. m \in MetalMemory /\ MetalOwns(m, h, R) /\ MetalResident(m, h)
  BY DEF MetalMemoryOK
<1>2. b \in Buffer /\ b \notin Elems(m.cache.pool) /\ b \notin R
  BY <1>1 DEF MetalOwns
<1>3. PICK rest \in Int, num \in Int : rest = m.active - b.size /\ num = m.numResources - 1
  BY <1>1, <1>2 DEF MetalMemory, Buffer
<1>4. /\ o \in MetalMemory /\ o.cache = m.cache /\ o.active = rest
      /\ o.numResources = m.numResources /\ o.wired = m.wired /\ o.unwired = m.unwired
      /\ o.capacity = m.capacity /\ o.live = m.live
  BY <1>1, <1>3 DEF MetalMemory, WithActive
<1>5. PICK p : p = [o EXCEPT !.numResources = num]
  OBVIOUS
<1>6. /\ p \in MetalMemory /\ p.cache = m.cache /\ p.active = rest
      /\ p.numResources = num /\ p.wired = m.wired /\ p.unwired = m.unwired
      /\ p.capacity = m.capacity /\ p.live = m.live
  BY <1>3, <1>4, <1>5 DEF MetalMemory
<1>7. PICK w \in SUBSET Residents, u \in SUBSET Residents : w = m.wired \ {b} /\ u = m.unwired \ {b}
  BY <1>1 DEF MetalMemory
<1>8. n = [p EXCEPT !.wired = w, !.unwired = u]
  BY <1>3, <1>4, <1>5, <1>6, <1>7 DEF Metal!Erase
<1>9. /\ n \in MetalMemory /\ n.cache = m.cache /\ n.active = rest
      /\ n.numResources = num /\ n.wired = w /\ n.unwired = u
      /\ n.capacity = m.capacity /\ n.live = m.live
  BY <1>6, <1>7, <1>8 DEF MetalMemory
<1>10. IsFiniteSet(h) /\ h \subseteq Buffer
  BY <1>1 DEF MetalOwns
<1>11. /\ IsFiniteSet(h \ {b}) /\ Cardinality(h \ {b}) = Cardinality(h) - 1
       /\ Cardinality(h) \in Nat /\ Cache!Bytes(h \ {b}) = Cache!Bytes(h) - b.size
  BY <1>10, WithoutOne
<1>12. n.numResources = Cardinality(h \ {b}) + Len(n.cache.pool)
  <2>1. m.cache.pool \in Seq(Buffer)
    BY <1>1, CachesFields DEF MetalMemory
  <2>2. PICK k \in Nat, i \in Nat : k = Cardinality(h) /\ i = Len(m.cache.pool)
    BY <1>11, <2>1
  <2>3. num = (k - 1) + i
    BY <1>1, <1>3, <2>2 DEF MetalOwns
  <2> QED
    BY <1>9, <1>11, <2>2, <2>3
<1>13. MetalOwns(n, h \ {b}, R \cup {b})
  <2>1. /\ (h \ {b}) \cap Elems(n.cache.pool) = {}
        /\ (R \cup {b}) \cap ((h \ {b}) \cup Elems(n.cache.pool)) = {}
        /\ n.live = (h \ {b}) \cup Elems(n.cache.pool) \cup (R \cup {b})
        /\ \A x \in n.live : x.where \in {"heap", "device"}
        /\ h \ {b} \subseteq Buffer /\ R \cup {b} \subseteq Buffer
        /\ WellFormed(n.cache)
    BY <1>1, <1>2, <1>9 DEF MetalOwns
  <2>2. n.active = Cache!Bytes(h \ {b})
    BY <1>1, <1>3, <1>9, <1>11 DEF MetalOwns
  <2> QED
    BY <1>9, <1>11, <1>12, <2>1, <2>2 DEF MetalOwns
<1>14. MetalResident(n, h \ {b})
  <2>1. b # Metal!HeapObject
    BY <1>2, HeapObjectIs
  <2>2. n.wired \cup n.unwired
          = {x \in (h \ {b}) \cup Elems(n.cache.pool) : x.where = "device"} \cup {Metal!HeapObject}
    <3>1. m.wired \cup m.unwired
            = {x \in h \cup Elems(m.cache.pool) : x.where = "device"} \cup {Metal!HeapObject}
      BY <1>1 DEF MetalResident
    <3>2. n.wired \cup n.unwired = (m.wired \cup m.unwired) \ {b} /\ n.cache = m.cache
      BY <1>7, <1>9
    <3>3. {x \in (h \ {b}) \cup Elems(n.cache.pool) : x.where = "device"}
            = {x \in h \cup Elems(m.cache.pool) : x.where = "device"} \ {b}
      BY <1>2, <3>2
    <3> QED
      BY <2>1, <3>1, <3>2, <3>3
  <2>3. n.wired \cap n.unwired = {}
    BY <1>1, <1>7, <1>9 DEF MetalResident
  <2>4. Cache!Bytes(n.wired) <= n.capacity
    <3>1. AllSized(m.wired) /\ n.wired \subseteq m.wired
      BY <1>7, <1>9, ResidentsSized
    <3>2. /\ Cache!Bytes(n.wired) \in Nat /\ Cache!Bytes(m.wired) \in Nat
          /\ Cache!Bytes(n.wired) <= Cache!Bytes(m.wired)
      BY <3>1, BytesPart
    <3>3. Cache!Bytes(m.wired) <= m.capacity /\ m.capacity \in Int
      BY <1>1 DEF MetalResident, MetalMemory
    <3> QED
      BY <1>9, <3>2, <3>3
  <2> QED
    BY <2>2, <2>3, <2>4 DEF MetalResident
<1> QED
  BY <1>3, <1>9, <1>13, <1>14 DEF MetalMemoryOK

\* The buffer is released.
LEMMA GoneKeeps ==
  ASSUME NEW m, NEW h, NEW R, MetalMemoryOK(m, h, R), NEW b \in R,
         NEW n, n = [m EXCEPT !.live = m.live \ {b}]
  PROVE  MetalMemoryOK(n, h, R \ {b}) /\ n.numResources = m.numResources
<1>1. m \in MetalMemory /\ MetalOwns(m, h, R) /\ MetalResident(m, h)
  BY DEF MetalMemoryOK
<1>2. PICK alive \in SUBSET Buffer : alive = m.live \ {b}
  BY <1>1 DEF MetalMemory
<1>3. /\ n \in MetalMemory /\ n.cache = m.cache /\ n.active = m.active
      /\ n.numResources = m.numResources /\ n.wired = m.wired /\ n.unwired = m.unwired
      /\ n.capacity = m.capacity /\ n.live = alive
  BY <1>1, <1>2 DEF MetalMemory
<1>4. MetalOwns(n, h, R \ {b})
  BY <1>1, <1>2, <1>3 DEF MetalOwns
<1>5. MetalResident(n, h)
  BY <1>1, <1>3 DEF MetalResident
<1> QED
  BY <1>3, <1>4, <1>5 DEF MetalMemoryOK

\* The wired limit changes.
LEMMA ResizedKeeps ==
  ASSUME NEW m, NEW h, NEW R, MetalMemoryOK(m, h, R), NEW limit \in Nat,
         NEW n \in Metal!Resized(m, limit)
  PROVE  MetalMemoryOK(n, h, R) /\ n.numResources = m.numResources /\ n.cache = m.cache
<1>1. m \in MetalMemory /\ MetalOwns(m, h, R) /\ MetalResident(m, h)
  BY DEF MetalMemoryOK
<1>2. CASE m.capacity = limit
  <2>1. n = m
    BY <1>2 DEF Metal!Resized
  <2> QED
    BY <2>1
<1>3. CASE m.capacity # limit
  <2>1. AllSized(m.wired)
    BY ResidentsSized
  <2>2. PICK k \in Nat : k = Cache!Bytes(m.wired)
    BY <2>1, BytesFacts
  <2>3. PICK w : /\ w \subseteq m.wired \cup m.unwired
                 /\ Cache!Bytes(w) <= limit
                 /\ n = [m EXCEPT !.wired = w, !.unwired = (m.unwired \cup m.wired) \ w,
                                  !.capacity = limit]
    <3>0. Metal!Bytes(m.wired) = k /\ \A w : Metal!Bytes(w) = Cache!Bytes(w)
      BY <2>2, MetalCache
    <3>1. CASE k < limit
      BY <1>3, <3>0, <3>1 DEF Metal!Resized
    <3>2. CASE k > limit
      BY <1>3, <3>0, <3>2 DEF Metal!Resized
    <3>3. CASE k = limit
      <4>1. n = [m EXCEPT !.wired = m.wired, !.unwired = (m.unwired \cup m.wired) \ m.wired,
                          !.capacity = limit]
        <5>1. ~(k < limit) /\ ~(k > limit)
          BY <3>3
        <5>2. n \in {[m EXCEPT !.wired = w, !.unwired = (m.unwired \cup m.wired) \ w,
                               !.capacity = limit] : w \in {m.wired}}
          BY <1>3, <3>0, <5>1 DEF Metal!Resized
        <5> QED
          BY <5>2
      <4>2. m.wired \subseteq m.wired \cup m.unwired /\ Cache!Bytes(m.wired) <= limit
        BY <2>2, <3>3
      <4> QED
        BY <4>1, <4>2
    <3>4. k < limit \/ k > limit \/ k = limit
      OBVIOUS
    <3> QED
      BY <3>1, <3>2, <3>3, <3>4
  <2>4. PICK v \in SUBSET Residents, u \in SUBSET Residents :
          v = w /\ u = (m.unwired \cup m.wired) \ w
    BY <1>1, <2>3 DEF MetalMemory
  <2>5. n = [m EXCEPT !.wired = v, !.unwired = u, !.capacity = limit] /\ limit \in Int
    BY <2>3, <2>4
  <2>6. /\ n \in MetalMemory /\ n.cache = m.cache /\ n.active = m.active
        /\ n.numResources = m.numResources /\ n.wired = v /\ n.unwired = u
        /\ n.capacity = limit /\ n.live = m.live
    BY <1>1, <2>5 DEF MetalMemory
  <2>7. MetalOwns(n, h, R)
    BY <1>1, <2>6 DEF MetalOwns
  <2>8. MetalResident(n, h)
    <3>1. v \cup u = m.wired \cup m.unwired /\ v \cap u = {}
      BY <2>3, <2>4
    <3> QED
      BY <1>1, <2>3, <2>4, <2>6, <3>1 DEF MetalResident
  <2> QED
    BY <2>6, <2>7, <2>8 DEF MetalMemoryOK
<1> QED
  BY <1>2, <1>3

\* clear_cache gives back all of it.
LEMMA ClearedKeeps ==
  ASSUME NEW c, WellFormed(c)
  PROVE  Left(c, [cache |-> Cache!EmptyCache, freed |-> c.pool])
<1>1. PICK r : r = [cache |-> Cache!EmptyCache, freed |-> c.pool]
  OBVIOUS
<1>2. c.pool \in Seq(Buffer) /\ c.size \in Nat
  BY CachesFields DEF WellFormed
<1>3. /\ r.freed = c.pool /\ r.cache = Cache!EmptyCache /\ WellFormed(r.cache)
      /\ r.cache.pool = <<>> /\ r.cache.size = 0
  BY <1>1, EmptyIsWellFormed
<1>4. Elems(r.cache.pool) = {} /\ Len(r.cache.pool) = 0
  BY <1>3 DEF Elems
<1>5. Left(c, r)
  BY <1>2, <1>3, <1>4 DEF Left, WellFormed
<1> QED
  BY <1>1, <1>5

\* The least of a set of sizes.
LEMMA MetalMinIs ==
  ASSUME NEW S \in SUBSET Nat, S # {}
  PROVE  Metal!Min(S) \in S /\ Metal!Min(S) \in Nat
<1>1. \E n \in S : \A k \in S : n <= k
  BY LeastNat
<1>2. Metal!Min(S) \in S
  BY <1>1 DEF Metal!Min
<1> QED
  BY <1>2

\* reuse_from_cache finds a buffer of the cache.
LEMMA MetalReusableIs ==
  ASSUME NEW c \in Caches, NEW size, NEW b, b = Metal!Reusable(c, size), b # NoBuffer
  PROVE  b \in Elems(c.pool)
<1>1. PICK S : S = {i \in DOMAIN c.pool : c.pool[i].size >= size}
  OBVIOUS
<1>2. DOMAIN c.pool \subseteq Nat
  <2>1. c.pool \in Seq(Buffer)
    BY CachesFields
  <2>2. DOMAIN c.pool = 1 .. Len(c.pool) /\ Len(c.pool) \in Nat
    BY <2>1
  <2> QED
    BY <2>2
<1>3. PICK i : i = Metal!LowerBound(c, size)
  OBVIOUS
<1>4. i # 0 /\ b = c.pool[i]
  BY <1>3 DEF Metal!Reusable
<1>5. S # {} /\ i = Metal!Min(S)
  BY <1>1, <1>3, <1>4 DEF Metal!LowerBound
<1>6. i \in S
  BY <1>1, <1>2, <1>5, MetalMinIs
<1> QED
  BY <1>1, <1>4, <1>6 DEF Elems

\* One thread goes from one step of a call to another.
LEMMA ThreadMoves ==
  ASSUME MetalThreads, NEW t \in Threads, NEW r \in MetalThread, pc' = [pc EXCEPT ![t] = r],
         r.at = "release" => r.buf \in Buffer \ Metal!Releasing
  PROVE  /\ MetalThreads'
         /\ r.at = "release" /\ pc[t].at # "release"
              => Metal!Releasing' = Metal!Releasing \cup {r.buf}
         /\ r.at # "release" /\ pc[t].at # "release" => Metal!Releasing' = Metal!Releasing
         /\ r.at # "release" /\ pc[t].at = "release"
              => pc[t].buf \in Metal!Releasing /\ Metal!Releasing' = Metal!Releasing \ {pc[t].buf}
         /\ r.at = "allocate" => Allocating' = Allocating \cup {t}
         /\ r.at # "allocate" => Allocating' = Allocating \ {t}
<1> USE DEF Metal!At
<1>1. /\ pc \in [Threads -> MetalThread] /\ pc' \in [Threads -> MetalThread]
      /\ pc'[t] = r /\ \A u \in Threads \ {t} : pc'[u] = pc[u]
  BY DEF MetalThreads
<1>2. /\ \A u \in Threads : pc[u].at = "release" => pc[u].buf \in Buffer /\ pc[u].buf \in Metal!Releasing
      /\ \A u, v \in Threads :
           pc[u].at = "release" /\ pc[v].at = "release" /\ pc[u].buf = pc[v].buf => u = v
      /\ \A b \in Metal!Releasing : \E u \in Threads : pc[u].at = "release" /\ pc[u].buf = b
  BY DEF MetalThreads, Metal!Releasing
<1>3. /\ \A u \in Threads : pc'[u].at = "release" => pc'[u].buf \in Buffer
      /\ \A u, v \in Threads :
           pc'[u].at = "release" /\ pc'[v].at = "release" /\ pc'[u].buf = pc'[v].buf => u = v
  BY <1>1, <1>2
<1>4. MetalThreads'
  BY <1>1, <1>3 DEF MetalThreads
<1>5. \A b : b \in Metal!Releasing' <=> \E u \in Threads : pc'[u].at = "release" /\ pc'[u].buf = b
  BY DEF Metal!Releasing
<1>6. r.at = "release" /\ pc[t].at # "release" => Metal!Releasing' = Metal!Releasing \cup {r.buf}
  BY <1>1, <1>2, <1>5
<1>7. r.at # "release" /\ pc[t].at # "release" => Metal!Releasing' = Metal!Releasing
  BY <1>1, <1>2, <1>5
<1>8. r.at # "release" /\ pc[t].at = "release"
        => pc[t].buf \in Metal!Releasing /\ Metal!Releasing' = Metal!Releasing \ {pc[t].buf}
  <2> SUFFICES ASSUME r.at # "release", pc[t].at = "release"
               PROVE  pc[t].buf \in Metal!Releasing /\ Metal!Releasing' = Metal!Releasing \ {pc[t].buf}
    OBVIOUS
  <2>1. pc[t].buf \in Metal!Releasing
    BY <1>2
  <2>2. \A b : b \in Metal!Releasing' => b \in Metal!Releasing /\ b # pc[t].buf
    BY <1>1, <1>2, <1>5
  <2>3. \A b : b \in Metal!Releasing /\ b # pc[t].buf => b \in Metal!Releasing'
    BY <1>1, <1>2, <1>5
  <2> QED
    BY <2>1, <2>2, <2>3
<1>9. /\ r.at = "allocate" => Allocating' = Allocating \cup {t}
      /\ r.at # "allocate" => Allocating' = Allocating \ {t}
  BY <1>1 DEF Allocating
<1> QED
  BY <1>4, <1>6, <1>7, <1>8, <1>9

\* The states a thread goes to.
LEMMA MetalIdle ==
  /\ Metal!Idle \in MetalThread /\ Metal!Idle.at = "idle"
  /\ \A size \in Nat :
       LET r == [at |-> "allocate", size |-> size, buf |-> NoBuffer]
       IN  r \in MetalThread /\ r.at = "allocate"
  /\ \A b \in Buffer :
       LET r == [at |-> "release", size |-> 0, buf |-> b]
       IN  r \in MetalThread /\ r.at = "release" /\ r.buf = b
  BY DEF Metal!Idle, MetalThread

\* The bound on the resources, as their number and that of the threads that
\* are about to add one change together.
LEMMA BoundKeeps ==
  ASSUME NEW n \in Int, NEW k \in Int, n <= k,
         NEW A \in SUBSET Threads, NEW B \in SUBSET Threads, IsFiniteSet(Threads),
         k + Cardinality(A) <= ResourceLimit - 1 + Cardinality(Threads), ResourceLimit \in Nat
  PROVE  /\ B \subseteq A => n + Cardinality(B) <= ResourceLimit - 1 + Cardinality(Threads)
         /\ \A t \in A : B = A \ {t}
              => n + 1 + Cardinality(B) <= ResourceLimit - 1 + Cardinality(Threads)
<1>1. IsFiniteSet(A) /\ IsFiniteSet(B)
  BY FS_Subset
<1>2. /\ Cardinality(A) \in Nat /\ Cardinality(B) \in Nat /\ Cardinality(Threads) \in Nat
      /\ B \subseteq A => Cardinality(B) <= Cardinality(A)
      /\ \A t \in A : Cardinality(A \ {t}) = Cardinality(A) - 1
  BY <1>1, FS_CardinalityType, FS_Subset, FS_RemoveElement
<1>3. PICK i \in Nat, j \in Nat, l \in Nat :
        i = Cardinality(A) /\ j = Cardinality(B) /\ l = Cardinality(Threads)
  BY <1>2
<1>4. k + i <= ResourceLimit - 1 + l /\ (B \subseteq A => j <= i)
  BY <1>2, <1>3
<1>5. \A t \in A : B = A \ {t} => j = i - 1
  BY <1>2, <1>3
<1>6. /\ j <= i => n + j <= ResourceLimit - 1 + l
      /\ j = i - 1 => n + 1 + j <= ResourceLimit - 1 + l
  BY <1>4
<1> QED
  BY <1>3, <1>4, <1>5, <1>6

\* The constructor of MetalAllocator.
LEMMA MetalInit ==
  ASSUME Metal!Init
  PROVE  MetalInv
<1>0. /\ IsFiniteSet(Threads) /\ ResourceLimit \in Nat \ {0}
      /\ MetalLimits \subseteq Nat /\ Recommended \in Nat
  BY ConstantsOK
<1>1. /\ memory = Metal!InitMemory /\ held = {} /\ pc = [t \in Threads |-> Metal!Idle]
  BY DEF Metal!Init
<1>2. Metal!Releasing = {} /\ Allocating = {}
  BY <1>1, MetalIdle DEF Metal!Releasing, Metal!At, Allocating
<1>3. MetalThreads
  BY <1>1, MetalIdle DEF MetalThreads, Metal!At
<1>4. MetalLimitsOK
  <2>1. PICK block \in MetalLimits :
          limits = [maxPool |-> block, block |-> block, gc |-> Metal!Min({Recommended, block})]
    BY DEF Metal!Init
  <2>2. {Recommended, block} \in SUBSET Nat /\ block \in Nat
    BY <1>0
  <2>3. Metal!Min({Recommended, block}) \in Nat
    BY <2>2, MetalMinIs
  <2> QED
    BY <2>1, <2>2, <2>3 DEF MetalLimitsOK
<1>5. PICK c : c = Cache!EmptyCache
  OBVIOUS
<1>6. WellFormed(c) /\ c.pool = <<>>
  BY <1>5, EmptyIsWellFormed
<1>7. PICK z : z = {Metal!HeapObject}
  OBVIOUS
<1>8. memory = [cache |-> c, active |-> 0, numResources |-> 0, wired |-> {}, unwired |-> z,
                capacity |-> 0, live |-> {}]
  BY <1>1, <1>5, <1>7, MetalCache DEF Metal!InitMemory
<1>9. /\ memory.cache = c /\ memory.active = 0 /\ memory.numResources = 0
      /\ memory.wired = {} /\ memory.unwired = z /\ memory.capacity = 0 /\ memory.live = {}
  BY <1>8
<1>10. memory \in MetalMemory
  BY <1>6, <1>7, <1>8 DEF MetalMemory, WellFormed, Residents
<1>11. Cache!Bytes({}) = 0
  BY BytesFacts, FS_EmptySet DEF AllSized
<1>12. Elems(c.pool) = {} /\ Len(c.pool) = 0
  BY <1>6 DEF Elems
<1>13. MetalOwns(memory, {}, {})
  BY <1>6, <1>9, <1>11, <1>12, FS_EmptySet DEF MetalOwns
<1>14. MetalResident(memory, {})
  BY <1>7, <1>9, <1>11, <1>12 DEF MetalResident
<1>15. MetalBounded
  <2>1. Cardinality(Allocating) = 0 /\ Cardinality(Threads) \in Nat
    BY <1>0, <1>2, FS_EmptySet, FS_CardinalityType
  <2> QED
    BY <1>0, <1>9, <2>1 DEF MetalBounded
<1> QED
  BY <1>1, <1>2, <1>3, <1>4, <1>10, <1>13, <1>14, <1>15 DEF MetalInv, MetalMemoryOK

\* The types that follow from the invariant.
LEMMA MetalFacts ==
  ASSUME MetalInv
  PROVE  /\ memory \in MetalMemory /\ memory.cache \in Caches /\ memory.numResources \in Int
         /\ memory.cache.size \in Nat /\ memory.active \in Int
         /\ limits.maxPool \in Nat /\ limits.gc \in Int
         /\ held \subseteq Buffer /\ WellFormed(memory.cache)
         /\ pc \in [Threads -> MetalThread] /\ Allocating \subseteq Threads
         /\ IsFiniteSet(Threads) /\ ResourceLimit \in Nat
<1>1. memory \in MetalMemory /\ MetalOwns(memory, held, Metal!Releasing)
  BY DEF MetalInv, MetalMemoryOK
<1>2. /\ memory.cache \in Caches /\ memory.numResources \in Int /\ memory.active \in Int
  BY <1>1 DEF MetalMemory
<1>3. memory.cache.size \in Nat
  BY <1>2, CachesFields
<1>4. limits.maxPool \in Nat /\ limits.gc \in Int
  BY DEF MetalInv, MetalLimitsOK
<1>5. held \subseteq Buffer /\ WellFormed(memory.cache)
  BY <1>1 DEF MetalOwns
<1>6. pc \in [Threads -> MetalThread] /\ Allocating \subseteq Threads
  BY DEF MetalInv, MetalThreads, Allocating
<1>7. IsFiniteSet(Threads) /\ ResourceLimit \in Nat
  BY ConstantsOK
<1> QED
  BY <1>1, <1>2, <1>3, <1>4, <1>5, <1>6, <1>7

\* What a step has to show.
LEMMA MetalStep ==
  ASSUME MetalInv, NEW R, MetalMemoryOK(memory', held', R), R = Metal!Releasing',
         MetalThreads', MetalLimitsOK',
         \/ memory'.numResources <= memory.numResources /\ Allocating' \subseteq Allocating
         \/ memory'.numResources < ResourceLimit
         \/ /\ memory'.numResources <= memory.numResources + 1
            /\ \E t \in Allocating : Allocating' = Allocating \ {t}
  PROVE  MetalInv'
<1>1. memory'.numResources \in Int /\ Allocating' \in SUBSET Threads
  <2>1. memory' \in MetalMemory
    BY DEF MetalMemoryOK
  <2> QED
    BY <2>1 DEF MetalMemory, Allocating
<1>2. PICK n \in Int, k \in Int, A \in SUBSET Threads, B \in SUBSET Threads :
        n = memory'.numResources /\ k = memory.numResources /\ A = Allocating /\ B = Allocating'
  BY <1>1, MetalFacts
<1>3. /\ IsFiniteSet(Threads) /\ ResourceLimit \in Nat
      /\ k + Cardinality(A) <= ResourceLimit - 1 + Cardinality(Threads)
  BY <1>2, MetalFacts DEF MetalInv, MetalBounded
<1>4. n + Cardinality(B) <= ResourceLimit - 1 + Cardinality(Threads)
  <2>1. CASE n <= k /\ B \subseteq A
    BY <1>3, <2>1, BoundKeeps
  <2>2. CASE n < ResourceLimit
    <3>1. n <= n
      OBVIOUS
    <3>2. /\ Cardinality(B) \in Nat /\ Cardinality(Threads) \in Nat
          /\ Cardinality(B) <= Cardinality(Threads)
      BY <1>3, FS_CardinalityType, FS_Subset
    <3> QED
      BY <1>3, <2>2, <3>2
  <2>3. CASE n <= k + 1 /\ \E t \in A : B = A \ {t}
    <3>1. PICK i \in Int : i = n - 1
      OBVIOUS
    <3>2. i <= k
      BY <2>3, <3>1
    <3>3. i + 1 + Cardinality(B) <= ResourceLimit - 1 + Cardinality(Threads)
      BY <1>3, <2>3, <3>2, BoundKeeps
    <3>4. i + 1 = n
      BY <3>1
    <3> QED
      BY <3>3, <3>4
  <2> QED
    BY <1>2, <2>1, <2>2, <2>3
<1>5. MetalBounded'
  BY <1>2, <1>4 DEF MetalBounded
<1> QED
  BY <1>5 DEF MetalInv

\* malloc that finds a buffer in the cache.
LEMMA MallocFromCacheKeeps ==
  ASSUME MetalInv, NEW t \in Threads, NEW size, Metal!MallocFromCache(t, size)
  PROVE  MetalInv' /\ memory'.cache.size <= limits.maxPool
<1>1. PICK b : b = Metal!Reusable(memory.cache, size)
  OBVIOUS
<1>2. /\ Metal!At(t, "idle") /\ b # NoBuffer
      /\ Metal!Return(t, [memory EXCEPT !.cache = Metal!TakeOut(memory.cache, b)], b)
  BY <1>1 DEF Metal!MallocFromCache
<1>3. b \in Elems(memory.cache.pool)
  BY <1>1, <1>2, MetalReusableIs, MetalFacts
<1>4. PICK d, n, c : /\ d = Cache!TakeOut(memory.cache, b)
                     /\ n = WithCache(memory, d) /\ c = WithActive(n, n.active + b.size)
  OBVIOUS
<1>5. PICK R : R = Metal!Releasing /\ MetalMemoryOK(memory, held, R)
  BY DEF MetalInv
<1>6. /\ b \in Buffer /\ n \in MetalMemory /\ n.numResources = memory.numResources
      /\ MetalMemoryOK(c, held \cup {b}, R)
  BY <1>3, <1>4, <1>5, ReusedKeeps
<1>7. /\ memory' = Metal!Counted(n, b) /\ held' = held \cup {b} /\ limits' = limits
      /\ pc' = [pc EXCEPT ![t] = Metal!Idle]
  BY <1>2, <1>4, MetalCache DEF Metal!Return, WithCache
<1>8. /\ MetalMemoryOK(memory', held \cup {b}, R) /\ memory'.numResources <= n.numResources
      /\ memory'.cache.size <= limits.maxPool
  <2>1. limits.maxPool \in Nat
    BY MetalFacts
  <2> QED
    BY <1>4, <1>6, <1>7, <2>1, CountedKeeps
<1>9. MetalThreads' /\ R = Metal!Releasing' /\ Allocating' \subseteq Allocating
  BY <1>2, <1>5, <1>7, MetalIdle, ThreadMoves DEF MetalInv, Metal!At
<1>10. MetalLimitsOK'
  BY <1>7 DEF MetalInv, MetalLimitsOK
<1> QED
  BY <1>6, <1>7, <1>8, <1>9, <1>10, MetalStep

\* malloc that finds none, up to where it lets go of the mutex.
LEMMA MallocMissKeeps ==
  ASSUME MetalInv, NEW t \in Threads, NEW size \in Nat, Metal!MallocMiss(t, size)
  PROVE  MetalInv'
<1>1. PICK R : R = Metal!Releasing /\ MetalMemoryOK(memory, held, R)
  BY DEF MetalInv
<1>2. PICK min : min = (Metal!Required(size) - limits.gc) % WordSize
  OBVIOUS
<1>3. min \in Int
  <2>1. Metal!Required(size) \in Int
    BY MetalFacts DEF Metal!Required
  <2>2. limits.gc \in Int /\ WordSize \in Nat \ {0}
    BY MetalFacts, ConstantsOK
  <2> QED
    BY <1>2, <2>1, <2>2
<1>4. /\ Metal!At(t, "idle") /\ held' = held /\ limits' = limits
      /\ memory' = memory \/ memory' = Metal!Released(memory, min)
      /\ \/ memory'.numResources >= ResourceLimit /\ pc' = pc
         \/ /\ ~(memory'.numResources >= ResourceLimit)
            /\ pc' = [pc EXCEPT ![t] = [at |-> "allocate", size |-> size, buf |-> NoBuffer]]
  BY <1>2 DEF Metal!MallocMiss
<1>5. /\ MetalMemoryOK(memory', held, R) /\ memory'.numResources <= memory.numResources
      /\ memory'.numResources \in Int
  <2>1. CASE memory' = memory
    BY <1>1, <2>1, MetalFacts
  <2>2. CASE memory' = Metal!Released(memory, min)
    <3>1. MetalMemoryOK(memory', held, R) /\ memory'.numResources <= memory.numResources
      BY <1>1, <1>3, <2>2, ReleasedKeeps
    <3>2. memory' \in MetalMemory
      BY <3>1 DEF MetalMemoryOK
    <3> QED
      BY <3>1, <3>2 DEF MetalMemory
  <2> QED
    BY <1>4, <2>1, <2>2
<1>6. MetalLimitsOK'
  BY <1>4 DEF MetalInv, MetalLimitsOK
<1>7. CASE pc' = pc
  <2>1. MetalThreads' /\ R = Metal!Releasing' /\ Allocating' = Allocating
    BY <1>1, <1>7 DEF MetalInv, MetalThreads, Metal!Releasing, Metal!At, Allocating
  <2> QED
    BY <1>4, <1>5, <1>6, <2>1, MetalStep
<1>8. CASE /\ ~(memory'.numResources >= ResourceLimit)
           /\ pc' = [pc EXCEPT ![t] = [at |-> "allocate", size |-> size, buf |-> NoBuffer]]
  <2>1. PICK r : r = [at |-> "allocate", size |-> size, buf |-> NoBuffer]
    OBVIOUS
  <2>2. r \in MetalThread /\ r.at = "allocate" /\ pc' = [pc EXCEPT ![t] = r]
    BY <1>8, <2>1, MetalIdle
  <2>3. MetalThreads' /\ R = Metal!Releasing'
    BY <1>1, <1>4, <2>2, ThreadMoves DEF MetalInv, Metal!At
  <2>4. memory'.numResources < ResourceLimit
    BY <1>5, <1>8, MetalFacts
  <2> QED
    BY <1>4, <1>5, <1>6, <2>3, <2>4, MetalStep
<1> QED
  BY <1>4, <1>7, <1>8

\* The rest of malloc, with the buffer the device gave.
LEMMA MallocNewKeeps ==
  ASSUME MetalInv, NEW t \in Threads, Metal!MallocNew(t)
  PROVE  MetalInv' /\ memory'.cache.size <= limits.maxPool
<1>1. PICK R : R = Metal!Releasing /\ MetalMemoryOK(memory, held, R)
  BY DEF MetalInv
<1>2. PICK free : free = MetalIds \ {b.id : b \in memory.live}
  OBVIOUS
<1>3. PICK where, b : /\ where \in {"heap", "device"} /\ free # {}
                      /\ b = [id |-> Metal!Min(free), size |-> pc[t].size, where |-> where]
                      /\ Metal!Return(t, Metal!Insert([memory EXCEPT
                           !.numResources = memory.numResources + 1,
                           !.live = memory.live \cup {b}], b), b)
  BY <1>2 DEF Metal!MallocNew
<1>4. Metal!At(t, "allocate") /\ pc[t].size \in Nat
  BY MetalFacts DEF Metal!MallocNew, MetalThread
<1>5. Metal!Min(free) \in free /\ Metal!Min(free) \in Nat
  BY <1>2, <1>3, MetalMinIs, ConstantsOK
<1>6. b \in Buffer /\ b \notin memory.live /\ b.where \in {"heap", "device"}
  <2>1. b \in Buffer /\ b.where = where
    <3>1. PICK id \in Int, size \in Nat : id = Metal!Min(free) /\ size = pc[t].size
      BY <1>4, <1>5
    <3>2. b = [id |-> id, size |-> size, where |-> where] /\ where \in Places
      BY <1>3, <3>1 DEF Places
    <3> QED
      BY <3>2 DEF Buffer
  <2>2. b.id = Metal!Min(free)
    BY <1>3
  <2>3. b.id \notin {x.id : x \in memory.live}
    BY <1>2, <1>5, <2>2
  <2> QED
    BY <1>3, <2>1, <2>3
<1>7. PICK o, n, c : /\ o = WithNew(memory, b) /\ n = Metal!Insert(o, b)
                     /\ c = WithActive(n, n.active + b.size)
  OBVIOUS
<1>8. /\ n \in MetalMemory /\ n.numResources = memory.numResources + 1
      /\ MetalMemoryOK(c, held \cup {b}, R)
  BY <1>1, <1>6, <1>7, NewKeeps
<1>9. /\ memory' = Metal!Counted(n, b) /\ held' = held \cup {b} /\ limits' = limits
      /\ pc' = [pc EXCEPT ![t] = Metal!Idle]
  BY <1>3, <1>7 DEF Metal!Return, WithNew
<1>10. /\ MetalMemoryOK(memory', held \cup {b}, R) /\ memory'.numResources <= n.numResources
       /\ memory'.cache.size <= limits.maxPool
  <2>1. limits.maxPool \in Nat
    BY MetalFacts
  <2> QED
    BY <1>6, <1>7, <1>8, <1>9, <2>1, CountedKeeps
<1>11. MetalThreads' /\ R = Metal!Releasing' /\ Allocating' = Allocating \ {t}
  BY <1>1, <1>4, <1>9, MetalIdle, ThreadMoves DEF MetalInv, Metal!At
<1>12. MetalLimitsOK' /\ t \in Allocating
  BY <1>4, <1>9 DEF MetalInv, MetalLimitsOK, Allocating
<1>13. MetalInv'
  BY <1>8, <1>9, <1>10, <1>11, <1>12, MetalStep
<1> QED
  BY <1>10, <1>13

\* The rest of malloc when the device gave none.
LEMMA MallocFailsKeeps ==
  ASSUME MetalInv, NEW t \in Threads, Metal!MallocFails(t)
  PROVE  MetalInv'
<1>1. PICK R : R = Metal!Releasing /\ MetalMemoryOK(memory, held, R)
  BY DEF MetalInv
<1>2. /\ Metal!At(t, "allocate") /\ pc' = [pc EXCEPT ![t] = Metal!Idle]
      /\ memory' = memory /\ limits' = limits /\ held' = held
  BY DEF Metal!MallocFails
<1>3. MetalThreads' /\ R = Metal!Releasing' /\ Allocating' \subseteq Allocating
  BY <1>1, <1>2, MetalIdle, ThreadMoves DEF MetalInv, Metal!At
<1>4. MetalLimitsOK'
  BY <1>2 DEF MetalInv, MetalLimitsOK
<1>5. memory'.numResources <= memory.numResources
  BY <1>2, MetalFacts
<1> QED
  BY <1>1, <1>2, <1>3, <1>4, <1>5, MetalStep

\* free, into the cache or, past the limit, out of it.
LEMMA FreeKeeps ==
  ASSUME MetalInv, NEW t \in Threads, NEW b \in held, Metal!Free(t, b)
  PROVE  MetalInv' /\ held' \subseteq held
<1>1. PICK R : R = Metal!Releasing /\ MetalMemoryOK(memory, held, R)
  BY DEF MetalInv
<1>2. PICK o : o = WithActive(memory, memory.active - b.size)
  OBVIOUS
<1>3. Metal!At(t, "idle") /\ held' = held \ {b} /\ limits' = limits
  BY DEF Metal!Free
<1>4. MetalLimitsOK'
  BY <1>3 DEF MetalInv, MetalLimitsOK
<1>5. CASE /\ memory' = WithCache(o, Metal!RecycleToCache(o.cache, b)) /\ pc' = pc
  <2>1. MetalMemoryOK(memory', held', R) /\ memory'.numResources = memory.numResources
    <3>1. MetalMemoryOK(memory', held \ {b}, R) /\ memory'.numResources = memory.numResources
      BY <1>1, <1>2, <1>5, RecycledKeeps
    <3> QED
      BY <1>3, <3>1
  <2>2. MetalThreads' /\ R = Metal!Releasing' /\ Allocating' = Allocating
    BY <1>1, <1>5 DEF MetalInv, MetalThreads, Metal!Releasing, Metal!At, Allocating
  <2>3. memory'.numResources <= memory.numResources
    BY <2>1, MetalFacts
  <2> QED
    BY <1>3, <1>4, <2>1, <2>2, <2>3, MetalStep
<1>6. CASE /\ memory' = Metal!Erase([o EXCEPT !.numResources = o.numResources - 1], {b})
           /\ pc' = [pc EXCEPT ![t] = [at |-> "release", size |-> 0, buf |-> b]]
  <2>1. /\ MetalMemoryOK(memory', held', R \cup {b})
        /\ memory'.numResources = memory.numResources - 1
    <3>1. memory' = Metal!Erase([o EXCEPT !.numResources = o.numResources - 1], {b})
      BY <1>6
    <3>2. /\ MetalMemoryOK(memory', held \ {b}, R \cup {b})
          /\ memory'.numResources = memory.numResources - 1
      BY <1>1, <1>2, <3>1, ErasedKeeps
    <3> QED
      BY <1>3, <3>2
  <2>2. b \in Buffer /\ b \notin R
    BY <1>1 DEF MetalMemoryOK, MetalOwns
  <2>3. PICK r : r = [at |-> "release", size |-> 0, buf |-> b]
    OBVIOUS
  <2>4. r \in MetalThread /\ r.at = "release" /\ r.buf = b /\ pc' = [pc EXCEPT ![t] = r]
    BY <1>6, <2>2, <2>3, MetalIdle
  <2>5. MetalThreads' /\ Metal!Releasing' = R \cup {b} /\ Allocating' \subseteq Allocating
    BY <1>1, <1>3, <2>2, <2>4, ThreadMoves DEF MetalInv, Metal!At
  <2>6. memory'.numResources <= memory.numResources
    BY <2>1, MetalFacts
  <2> QED
    BY <1>3, <1>4, <2>1, <2>5, <2>6, MetalStep
<1> QED
  BY <1>2, <1>3, <1>5, <1>6 DEF Metal!Free, WithActive, WithCache

\* The part of free after the mutex: the buffer goes back to the device.
LEMMA ReleaseBufferKeeps ==
  ASSUME MetalInv, NEW t \in Threads, Metal!ReleaseBuffer(t)
  PROVE  MetalInv'
<1>1. PICK R : R = Metal!Releasing /\ MetalMemoryOK(memory, held, R)
  BY DEF MetalInv
<1>2. PICK b : b = pc[t].buf
  OBVIOUS
<1>3. /\ Metal!At(t, "release") /\ pc' = [pc EXCEPT ![t] = Metal!Idle]
      /\ memory' = [memory EXCEPT !.live = memory.live \ {b}] /\ limits' = limits /\ held' = held
  BY <1>2 DEF Metal!ReleaseBuffer
<1>4. MetalThreads' /\ b \in R /\ Metal!Releasing' = R \ {b} /\ Allocating' \subseteq Allocating
  <2>1. MetalThreads /\ pc[t].at = "release"
    BY <1>3 DEF MetalInv, Metal!At
  <2>2. PICK r \in MetalThread : r = Metal!Idle /\ r.at = "idle"
    BY MetalIdle
  <2>3. pc' = [pc EXCEPT ![t] = r] /\ r.at # "release" /\ r.at # "allocate"
    BY <1>3, <2>2
  <2>4. MetalThreads' /\ pc[t].buf \in Metal!Releasing
        /\ Metal!Releasing' = Metal!Releasing \ {pc[t].buf} /\ Allocating' = Allocating \ {t}
    BY <2>1, <2>3, ThreadMoves
  <2> QED
    BY <1>1, <1>2, <2>4
<1>5. MetalMemoryOK(memory', held', R \ {b}) /\ memory'.numResources = memory.numResources
  BY <1>1, <1>3, <1>4, GoneKeeps
<1>6. MetalLimitsOK'
  BY <1>3 DEF MetalInv, MetalLimitsOK
<1>7. memory'.numResources <= memory.numResources
  BY <1>5, MetalFacts
<1> QED
  BY <1>4, <1>5, <1>6, <1>7, MetalStep

\* The calls that change a limit or empty the cache, by any thread.
LEMMA SettingsKeep ==
  ASSUME MetalInv,
         \/ \E n \in MetalLimits :
              Metal!SetCacheLimit(n) \/ Metal!SetMemoryLimit(n) \/ Metal!SetWiredLimit(n)
         \/ Metal!ClearCache
  PROVE  MetalInv' /\ held' = held
<1>1. PICK R : R = Metal!Releasing /\ MetalMemoryOK(memory, held, R)
  BY DEF MetalInv
<1>2. held' = held /\ pc' = pc
  BY DEF Metal!SetCacheLimit, Metal!SetMemoryLimit, Metal!SetWiredLimit, Metal!ClearCache
<1>3. MetalThreads' /\ R = Metal!Releasing' /\ Allocating' = Allocating
  BY <1>1, <1>2 DEF MetalInv, MetalThreads, Metal!Releasing, Metal!At, Allocating
<1>4. MetalLimitsOK /\ Recommended \in Nat /\ MetalLimits \subseteq Nat
  BY ConstantsOK DEF MetalInv
<1>5. MetalLimitsOK'
  <2>1. CASE limits' = limits
    BY <1>4, <2>1 DEF MetalLimitsOK
  <2>2. ASSUME NEW n \in MetalLimits, limits' = [limits EXCEPT !.maxPool = n]
        PROVE  MetalLimitsOK'
    BY <1>4, <2>2 DEF MetalLimitsOK
  <2>3. ASSUME NEW n \in MetalLimits,
               limits' = [limits EXCEPT !.block = n, !.gc = Metal!Min({n, Recommended})]
        PROVE  MetalLimitsOK'
    <3>1. {n, Recommended} \in SUBSET Nat /\ n \in Nat
      BY <1>4
    <3>2. Metal!Min({n, Recommended}) \in Nat
      BY <3>1, MetalMinIs
    <3> QED
      BY <1>4, <2>3, <3>1, <3>2 DEF MetalLimitsOK
  <2> QED
    BY <2>1, <2>2, <2>3
       DEF Metal!SetCacheLimit, Metal!SetMemoryLimit, Metal!SetWiredLimit, Metal!ClearCache
<1>6. MetalMemoryOK(memory', held, R) /\ memory'.numResources <= memory.numResources
  <2>1. CASE memory' = memory
    BY <1>1, <2>1, MetalFacts
  <2>2. ASSUME NEW n \in MetalLimits, memory' \in Metal!Resized(memory, n)
        PROVE  MetalMemoryOK(memory', held, R) /\ memory'.numResources <= memory.numResources
    <3>1. n \in Nat
      BY <1>4
    <3>2. MetalMemoryOK(memory', held, R) /\ memory'.numResources = memory.numResources
      BY <1>1, <2>2, <3>1, ResizedKeeps
    <3> QED
      BY <3>2, MetalFacts
  <2>3. CASE Metal!ClearCache
    <3>1. PICK r : r = [cache |-> Cache!EmptyCache, freed |-> memory.cache.pool]
      OBVIOUS
    <3>2. Left(memory.cache, r)
      BY <3>1, ClearedKeeps, MetalFacts
    <3>3. memory' = Metal!Collected(memory, r)
      BY <2>3, <3>1, MetalCache DEF Metal!ClearCache
    <3> QED
      BY <1>1, <3>2, <3>3, CollectedKeeps
  <2> QED
    BY <2>1, <2>2, <2>3
       DEF Metal!SetCacheLimit, Metal!SetMemoryLimit, Metal!SetWiredLimit
<1> QED
  BY <1>2, <1>3, <1>5, <1>6, MetalStep

\* A malloc leaves the cache within its limit.
LEMMA MetalNext ==
  ASSUME MetalInv, Metal!Next
  PROVE  MetalInv' /\ (held' \ held # {} => memory'.cache.size <= limits.maxPool)
<1>1. ASSUME NEW t \in Threads, NEW size \in {Metal!Align(r) : r \in MetalRequests},
             Metal!MallocFromCache(t, size) \/ Metal!MallocMiss(t, size)
      PROVE  MetalInv' /\ (held' \ held # {} => memory'.cache.size <= limits.maxPool)
  <2>1. size \in Nat
    <3>1. PICK r \in Nat : size = Metal!Align(r)
      BY ConstantsOK
    <3>2. (r + 2 - 1) \div 2 \in Nat
      OBVIOUS
    <3> QED
      BY <3>1, <3>2 DEF Metal!Align
  <2>2. CASE Metal!MallocFromCache(t, size)
    BY <2>2, MallocFromCacheKeeps
  <2>3. CASE Metal!MallocMiss(t, size)
    <3>1. held' = held
      BY <2>3 DEF Metal!MallocMiss
    <3> QED
      BY <2>1, <2>3, <3>1, MallocMissKeeps
  <2> QED
    BY <1>1, <2>2, <2>3
<1>2. ASSUME NEW t \in Threads, Metal!MallocNew(t)
      PROVE  MetalInv' /\ (held' \ held # {} => memory'.cache.size <= limits.maxPool)
  BY <1>2, MallocNewKeeps
<1>3. ASSUME NEW t \in Threads, Metal!MallocFails(t)
      PROVE  MetalInv' /\ held' = held
  BY <1>3, MallocFailsKeeps DEF Metal!MallocFails
<1>4. ASSUME NEW t \in Threads, NEW b \in held, Metal!Free(t, b)
      PROVE  MetalInv' /\ held' \subseteq held
  BY <1>4, FreeKeeps
<1>5. ASSUME NEW t \in Threads, Metal!ReleaseBuffer(t)
      PROVE  MetalInv' /\ held' = held
  BY <1>5, ReleaseBufferKeeps DEF Metal!ReleaseBuffer
<1>6. ASSUME \/ \E n \in MetalLimits :
                  Metal!SetCacheLimit(n) \/ Metal!SetMemoryLimit(n) \/ Metal!SetWiredLimit(n)
             \/ Metal!ClearCache
      PROVE  MetalInv' /\ held' = held
  BY <1>6, SettingsKeep
<1> QED
  BY <1>1, <1>2, <1>3, <1>4, <1>5, <1>6 DEF Metal!Next, Metal!Malloc

-----------------------------------------------------------------------------
(* The CUDA allocator *)

\* Its cache is the buffer cache.
LEMMA CudaCache ==
  /\ Cuda!EmptyCache = Cache!EmptyCache
  /\ \A c, b : Cuda!TakeOut(c, b) = Cache!TakeOut(c, b)
  /\ \A c, b : Cuda!RecycleToCache(c, b) = Cache!RecycleToCache(c, b)
  /\ \A c, min : Cuda!ReleaseCachedBuffers(c, min) = Cache!ReleaseCachedBuffers(c, min)
  /\ \A c : Cuda!Cached(c) = Elems(c.pool)
  /\ \A s : Cuda!ToSet(s) = Elems(s)
  /\ \A c : Cuda!Consistent(c) = Cache!Consistent(c)
<1> USE DEF Cuda!EmptyCache, Cache!EmptyCache, Cuda!RemoveFromList, Cache!RemoveFromList,
            Cuda!TakeOut, Cache!TakeOut, Cuda!Without, Cache!Without,
            Cuda!Restrict, Cache!Restrict, Cuda!RemoveAt, Cache!RemoveAt
<1>1. /\ Cuda!EmptyCache = Cache!EmptyCache
      /\ \A c, b : Cuda!TakeOut(c, b) = Cache!TakeOut(c, b)
  OBVIOUS
<1>2. \A c, min : Cuda!ReleaseCachedBuffers(c, min) = Cache!ReleaseCachedBuffers(c, min)
  BY DEF Cuda!ReleaseCachedBuffers, Cache!ReleaseCachedBuffers
<1>3. \A c, b : Cuda!RecycleToCache(c, b) = Cache!RecycleToCache(c, b)
  BY DEF Cuda!RecycleToCache, Cache!RecycleToCache, Cuda!InsertAt, Cache!InsertAt,
         Cuda!AddAtHead, Cache!AddAtHead, Cuda!Cardinality, Cache!Cardinality
<1>4. /\ \A c : Cuda!Cached(c) = Elems(c.pool)
      /\ \A s : Cuda!ToSet(s) = Elems(s)
  BY DEF Cuda!Cached, Cuda!ToSet, Elems
<1>5. \A c : Cuda!Consistent(c) = Cache!Consistent(c)
  BY DEF Cuda!Consistent, Cache!Consistent, Cuda!WalkOf, Cache!WalkOf, Cuda!ToSet, Cache!ToSet,
         Cuda!Cached, Cache!Cached, Cuda!Reverse, Cache!Reverse, Cuda!Bytes, Cache!Bytes,
         Cuda!MapThenSumSet, Cache!MapThenSumSet, Cuda!MapThenFoldSet, Cache!MapThenFoldSet,
         Cuda!Cardinality, Cache!Cardinality
<1> QED
  BY <1>1, <1>2, <1>3, <1>4, <1>5

\* The least of a set of sizes.
LEMMA CudaMinIs ==
  ASSUME NEW S \in SUBSET Nat, S # {}
  PROVE  Cuda!Min(S) \in S /\ Cuda!Min(S) \in Nat
<1>1. \E n \in S : \A k \in S : n <= k
  BY LeastNat
<1>2. Cuda!Min(S) \in S
  BY <1>1 DEF Cuda!Min
<1> QED
  BY <1>2

\* reuse_from_cache finds a buffer of the cache.
LEMMA CudaReusableIs ==
  ASSUME NEW c \in Caches, NEW size, NEW b, b = Cuda!Reusable(c, size), b # NoBuffer
  PROVE  b \in Elems(c.pool)
<1>1. PICK S : S = {i \in DOMAIN c.pool : c.pool[i].size >= size}
  OBVIOUS
<1>2. DOMAIN c.pool \subseteq Nat
  <2>1. c.pool \in Seq(Buffer)
    BY CachesFields
  <2>2. DOMAIN c.pool = 1 .. Len(c.pool) /\ Len(c.pool) \in Nat
    BY <2>1
  <2> QED
    BY <2>2
<1>3. PICK i : i = Cuda!LowerBound(c, size)
  OBVIOUS
<1>4. i # 0 /\ b = c.pool[i]
  BY <1>3 DEF Cuda!Reusable
<1>5. S # {} /\ i = Cuda!Min(S)
  BY <1>1, <1>3, <1>4 DEF Cuda!LowerBound
<1>6. i \in S
  BY <1>1, <1>2, <1>5, CudaMinIs
<1> QED
  BY <1>1, <1>4, <1>6 DEF Elems

\* The size malloc looks for; a page is four blocks.
LEMMA RoundedIs ==
  ASSUME NEW n \in Nat
  PROVE  Cuda!Rounded(n) \in Nat
<1>1. CASE n <= 1
  BY <1>1 DEF Cuda!Rounded
<1>2. CASE n = 2 \/ n = 3
  <2>1. Cuda!Rounded(n) = Cuda!NextPowerOf2(n)
    BY <1>2 DEF Cuda!Rounded
  <2>2. PICK S : S = {2 ^ k : k \in {j \in 0 .. n : 2 ^ j >= n}}
    OBVIOUS
  <2>3. 2 ^ 0 = 1 /\ 2 ^ 1 = 2 /\ 2 ^ 2 = 4 /\ 2 ^ 3 = 8
    OBVIOUS
  <2>4. 0 .. n \subseteq {0, 1, 2, 3} /\ 2 \in 0 .. n
    BY <1>2
  <2>5. S \subseteq {1, 2, 4, 8}
    BY <2>2, <2>3, <2>4
  <2>6. 4 \in S
    <3>1. 4 >= n /\ 2 ^ 2 >= n
      BY <1>2, <2>3
    <3>2. 2 ^ 2 \in S
      BY <2>2, <2>4, <3>1
    <3> QED
      BY <2>3, <3>2
  <2>7. S \in SUBSET Nat /\ S # {}
    BY <2>5, <2>6
  <2> QED
    BY <2>1, <2>2, <2>7, CudaMinIs DEF Cuda!NextPowerOf2
<1>3. CASE n >= 4
  <2>1. Cuda!Rounded(n) = 4 * ((n + 4 - 1) \div 4)
    BY <1>3 DEF Cuda!Rounded
  <2>2. (n + 4 - 1) \div 4 \in Nat
    OBVIOUS
  <2> QED
    BY <2>1, <2>2
<1> QED
  BY <1>1, <1>2, <1>3

\* The stack of blocks.
LEMMA PushIs ==
  ASSUME NEW s \in Seq(Nat), Distinct(s), NEW e \in Nat, e \notin Elems(s),
         NEW r, r = <<e>> \o s
  PROVE  r \in Seq(Nat) /\ Distinct(r) /\ Elems(r) = Elems(s) \cup {e}
<1>1. PICK N \in Nat : N = Len(s) /\ DOMAIN s = 1 .. N
  OBVIOUS
<1>2. /\ r \in Seq(Nat) /\ Len(r) = N + 1 /\ DOMAIN r = 1 .. N + 1
      /\ r[1] = e /\ \A k \in 2 .. N + 1 : r[k] = s[k - 1]
  BY <1>1
<1>3. \A k \in 2 .. N + 1 : k - 1 \in 1 .. N /\ r[k] = s[k - 1]
  BY <1>2
<1>4. \A k \in 1 .. N + 1 : k = 1 \/ k \in 2 .. N + 1
  OBVIOUS
<1>5. \A i, j \in 1 .. N : s[i] = s[j] => i = j
  BY <1>1 DEF Distinct
<1>6. Distinct(r)
  <2> SUFFICES ASSUME NEW i \in 1 .. N + 1, NEW j \in 1 .. N + 1, r[i] = r[j]
               PROVE  i = j
    BY <1>2 DEF Distinct
  <2>1. \A k \in 2 .. N + 1 : r[k] # e
    BY <1>1, <1>3 DEF Elems
  <2>2. CASE i = 1 \/ j = 1
    BY <1>2, <1>4, <2>1, <2>2
  <2>3. CASE i # 1 /\ j # 1
    <3>1. i - 1 \in 1 .. N /\ j - 1 \in 1 .. N /\ s[i - 1] = s[j - 1]
      BY <1>3, <1>4, <2>3
    <3>2. i - 1 = j - 1
      BY <1>5, <3>1
    <3> QED
      BY <3>2
  <2> QED
    BY <2>2, <2>3
<1>7. Elems(r) = Elems(s) \cup {e}
  <2>1. \A x : x \in Elems(r) => x \in Elems(s) \cup {e}
    BY <1>1, <1>2, <1>3, <1>4 DEF Elems
  <2>2. e \in Elems(r)
    BY <1>2 DEF Elems
  <2>3. \A k \in 1 .. N : s[k] \in Elems(r)
    <3> TAKE k \in 1 .. N
    <3>1. k + 1 \in 1 .. N + 1 /\ k + 1 \in 2 .. N + 1 /\ (k + 1) - 1 = k
      OBVIOUS
    <3>2. r[k + 1] = s[k]
      BY <1>2, <3>1
    <3> QED
      BY <1>2, <3>1, <3>2 DEF Elems
  <2>4. \A x : x \in Elems(s) => x \in Elems(r)
    BY <1>1, <2>3 DEF Elems
  <2> QED
    BY <2>1, <2>2, <2>4
<1> QED
  BY <1>2, <1>6, <1>7

\* A block taken from the stack of free ones.
LEMMA PopIs ==
  ASSUME NEW s \in Seq(Nat), Distinct(s), s # <<>>, NEW r, r = Tail(s), NEW e, e = Head(s)
  PROVE  /\ r \in Seq(Nat) /\ Distinct(r) /\ e \in Nat /\ e \in Elems(s)
         /\ Elems(r) = Elems(s) \ {e}
<1>1. PICK N \in Nat : N = Len(s) /\ DOMAIN s = 1 .. N
  OBVIOUS
<1>2. /\ r \in Seq(Nat) /\ N # 0 /\ Len(r) = N - 1 /\ DOMAIN r = 1 .. N - 1
      /\ e = s[1] /\ \A k \in 1 .. N - 1 : r[k] = s[k + 1]
  BY <1>1
<1>3. 1 \in 1 .. N /\ \A k \in 1 .. N - 1 : k + 1 \in 1 .. N /\ k + 1 # 1
  BY <1>2
<1>4. \A i, j \in 1 .. N : s[i] = s[j] => i = j
  BY <1>1 DEF Distinct
<1>5. e \in Nat /\ e \in Elems(s)
  BY <1>1, <1>2, <1>3 DEF Elems
<1>6. Distinct(r)
  <2> SUFFICES ASSUME NEW i \in 1 .. N - 1, NEW j \in 1 .. N - 1, r[i] = r[j]
               PROVE  i = j
    BY <1>2 DEF Distinct
  <2>1. i + 1 = j + 1
    BY <1>2, <1>3, <1>4
  <2> QED
    BY <2>1
<1>7. Elems(r) = Elems(s) \ {e}
  <2>1. \A x : x \in Elems(r) => x \in Elems(s) /\ x # e
    <3> SUFFICES ASSUME NEW k \in 1 .. N - 1
                 PROVE  r[k] \in Elems(s) /\ r[k] # e
      BY <1>2 DEF Elems
    <3>1. r[k] = s[k + 1]
      BY <1>2
    <3> QED
      BY <1>1, <1>2, <1>3, <1>4, <3>1 DEF Elems
  <2>2. \A k \in 1 .. N : s[k] # e => s[k] \in Elems(r)
    <3> TAKE k \in 1 .. N
    <3> HAVE s[k] # e
    <3>1. k # 1
      BY <1>2
    <3>2. k - 1 \in 1 .. N - 1 /\ (k - 1) + 1 = k
      BY <3>1
    <3>3. r[k - 1] = s[k]
      BY <1>2, <3>2
    <3> QED
      BY <1>2, <3>2, <3>3 DEF Elems
  <2>3. \A x : x \in Elems(s) /\ x # e => x \in Elems(r)
    BY <1>1, <2>2 DEF Elems
  <2> QED
    BY <2>1, <2>3
<1> QED
  BY <1>2, <1>5, <1>6, <1>7

Pushed(s, n) == {s[j].id : j \in {k \in 1 .. n : s[k].where = "pool"}}

\* The stack after the blocks of a sequence of buffers went back on it.
StackIs(free, s, n, r) ==
  r \in Seq(Nat) /\ Distinct(r) /\ Elems(r) = Elems(free) \cup Pushed(s, n)

\* cuda_free of a sequence of buffers gives the blocks among them back.
LEMMA CudaFreeIs ==
  ASSUME NEW m, NEW s \in Seq(Buffer), m.free \in Seq(Nat), Distinct(m.free),
         \A k \in 1 .. Len(s) : s[k].where = "pool" => s[k].id \in Nat \ Elems(m.free),
         \A j, k \in 1 .. Len(s) :
           s[j].where = "pool" /\ s[k].where = "pool" /\ s[j].id = s[k].id => j = k
  PROVE  \E r : /\ Cuda!CudaFree(m, s) = [m EXCEPT !.free = r, !.live = m.live \ Elems(s)]
                /\ StackIs(m.free, s, Len(s), r)
<1> DEFINE Body(f) == f = [k \in 0 .. Len(s) |->
             IF k = 0 THEN m.free
             ELSE IF s[k].where = "pool" THEN <<s[k].id>> \o f[k - 1] ELSE f[k - 1]]
<1>1. PICK N \in Nat : N = Len(s) /\ DOMAIN s = 1 .. N
  OBVIOUS
<1>2. PICK base \in Seq(Nat) : base = m.free
  OBVIOUS
<1>3. PICK step : step = [k \in Nat |-> [v \in Seq(Nat) |->
                    IF k \in 1 .. N /\ s[k].where = "pool" THEN <<s[k].id>> \o v ELSE v]]
  OBVIOUS
<1>4. \A k \in Nat : \A v \in Seq(Nat) :
        /\ step[k][v] = IF k \in 1 .. N /\ s[k].where = "pool" THEN <<s[k].id>> \o v ELSE v
        /\ step[k][v] \in Seq(Nat)
  <2> TAKE k \in Nat
  <2> TAKE v \in Seq(Nat)
  <2>1. step[k][v] = IF k \in 1 .. N /\ s[k].where = "pool" THEN <<s[k].id>> \o v ELSE v
    BY <1>3
  <2>2. CASE k \in 1 .. N /\ s[k].where = "pool"
    <3>1. PICK e \in Nat : e = s[k].id
      BY <1>1, <2>2
    <3>2. step[k][v] = <<e>> \o v /\ <<e>> \in Seq(Nat)
      BY <2>1, <2>2, <3>1
    <3>3. <<e>> \o v \in Seq(Nat)
      BY <3>2
    <3> QED
      BY <2>1, <2>2, <3>1, <3>3
  <2>3. CASE ~(k \in 1 .. N /\ s[k].where = "pool")
    BY <2>1, <2>3
  <2> QED
    BY <2>2, <2>3
<1>5. Keeps(step, Seq(Nat))
  BY <1>4 DEF Keeps
<1>6. PICK f \in [0 .. N -> Seq(Nat)] : Follows(f, N, base, step)
  BY <1>5, RecursionExists
<1>7. \A k \in 1 .. N : /\ k \in 0 .. N /\ k - 1 \in 0 .. N /\ k \in Nat
  OBVIOUS
<1>8. Body(f)
  <2>1. \A k \in 0 .. N : f[k] = IF k = 0 THEN m.free
          ELSE IF s[k].where = "pool" THEN <<s[k].id>> \o f[k - 1] ELSE f[k - 1]
    <3> TAKE k \in 0 .. N
    <3>1. CASE k = 0
      BY <1>2, <1>6, <3>1 DEF Follows
    <3>2. CASE k # 0
      <4>1. k \in 1 .. N /\ k \in Nat /\ f[k - 1] \in Seq(Nat)
        BY <1>7, <3>2
      <4>2. f[k] = step[k][f[k - 1]]
        BY <1>6, <4>1 DEF Follows
      <4> QED
        BY <1>4, <3>2, <4>1, <4>2
    <3> QED
      BY <3>1, <3>2
  <2>2. f = [k \in 0 .. N |-> f[k]]
    OBVIOUS
  <2>3. f = [k \in 0 .. N |-> IF k = 0 THEN m.free
               ELSE IF s[k].where = "pool" THEN <<s[k].id>> \o f[k - 1] ELSE f[k - 1]]
    BY <2>1, <2>2
  <2> QED
    BY <1>1, <2>3
<1>9. PICK g : g = (CHOOSE h : Body(h)) /\ Body(g)
  <2> HIDE DEF Body
  <2> QED
    BY <1>8
<1>10. Cuda!CudaFree(m, s) = [m EXCEPT !.free = g[Len(s)], !.live = m.live \ Elems(s)]
  <2>1. Cuda!CudaFree(m, s) = [m EXCEPT !.free = g[Len(s)], !.live = m.live \ Cuda!ToSet(s)]
    BY <1>9 DEF Cuda!CudaFree
  <2> QED
    BY <2>1, CudaCache
<1>11. /\ g[0] = m.free
       /\ \A k \in 1 .. N :
            g[k] = IF s[k].where = "pool" THEN <<s[k].id>> \o g[k - 1] ELSE g[k - 1]
  <2>1. \A k \in 0 .. N : g[k] = IF k = 0 THEN m.free
          ELSE IF s[k].where = "pool" THEN <<s[k].id>> \o g[k - 1] ELSE g[k - 1]
    BY <1>1, <1>9
  <2>2. 0 \in 0 .. N /\ \A k \in 1 .. N : k \in 0 .. N /\ k # 0
    OBVIOUS
  <2> QED
    BY <2>1, <2>2
<1> DEFINE T == {n \in Nat : n <= N => StackIs(m.free, s, n, g[n])}
<1>12. 0 \in T
  <2>1. Pushed(s, 0) = {}
    BY DEF Pushed
  <2> QED
    BY <1>11, <2>1 DEF StackIs
<1>13. \A n \in Nat : n \in T => n + 1 \in T
  <2> SUFFICES ASSUME NEW n \in Nat, n + 1 <= N, StackIs(m.free, s, n, g[n])
               PROVE  StackIs(m.free, s, n + 1, g[n + 1])
    <3>1. \A n \in Nat : n + 1 \in Nat /\ (n + 1 <= N => n <= N)
      OBVIOUS
    <3> QED
      BY <3>1, Zenon
  <2>1. PICK k \in 1 .. N : k = n + 1 /\ k - 1 = n
    OBVIOUS
  <2>2. g[n] \in Seq(Nat) /\ Distinct(g[n]) /\ Elems(g[n]) = Elems(m.free) \cup Pushed(s, n)
    BY DEF StackIs
  <2>3. g[k] = IF s[k].where = "pool" THEN <<s[k].id>> \o g[n] ELSE g[n]
    BY <1>11, <2>1
  <2>4. \A j : j \in 1 .. k <=> j \in 1 .. n \/ j = k
    BY <2>1
  <2>5. CASE s[k].where = "pool"
    <3>1. PICK e \in Nat : e = s[k].id /\ e \notin Elems(m.free)
      BY <1>1, <2>5
    <3>2. e \notin Pushed(s, n)
      BY <1>1, <2>1, <2>4, <2>5, <3>1 DEF Pushed
    <3>3. PICK r : r = <<e>> \o g[n] /\ g[k] = r
      BY <2>3, <2>5, <3>1
    <3>4. e \notin Elems(g[n])
      BY <2>2, <3>1, <3>2
    <3>5. r \in Seq(Nat) /\ Distinct(r) /\ Elems(r) = Elems(g[n]) \cup {e}
      BY <2>2, <3>3, <3>4, PushIs
    <3>6. Pushed(s, k) = Pushed(s, n) \cup {e}
      BY <2>4, <2>5, <3>1 DEF Pushed
    <3> QED
      BY <2>1, <2>2, <3>3, <3>5, <3>6 DEF StackIs
  <2>6. CASE s[k].where # "pool"
    <3>1. Pushed(s, k) = Pushed(s, n)
      BY <2>4, <2>6 DEF Pushed
    <3> QED
      BY <2>1, <2>2, <2>3, <2>6, <3>1 DEF StackIs
  <2> QED
    BY <2>5, <2>6
<1>14. N \in T
  <2> HIDE DEF T
  <2> QED
    BY <1>12, <1>13, NatSetInduction
<1>15. StackIs(m.free, s, Len(s), g[Len(s)])
  BY <1>1, <1>14
<1> QED
  BY <1>10, <1>15

CudaMemory == [cache : Caches, active : Int, live : SUBSET Buffer, free : Seq(Nat)]

\* The buffers that are held (h), cached or on their way between two owners (T).
Out(m, h, T) == h \cup Elems(m.cache.pool) \cup T

\* Each is in one of these ways; the driver knows those that are not blocks, and
\* a block is out or, once, on the free list.
CudaOwns(m, h, T) ==
  /\ h \subseteq Buffer /\ T \subseteq Buffer
  /\ WellFormed(m.cache)
  /\ h \cap Elems(m.cache.pool) = {}
  /\ T \cap (h \cup Elems(m.cache.pool)) = {}
  /\ m.live = {b \in Out(m, h, T) : b.where # "pool"}
  /\ \A b \in Out(m, h, T) : b.where = "pool" => b = Cuda!Block(b.id)
  /\ Distinct(m.free) /\ Elems(m.free) \subseteq Cuda!Blocks
  /\ {b.id : b \in Out(m, h, T) \ m.live} = Cuda!Blocks \ Elems(m.free)

CudaMemoryOK(m, h, T) == m \in CudaMemory /\ CudaOwns(m, h, T)

\* A block of the scalar pool is a buffer with the number of its block.
LEMMA BlockIs ==
  ASSUME NEW i \in Cuda!Blocks, NEW b, b = Cuda!Block(i)
  PROVE  b \in Buffer /\ b.where = "pool" /\ b.id = i /\ b # NoBuffer /\ i \in Nat
<1>1. i \in Nat
  BY ConstantsOK DEF Cuda!Blocks
<1>2. b \in Buffer /\ b.where = "pool" /\ b.id = i
  BY <1>1 DEF Cuda!Block, Buffer, Places
<1> QED
  BY <1>1, <1>2, NullIsNoBuffer

\* The types that follow from the invariant of the memory.
LEMMA CudaFields ==
  ASSUME NEW m, NEW h, NEW T, CudaMemoryOK(m, h, T)
  PROVE  /\ m \in CudaMemory /\ m.cache \in Caches /\ m.active \in Int /\ m.live \subseteq Buffer
         /\ m.free \in Seq(Nat) /\ WellFormed(m.cache) /\ m.cache.size \in Nat
         /\ Elems(m.cache.pool) \subseteq Buffer
<1>1. m \in CudaMemory /\ WellFormed(m.cache)
  BY DEF CudaMemoryOK, CudaOwns
<1>2. m.cache \in Caches /\ m.active \in Int /\ m.live \subseteq Buffer /\ m.free \in Seq(Nat)
  BY <1>1 DEF CudaMemory
<1>3. m.cache.size \in Nat /\ m.cache.pool \in Seq(Buffer)
  BY <1>2, CachesFields
<1> QED
  BY <1>1, <1>2, <1>3, ElemsFinite

\* What cuda_free gets is out no more.
LEMMA CudaFreeKeeps ==
  ASSUME NEW m, NEW h, NEW T, CudaMemoryOK(m, h, T),
         NEW s \in Seq(Buffer), Distinct(s), Elems(s) \subseteq T, NEW n, n = Cuda!CudaFree(m, s)
  PROVE  CudaMemoryOK(n, h, T \ Elems(s)) /\ n.cache = m.cache
<1>1. CudaOwns(m, h, T) /\ m \in CudaMemory /\ m.free \in Seq(Nat) /\ Distinct(m.free)
  BY CudaFields DEF CudaMemoryOK, CudaOwns
<1>2. PICK N \in Nat : N = Len(s) /\ DOMAIN s = 1 .. N
  OBVIOUS
<1>3. PICK O : O = Out(m, h, T)
  OBVIOUS
<1>4. /\ m.live = {b \in O : b.where # "pool"} /\ Elems(s) \subseteq O
      /\ \A b \in O : b.where = "pool" => b = Cuda!Block(b.id)
      /\ Elems(m.free) \subseteq Cuda!Blocks
      /\ {b.id : b \in O \ m.live} = Cuda!Blocks \ Elems(m.free)
  BY <1>1, <1>3 DEF CudaOwns, Out
<1>5. \A b \in O : b.where = "pool" => /\ b.id \in Cuda!Blocks /\ b.id \in Nat
                                       /\ b.id \notin Elems(m.free)
  <2> TAKE b \in O
  <2> HAVE b.where = "pool"
  <2>1. b.id \in Cuda!Blocks \ Elems(m.free)
    BY <1>4
  <2> QED
    BY <2>1, BlockIs
<1>6. \A k \in 1 .. N : s[k] \in Elems(s) /\ s[k] \in O
  BY <1>2, <1>4 DEF Elems
<1>7. \A j, k \in 1 .. N :
        s[j].where = "pool" /\ s[k].where = "pool" /\ s[j].id = s[k].id => j = k
  <2> TAKE j, k \in 1 .. N
  <2> HAVE s[j].where = "pool" /\ s[k].where = "pool" /\ s[j].id = s[k].id
  <2>1. s[j] = s[k]
    BY <1>4, <1>6
  <2> QED
    BY <1>2, <2>1 DEF Distinct
<1>8. \A k \in 1 .. N : s[k].where = "pool" => s[k].id \in Nat \ Elems(m.free)
  BY <1>5, <1>6
<1>9. PICK r : /\ n = [m EXCEPT !.free = r, !.live = m.live \ Elems(s)]
               /\ StackIs(m.free, s, Len(s), r)
  BY <1>1, <1>2, <1>7, <1>8, CudaFreeIs
<1>10. PICK alive \in SUBSET Buffer : alive = m.live \ Elems(s)
  BY CudaFields
<1>11. r \in Seq(Nat) /\ Distinct(r) /\ Elems(r) = Elems(m.free) \cup Pushed(s, N)
  BY <1>2, <1>9 DEF StackIs
<1>12. /\ n \in CudaMemory /\ n.cache = m.cache /\ n.active = m.active
       /\ n.live = alive /\ n.free = r
  BY <1>1, <1>9, <1>10, <1>11 DEF CudaMemory
<1>13. PICK P : P = Out(n, h, T \ Elems(s))
  OBVIOUS
<1>14. P = O \ Elems(s)
  BY <1>1, <1>3, <1>12, <1>13 DEF CudaOwns, Out
<1>15. n.live = {b \in P : b.where # "pool"}
  BY <1>4, <1>10, <1>12, <1>14
<1>16. P \ n.live = {b \in O : b.where = "pool"} \ Elems(s)
  BY <1>14, <1>15
<1>17. O \ m.live = {b \in O : b.where = "pool"}
  BY <1>4
<1>18. Pushed(s, N) = {b.id : b \in {c \in Elems(s) : c.where = "pool"}}
  BY <1>2 DEF Pushed, Elems
<1>19. \A b, c \in O : b.where = "pool" /\ c.where = "pool" /\ b.id = c.id => b = c
  BY <1>4
<1>20. {b.id : b \in P \ n.live} = Cuda!Blocks \ Elems(r)
  <2>1. \A x : x \in {b.id : b \in P \ n.live} => x \in Cuda!Blocks /\ x \notin Elems(r)
    <3> TAKE x
    <3> HAVE x \in {b.id : b \in P \ n.live}
    <3>1. PICK b \in O : b.where = "pool" /\ b \notin Elems(s) /\ x = b.id
      BY <1>16
    <3>2. x \notin Pushed(s, N)
      BY <1>4, <1>18, <1>19, <3>1
    <3> QED
      BY <1>5, <1>11, <3>1, <3>2
  <2>2. \A x : x \in Cuda!Blocks /\ x \notin Elems(r) => x \in {b.id : b \in P \ n.live}
    <3> TAKE x
    <3> HAVE x \in Cuda!Blocks /\ x \notin Elems(r)
    <3>1. x \in {b.id : b \in O \ m.live} /\ x \notin Pushed(s, N)
      BY <1>4, <1>11
    <3>2. PICK b \in O : b.where = "pool" /\ x = b.id
      BY <1>17, <3>1
    <3>3. b \notin Elems(s)
      BY <1>18, <3>1, <3>2
    <3> QED
      BY <1>16, <3>2, <3>3
  <2> QED
    BY <2>1, <2>2
<1>21. Elems(r) \subseteq Cuda!Blocks
  BY <1>4, <1>5, <1>11, <1>18
<1>22. CudaOwns(n, h, T \ Elems(s))
  <2>1. /\ h \subseteq Buffer /\ T \ Elems(s) \subseteq Buffer
        /\ WellFormed(n.cache) /\ h \cap Elems(n.cache.pool) = {}
        /\ (T \ Elems(s)) \cap (h \cup Elems(n.cache.pool)) = {}
    BY <1>1, <1>12 DEF CudaOwns
  <2>2. \A b \in P : b.where = "pool" => b = Cuda!Block(b.id)
    BY <1>4, <1>14
  <2> QED
    BY <1>11, <1>12, <1>13, <1>15, <1>20, <1>21, <2>1, <2>2 DEF CudaOwns
<1> QED
  BY <1>12, <1>22 DEF CudaMemoryOK

\* Buffers leave the cache for cuda_free.
LEMMA CudaLeft ==
  ASSUME NEW m, NEW h, NEW T, CudaMemoryOK(m, h, T), NEW r, Left(m.cache, r),
         NEW o, o = WithCache(m, r.cache), NEW n, n = Cuda!CudaFree(o, r.freed)
  PROVE  CudaMemoryOK(n, h, T) /\ n.cache = r.cache
<1>1. CudaOwns(m, h, T) /\ m \in CudaMemory
  BY DEF CudaMemoryOK
<1>2. PICK F : F = Elems(r.freed)
  OBVIOUS
<1>3. /\ r.freed \in Seq(Buffer) /\ Distinct(r.freed) /\ WellFormed(r.cache)
      /\ F \cap Elems(r.cache.pool) = {} /\ F \cup Elems(r.cache.pool) = Elems(m.cache.pool)
  BY <1>2 DEF Left
<1>4. r.cache \in Caches /\ F \subseteq Buffer
  BY <1>2, <1>3, ElemsFinite DEF WellFormed
<1>5. /\ o \in CudaMemory /\ o.cache = r.cache /\ o.live = m.live /\ o.free = m.free
  BY <1>1, <1>4 DEF WithCache, CudaMemory
<1>6. CudaMemoryOK(o, h, T \cup F)
  <2>1. Out(o, h, T \cup F) = Out(m, h, T)
    BY <1>3, <1>5 DEF Out
  <2>2. /\ h \cap Elems(o.cache.pool) = {} /\ T \cup F \subseteq Buffer
        /\ (T \cup F) \cap (h \cup Elems(o.cache.pool)) = {}
    BY <1>1, <1>3, <1>4, <1>5 DEF CudaOwns
  <2> QED
    BY <1>1, <1>3, <1>5, <2>1, <2>2 DEF CudaMemoryOK, CudaOwns
<1>7. CudaMemoryOK(n, h, (T \cup F) \ F) /\ n.cache = o.cache
  BY <1>2, <1>3, <1>6, CudaFreeKeeps
<1>8. (T \cup F) \ F = T
  BY <1>1, <1>3 DEF CudaOwns
<1> QED
  BY <1>5, <1>7, <1>8

\* release_cached_buffers keeps the memory accounted for and frees what it was
\* asked for or everything.
LEMMA CudaReleasedKeeps ==
  ASSUME NEW m, NEW h, NEW T, CudaMemoryOK(m, h, T), NEW min \in Int,
         NEW n, n = Cuda!Released(m, min)
  PROVE  /\ CudaMemoryOK(n, h, T)
         /\ n.cache.size = 0 \/ m.cache.size - n.cache.size >= min
         /\ n.cache.size \in Nat /\ m.cache.size \in Nat
<1>1. WellFormed(m.cache)
  BY CudaFields
<1>2. PICK r : r = Cache!ReleaseCachedBuffers(m.cache, min)
  OBVIOUS
<1>3. Left(m.cache, r) /\ (r.cache.size = 0 \/ m.cache.size - r.cache.size >= min)
  BY <1>1, <1>2, ReleaseKeeps
<1>4. PICK o : o = WithCache(m, r.cache)
  OBVIOUS
<1>5. n = Cuda!CudaFree(o, r.freed)
  BY <1>2, <1>4, CudaCache DEF Cuda!Released, WithCache
<1>6. CudaMemoryOK(n, h, T) /\ n.cache = r.cache
  BY <1>3, <1>4, <1>5, CudaLeft
<1> QED
  BY <1>3, <1>6, CudaFields

\* The end of malloc: statistics, then the cache is within its limit.
LEMMA CudaCountedKeeps ==
  ASSUME NEW m, NEW h, NEW T, CudaMemoryOK(m, h, T), NEW size \in Nat, limits.maxPool \in Nat,
         NEW n, n = Cuda!Counted(m, size)
  PROVE  CudaMemoryOK(n, h, T) /\ n.cache.size <= limits.maxPool
<1>1. PICK act \in Int : act = (m.active + size) % WordSize
  <2>1. m.active + size \in Int /\ WordSize \in Nat \ {0}
    BY CudaFields, ConstantsOK
  <2> QED
    BY <2>1
<1>2. PICK c : c = [m EXCEPT !.active = act]
  OBVIOUS
<1>3. c \in CudaMemory /\ c.cache = m.cache /\ c.live = m.live /\ c.free = m.free
  BY <1>2, CudaFields DEF CudaMemory
<1>4. CudaMemoryOK(c, h, T)
  BY <1>3 DEF CudaMemoryOK, CudaOwns, Out
<1>5. PICK pool \in Nat, max \in Nat : pool = c.cache.size /\ max = limits.maxPool
  BY <1>4, CudaFields
<1>6. n = IF pool > max THEN Cuda!Released(c, pool - max) ELSE c
  BY <1>1, <1>2, <1>5 DEF Cuda!Counted
<1>7. CASE pool > max
  <2>1. PICK min \in Int : min = pool - max
    OBVIOUS
  <2>2. n = Cuda!Released(c, min)
    BY <1>6, <1>7, <2>1
  <2>3. /\ CudaMemoryOK(n, h, T)
        /\ n.cache.size = 0 \/ c.cache.size - n.cache.size >= min
        /\ n.cache.size \in Nat
    BY <1>4, <2>2, CudaReleasedKeeps
  <2>4. PICK left \in Nat : left = n.cache.size
    BY <2>3
  <2>5. left = 0 \/ pool - left >= pool - max
    BY <1>5, <2>1, <2>3, <2>4
  <2>6. left <= max
    BY <2>5
  <2> QED
    BY <1>5, <2>3, <2>4, <2>6
<1>8. CASE ~(pool > max)
  BY <1>4, <1>5, <1>6, <1>8
<1> QED
  BY <1>7, <1>8

CudaThread == [at : {"idle", "allocate"}, size : Nat, buf : Link]

Taken == {pc[t].buf : t \in Threads} \ {NoBuffer}

\* A block taken from the pool outside the lock is its thread's own.
CudaThreads ==
  /\ pc \in [Threads -> CudaThread]
  /\ \A t \in Threads : Cuda!At(t, "idle") => pc[t].buf = NoBuffer
  /\ \A t, u \in Threads : t # u /\ pc[t].buf = pc[u].buf => pc[t].buf = NoBuffer

CudaLimitsOK == limits \in [maxPool : Nat, memory : Nat]

\* The inductive invariant.
CudaInv == CudaMemoryOK(memory, held, Taken) /\ CudaThreads /\ CudaLimitsOK

\* The types that follow from the invariant.
LEMMA CudaFacts ==
  ASSUME CudaInv
  PROVE  /\ memory \in CudaMemory /\ memory.cache \in Caches /\ memory.active \in Int
         /\ memory.live \subseteq Buffer /\ memory.free \in Seq(Nat) /\ memory.cache.size \in Nat
         /\ WellFormed(memory.cache) /\ held \subseteq Buffer /\ Distinct(memory.free)
         /\ limits.maxPool \in Nat /\ limits.memory \in Nat
         /\ pc \in [Threads -> CudaThread]
<1>1. CudaMemoryOK(memory, held, Taken)
  BY DEF CudaInv
<1>2. held \subseteq Buffer /\ Distinct(memory.free)
  BY <1>1 DEF CudaMemoryOK, CudaOwns
<1>3. limits.maxPool \in Nat /\ limits.memory \in Nat
  BY DEF CudaInv, CudaLimitsOK
<1>4. pc \in [Threads -> CudaThread]
  BY DEF CudaInv, CudaThreads
<1> QED
  BY <1>1, <1>2, <1>3, <1>4, CudaFields

\* One thread goes from one step of a call to another.
LEMMA CudaThreadMoves ==
  ASSUME CudaThreads, NEW t \in Threads, NEW r \in CudaThread, pc' = [pc EXCEPT ![t] = r],
         r.at = "idle" => r.buf = NoBuffer, r.buf \notin Taken
  PROVE  CudaThreads' /\ Taken' = (Taken \ {pc[t].buf}) \cup ({r.buf} \ {NoBuffer})
<1> USE DEF Cuda!At
<1>1. /\ pc \in [Threads -> CudaThread] /\ pc' \in [Threads -> CudaThread]
      /\ pc'[t] = r /\ \A u \in Threads \ {t} : pc'[u] = pc[u]
  BY DEF CudaThreads
<1>2. /\ \A b : b \in Taken <=> b # NoBuffer /\ \E u \in Threads : pc[u].buf = b
      /\ \A b : b \in Taken' <=> b # NoBuffer /\ \E u \in Threads : pc'[u].buf = b
  BY DEF Taken
<1>3. /\ \A u \in Threads : pc[u].at = "idle" => pc[u].buf = NoBuffer
      /\ \A u, v \in Threads : u # v /\ pc[u].buf = pc[v].buf => pc[u].buf = NoBuffer
  BY DEF CudaThreads
<1>4. \A u \in Threads : pc'[u].at = "idle" => pc'[u].buf = NoBuffer
  BY <1>1, <1>3
<1>5. \A u, v \in Threads : u # v /\ pc'[u].buf = pc'[v].buf => pc'[u].buf = NoBuffer
  <2> TAKE u, v \in Threads
  <2> HAVE u # v /\ pc'[u].buf = pc'[v].buf
  <2>1. CASE u = t
    BY <1>1, <1>2, <2>1
  <2>2. CASE v = t
    BY <1>1, <1>2, <2>2
  <2>3. CASE u # t /\ v # t
    BY <1>1, <1>3, <2>3
  <2> QED
    BY <2>1, <2>2, <2>3
<1>6. CudaThreads'
  BY <1>1, <1>4, <1>5 DEF CudaThreads
<1>7. \A b : b \in Taken' => b \in (Taken \ {pc[t].buf}) \cup ({r.buf} \ {NoBuffer})
  BY <1>1, <1>2, <1>3
<1>8. \A b : b \in (Taken \ {pc[t].buf}) \cup ({r.buf} \ {NoBuffer}) => b \in Taken'
  BY <1>1, <1>2
<1> QED
  BY <1>6, <1>7, <1>8

\* A thread outside the allocator has taken nothing.
LEMMA CudaIdle ==
  /\ Cuda!Idle \in CudaThread /\ Cuda!Idle.at = "idle" /\ Cuda!Idle.buf = NoBuffer
  /\ NoBuffer \notin Taken
  BY DEF Cuda!Idle, CudaThread, Link, Taken

\* malloc returns b, which was on its way or had no owner.
LEMMA CudaReturns ==
  ASSUME CudaInv, NEW t \in Threads, NEW m, NEW b \in Buffer, NEW size \in Nat,
         Cuda!Return(t, m, b, size),
         CudaMemoryOK(m, held \cup {b}, Taken \ {pc[t].buf})
  PROVE  CudaInv' /\ memory'.cache.size <= limits.maxPool
<1>1. /\ memory' = Cuda!Counted(m, size) /\ held' = held \cup {b} /\ limits' = limits
      /\ pc' = [pc EXCEPT ![t] = Cuda!Idle]
  BY DEF Cuda!Return
<1>2. CudaThreads' /\ Taken' = Taken \ {pc[t].buf}
  <2>1. Taken' = (Taken \ {pc[t].buf}) \cup ({NoBuffer} \ {NoBuffer}) /\ CudaThreads'
    BY <1>1, CudaIdle, CudaThreadMoves DEF CudaInv
  <2> QED
    BY <2>1
<1>3. /\ CudaMemoryOK(memory', held \cup {b}, Taken \ {pc[t].buf})
      /\ memory'.cache.size <= limits.maxPool
  BY <1>1, CudaFacts, CudaCountedKeeps
<1>4. CudaLimitsOK'
  BY <1>1 DEF CudaInv, CudaLimitsOK
<1> QED
  BY <1>1, <1>2, <1>3, <1>4 DEF CudaInv

\* malloc that finds a buffer in the cache.
LEMMA CudaFromCacheKeeps ==
  ASSUME CudaInv, NEW t \in Threads, NEW size \in Nat, Cuda!MallocFromCache(t, size)
  PROVE  CudaInv' /\ memory'.cache.size <= limits.maxPool
<1>1. PICK b : b = Cuda!Reusable(memory.cache, size)
  OBVIOUS
<1>2. PICK d, n : d = Cache!TakeOut(memory.cache, b) /\ n = WithCache(memory, d)
  OBVIOUS
<1>3. Cuda!At(t, "idle") /\ b # NoBuffer /\ Cuda!Return(t, n, b, size)
  BY <1>1, <1>2, CudaCache DEF Cuda!MallocFromCache, WithCache
<1>4. b \in Elems(memory.cache.pool)
  BY <1>1, <1>3, CudaReusableIs, CudaFacts
<1>5. /\ WellFormed(d) /\ Elems(d.pool) = Elems(memory.cache.pool) \ {b}
  BY <1>2, <1>4, CudaFacts, TakeOutKeeps
<1>6. /\ n \in CudaMemory /\ n.cache = d /\ n.live = memory.live /\ n.free = memory.free
  <2>1. d \in Caches
    BY <1>5 DEF WellFormed
  <2> QED
    BY <1>2, <2>1, CudaFacts DEF CudaMemory, WithCache
<1>7. PICK T : T = Taken /\ CudaOwns(memory, held, T)
  BY DEF CudaInv, CudaMemoryOK
<1>8. b \in Buffer
  BY <1>4, CudaFields DEF CudaInv
<1>9. CudaMemoryOK(n, held \cup {b}, T)
  <2>1. Out(n, held \cup {b}, T) = Out(memory, held, T)
    BY <1>4, <1>5, <1>6 DEF Out
  <2>2. /\ (held \cup {b}) \cap Elems(n.cache.pool) = {} /\ held \cup {b} \subseteq Buffer
        /\ T \cap ((held \cup {b}) \cup Elems(n.cache.pool)) = {}
    BY <1>4, <1>5, <1>6, <1>7, <1>8 DEF CudaOwns
  <2> QED
    BY <1>5, <1>6, <1>7, <2>1, <2>2 DEF CudaMemoryOK, CudaOwns
<1>10. Taken \ {pc[t].buf} = T
  BY <1>3, <1>7, CudaIdle DEF CudaInv, CudaThreads
<1> QED
  BY <1>3, <1>8, <1>9, <1>10, CudaReturns

\* malloc that finds none, up to where it lets go of the mutex.
LEMMA CudaMissKeeps ==
  ASSUME CudaInv, NEW t \in Threads, NEW size \in Nat, Cuda!MallocMiss(t, size)
  PROVE  CudaInv' /\ held' = held
<1>1. PICK m, min, taken :
        /\ min = Cuda!MemToFree(size)
        /\ m = IF min > 0 THEN Cuda!Released(memory, min) ELSE memory
        /\ taken = Cuda!TakeBlock(m, size)
  OBVIOUS
<1>2. /\ Cuda!At(t, "idle") /\ memory' = taken.m /\ limits' = limits /\ held' = held
      /\ pc' = [pc EXCEPT ![t] = [at |-> "allocate", size |-> size, buf |-> taken.buf]]
  BY <1>1 DEF Cuda!MallocMiss
<1>3. min \in Int
  <2>1. PICK n : n = (memory.active + memory.cache.size + size - limits.memory) % WordSize
    OBVIOUS
  <2>2. memory.active + memory.cache.size + size - limits.memory \in Int /\ WordSize \in Nat \ {0}
    <3>1. memory.active \in Int /\ memory.cache.size \in Nat /\ limits.memory \in Nat
      BY CudaFacts
    <3>2. WordSize \in Nat \ {0}
      BY ConstantsOK
    <3> QED
      BY <3>1, <3>2
  <2>3. n \in Int
    BY <2>1, <2>2
  <2> QED
    BY <1>1, <2>1, <2>2, <2>3 DEF Cuda!MemToFree
<1>4. PICK T : T = Taken /\ CudaMemoryOK(memory, held, T)
  BY DEF CudaInv
<1>5. CudaMemoryOK(m, held, T)
  BY <1>1, <1>3, <1>4, CudaReleasedKeeps
<1>6. pc[t].buf = NoBuffer /\ T \ {pc[t].buf} = T /\ NoBuffer \notin T
  BY <1>2, <1>4, CudaIdle DEF CudaInv, CudaThreads
<1>7. CudaLimitsOK'
  BY <1>2 DEF CudaInv, CudaLimitsOK
<1>8. PICK r : r = [at |-> "allocate", size |-> size, buf |-> taken.buf]
  OBVIOUS
<1>9. r.at = "allocate" /\ r.buf = taken.buf /\ (r.buf \in Link => r \in CudaThread)
  BY <1>8 DEF CudaThread
<1>10. CASE taken = [m |-> m, buf |-> NoBuffer]
  <2>1. memory' = m /\ r.buf = NoBuffer /\ r \in CudaThread
    BY <1>2, <1>9, <1>10 DEF Link
  <2>2. CudaThreads' /\ Taken' = (T \ {pc[t].buf}) \cup ({NoBuffer} \ {NoBuffer})
    BY <1>2, <1>4, <1>6, <1>8, <1>9, <2>1, CudaThreadMoves DEF CudaInv
  <2>3. Taken' = T
    BY <1>6, <2>2
  <2> QED
    BY <1>2, <1>5, <1>7, <2>1, <2>2, <2>3 DEF CudaInv
<1>11. CASE /\ m.free # <<>>
            /\ taken = [m |-> [m EXCEPT !.free = Tail(m.free)], buf |-> Cuda!Block(Head(m.free))]
  <2>1. m.free \in Seq(Nat) /\ Distinct(m.free) /\ m \in CudaMemory /\ CudaOwns(m, held, T)
    BY <1>5, CudaFields DEF CudaMemoryOK, CudaOwns
  <2>2. PICK i, rest, b : i = Head(m.free) /\ rest = Tail(m.free) /\ b = Cuda!Block(i)
    OBVIOUS
  <2>3. /\ rest \in Seq(Nat) /\ Distinct(rest) /\ i \in Elems(m.free)
        /\ Elems(rest) = Elems(m.free) \ {i}
    BY <1>11, <2>1, <2>2, PopIs
  <2>4. Elems(m.free) \subseteq Cuda!Blocks /\ i \in Cuda!Blocks
    BY <2>1, <2>3 DEF CudaOwns
  <2>5. b \in Buffer /\ b.where = "pool" /\ b.id = i /\ b # NoBuffer
    BY <2>2, <2>4, BlockIs
  <2>6. memory' = [m EXCEPT !.free = rest] /\ taken.buf = b
    BY <1>2, <1>11, <2>2
  <2>7. /\ memory' \in CudaMemory /\ memory'.cache = m.cache /\ memory'.live = m.live
        /\ memory'.free = rest
    BY <2>1, <2>3, <2>6 DEF CudaMemory
  <2>8. PICK O : O = Out(m, held, T)
    OBVIOUS
  <2>9. /\ m.live = {x \in O : x.where # "pool"}
        /\ \A x \in O : x.where = "pool" => x = Cuda!Block(x.id)
        /\ {x.id : x \in O \ m.live} = Cuda!Blocks \ Elems(m.free)
    BY <2>1, <2>8 DEF CudaOwns
  <2>10. b \notin O
    <3>1. b \in O => i \in {x.id : x \in O \ m.live}
      BY <2>5, <2>9
    <3> QED
      BY <2>3, <2>9, <3>1
  <2>11. b \notin T /\ b \notin held /\ b \notin Elems(m.cache.pool)
    BY <2>8, <2>10 DEF Out
  <2>12. Out(memory', held, T \cup {b}) = O \cup {b}
    BY <2>7, <2>8 DEF Out
  <2>13. (O \cup {b}) \ m.live = (O \ m.live) \cup {b}
    BY <2>5, <2>9
  <2>14. {x.id : x \in (O \cup {b}) \ m.live} = Cuda!Blocks \ Elems(rest)
    <3>1. {x.id : x \in (O \ m.live) \cup {b}} = {x.id : x \in O \ m.live} \cup {i}
      BY <2>5
    <3> QED
      BY <2>3, <2>4, <2>9, <2>13, <3>1
  <2>15. CudaOwns(memory', held, T \cup {b})
    <3>1. /\ held \subseteq Buffer /\ T \cup {b} \subseteq Buffer /\ WellFormed(memory'.cache)
          /\ held \cap Elems(memory'.cache.pool) = {}
          /\ (T \cup {b}) \cap (held \cup Elems(memory'.cache.pool)) = {}
      BY <2>1, <2>5, <2>7, <2>11 DEF CudaOwns
    <3>2. memory'.live = {x \in O \cup {b} : x.where # "pool"}
      BY <2>5, <2>7, <2>9
    <3>3. \A x \in O \cup {b} : x.where = "pool" => x = Cuda!Block(x.id)
      BY <2>2, <2>5, <2>9
    <3>4. Elems(rest) \subseteq Cuda!Blocks
      BY <2>3, <2>4
    <3> QED
      BY <2>3, <2>7, <2>12, <2>14, <3>1, <3>2, <3>3, <3>4 DEF CudaOwns
  <2>16. r.buf = b /\ r \in CudaThread
    BY <1>9, <2>5, <2>6 DEF Link
  <2>17. CudaThreads' /\ Taken' = (T \ {pc[t].buf}) \cup ({b} \ {NoBuffer})
    BY <1>2, <1>4, <1>8, <1>9, <2>11, <2>16, CudaThreadMoves DEF CudaInv
  <2>18. Taken' = T \cup {b}
    BY <1>6, <2>5, <2>17
  <2> QED
    BY <1>2, <1>7, <2>7, <2>15, <2>17, <2>18 DEF CudaInv, CudaMemoryOK
<1> QED
  BY <1>1, <1>2, <1>10, <1>11 DEF Cuda!TakeBlock

\* The rest of malloc with a block of the scalar pool.
LEMMA CudaBlockKeeps ==
  ASSUME CudaInv, NEW t \in Threads, Cuda!MallocBlock(t)
  PROVE  CudaInv' /\ memory'.cache.size <= limits.maxPool
<1>1. PICK b, size : b = pc[t].buf /\ size = pc[t].size
  OBVIOUS
<1>2. b # NoBuffer /\ Cuda!Return(t, memory, b, size)
  BY <1>1 DEF Cuda!MallocBlock
<1>3. size \in Nat /\ b \in Buffer
  BY <1>1, <1>2, CudaFacts DEF CudaThread, Link
<1>4. PICK T : T = Taken /\ CudaMemoryOK(memory, held, T) /\ b \in T
  BY <1>1, <1>2 DEF CudaInv, Taken
<1>5. CudaMemoryOK(memory, held \cup {b}, T \ {b})
  <2>1. CudaOwns(memory, held, T) /\ memory \in CudaMemory
    BY <1>4 DEF CudaMemoryOK
  <2>2. Out(memory, held \cup {b}, T \ {b}) = Out(memory, held, T)
    BY <1>4 DEF Out
  <2>3. /\ held \cup {b} \subseteq Buffer /\ T \ {b} \subseteq Buffer
        /\ (held \cup {b}) \cap Elems(memory.cache.pool) = {}
        /\ (T \ {b}) \cap ((held \cup {b}) \cup Elems(memory.cache.pool)) = {}
    BY <1>3, <1>4, <2>1 DEF CudaOwns
  <2> QED
    BY <2>1, <2>2, <2>3 DEF CudaMemoryOK, CudaOwns
<1> QED
  BY <1>1, <1>2, <1>3, <1>4, <1>5, CudaReturns

\* The rest of malloc with memory of cudaMallocManaged.
LEMMA CudaManagedKeeps ==
  ASSUME CudaInv, NEW t \in Threads, Cuda!MallocManaged(t)
  PROVE  CudaInv' /\ memory'.cache.size <= limits.maxPool
<1>1. PICK free, size : free = CudaIds \ {b.id : b \in memory.live} /\ size = pc[t].size
  OBVIOUS
<1>2. PICK where, b :
        /\ where \in {"managed", "no data"} /\ free # {} /\ pc[t].buf = NoBuffer
        /\ b = [id |-> Cuda!Min(free), size |-> size, where |-> where]
        /\ Cuda!Return(t, [memory EXCEPT !.live = memory.live \cup {b}], b, size)
  BY <1>1 DEF Cuda!MallocManaged
<1>3. size \in Nat
  BY <1>1, CudaFacts DEF CudaThread
<1>4. PICK id \in Nat : id = Cuda!Min(free) /\ id \in free
  <2>1. free \in SUBSET Nat
    BY <1>1, ConstantsOK
  <2> QED
    BY <1>2, <2>1, CudaMinIs
<1>5. b \in Buffer /\ b.where # "pool" /\ b.id = id
  <2>1. b = [id |-> id, size |-> size, where |-> where] /\ where \in Places /\ where # "pool"
    BY <1>2, <1>4 DEF Places
  <2> QED
    BY <1>3, <2>1 DEF Buffer
<1>6. b \notin memory.live
  BY <1>1, <1>4, <1>5
<1>7. PICK n, alive : alive = memory.live \cup {b} /\ n = [memory EXCEPT !.live = alive]
  OBVIOUS
<1>8. alive \in SUBSET Buffer
  BY <1>5, <1>7, CudaFacts
<1>9. n \in CudaMemory /\ n.cache = memory.cache /\ n.live = alive /\ n.free = memory.free
  BY <1>7, <1>8, CudaFacts DEF CudaMemory
<1>10. PICK T : T = Taken /\ CudaMemoryOK(memory, held, T)
  BY DEF CudaInv
<1>11. CudaMemoryOK(n, held \cup {b}, T)
  <2>1. CudaOwns(memory, held, T)
    BY <1>10 DEF CudaMemoryOK
  <2>2. PICK O : O = Out(memory, held, T)
    OBVIOUS
  <2>3. Out(n, held \cup {b}, T) = O \cup {b}
    BY <1>9, <2>2 DEF Out
  <2>4. /\ memory.live = {x \in O : x.where # "pool"}
        /\ \A x \in O : x.where = "pool" => x = Cuda!Block(x.id)
        /\ {x.id : x \in O \ memory.live} = Cuda!Blocks \ Elems(memory.free)
    BY <2>1, <2>2 DEF CudaOwns
  <2>5. b \notin O
    BY <1>5, <1>6, <2>4
  <2>6. /\ alive = {x \in O \cup {b} : x.where # "pool"}
        /\ \A x \in O \cup {b} : x.where = "pool" => x = Cuda!Block(x.id)
        /\ (O \cup {b}) \ alive = O \ memory.live
    BY <1>5, <1>7, <2>4, <2>5
  <2>7. b \notin held /\ b \notin T /\ b \notin Elems(memory.cache.pool)
    BY <2>2, <2>5 DEF Out
  <2>8. /\ held \cup {b} \subseteq Buffer /\ T \subseteq Buffer
        /\ (held \cup {b}) \cap Elems(memory.cache.pool) = {}
        /\ T \cap ((held \cup {b}) \cup Elems(memory.cache.pool)) = {}
    BY <1>5, <2>1, <2>7 DEF CudaOwns
  <2>9. /\ WellFormed(memory.cache) /\ Distinct(memory.free)
        /\ Elems(memory.free) \subseteq Cuda!Blocks
    BY <2>1 DEF CudaOwns
  <2> QED
    BY <1>9, <2>3, <2>4, <2>6, <2>8, <2>9 DEF CudaMemoryOK, CudaOwns
<1>12. Taken \ {pc[t].buf} = T
  BY <1>2, <1>10, CudaIdle
<1>13. Cuda!Return(t, n, b, size)
  BY <1>2, <1>7
<1> QED
  BY <1>3, <1>5, <1>11, <1>12, <1>13, CudaReturns

\* The rest of malloc when cudaMallocManaged failed.
LEMMA CudaThrowsKeeps ==
  ASSUME CudaInv, NEW t \in Threads, Cuda!MallocThrows(t)
  PROVE  CudaInv' /\ held' = held
<1>1. /\ pc[t].buf = NoBuffer /\ pc' = [pc EXCEPT ![t] = Cuda!Idle]
      /\ memory' = memory /\ held' = held /\ limits' = limits
  BY DEF Cuda!MallocThrows
<1>2. CudaThreads' /\ Taken' = (Taken \ {pc[t].buf}) \cup ({NoBuffer} \ {NoBuffer})
  <2>1. PICK r \in CudaThread :
          /\ r.at = "idle" /\ r.buf = NoBuffer /\ r.buf \notin Taken
          /\ pc' = [pc EXCEPT ![t] = r]
    BY <1>1, CudaIdle
  <2>2. CudaThreads' /\ Taken' = (Taken \ {pc[t].buf}) \cup ({r.buf} \ {NoBuffer})
    BY <2>1, CudaThreadMoves DEF CudaInv
  <2> QED
    BY <2>1, <2>2
<1>3. Taken' = Taken
  BY <1>1, <1>2, CudaIdle
<1> QED
  BY <1>1, <1>2, <1>3 DEF CudaInv, CudaLimitsOK

\* free, into the cache or, past the limit, out of it.
LEMMA CudaFreedKeeps ==
  ASSUME CudaInv, NEW t \in Threads, NEW b \in held, Cuda!Free(t, b)
  PROVE  CudaInv' /\ held' \subseteq held
<1>1. PICK o : o = [memory EXCEPT !.active = (memory.active - b.size) % WordSize]
  OBVIOUS
<1>2. /\ held' = held \ {b} /\ limits' = limits /\ pc' = pc
      /\ \/ memory' = WithCache(o, Cuda!RecycleToCache(o.cache, b))
         \/ memory' = Cuda!CudaFree(o, <<b>>)
  BY <1>1 DEF Cuda!Free, WithCache
<1>3. CudaThreads' /\ Taken' = Taken /\ CudaLimitsOK'
  BY <1>2 DEF CudaInv, CudaThreads, CudaLimitsOK, Cuda!At, Taken
<1>4. b \in Buffer /\ b.size \in Nat
  <2>1. b \in Buffer
    BY CudaFacts
  <2> QED
    BY <2>1 DEF Buffer
<1>5. PICK act \in Int : act = (memory.active - b.size) % WordSize
  <2>1. memory.active - b.size \in Int /\ WordSize \in Nat \ {0}
    BY <1>4, CudaFacts, ConstantsOK
  <2> QED
    BY <2>1
<1>6. o \in CudaMemory /\ o.cache = memory.cache /\ o.live = memory.live /\ o.free = memory.free
  BY <1>1, <1>5, CudaFacts DEF CudaMemory
<1>7. PICK T : T = Taken /\ CudaOwns(memory, held, T)
  BY DEF CudaInv, CudaMemoryOK
<1>8. CASE memory' = WithCache(o, Cuda!RecycleToCache(o.cache, b))
  <2>1. PICK d : d = Cache!RecycleToCache(memory.cache, b)
    OBVIOUS
  <2>2. b \notin Elems(memory.cache.pool) /\ WellFormed(memory.cache)
    BY <1>7 DEF CudaOwns
  <2>3. WellFormed(d) /\ Elems(d.pool) = Elems(memory.cache.pool) \cup {b}
    BY <1>4, <2>1, <2>2, RecycleKeeps
  <2>4. d \in Caches
    BY <2>3 DEF WellFormed
  <2>5. memory' = [o EXCEPT !.cache = d]
    BY <1>6, <1>8, <2>1, CudaCache DEF WithCache
  <2>6. /\ memory' \in CudaMemory /\ memory'.cache = d /\ memory'.live = memory.live
        /\ memory'.free = memory.free
    BY <1>6, <2>4, <2>5 DEF CudaMemory
  <2>7. Out(memory', held \ {b}, T) = Out(memory, held, T)
    BY <2>3, <2>6 DEF Out
  <2>8. /\ held \ {b} \subseteq Buffer /\ T \subseteq Buffer
        /\ (held \ {b}) \cap Elems(d.pool) = {}
        /\ T \cap ((held \ {b}) \cup Elems(d.pool)) = {}
    BY <1>7, <2>3 DEF CudaOwns
  <2>9. CudaOwns(memory', held \ {b}, T)
    BY <1>7, <2>3, <2>6, <2>7, <2>8 DEF CudaOwns
  <2> QED
    BY <1>2, <1>3, <1>7, <2>6, <2>9 DEF CudaInv, CudaMemoryOK
<1>9. CASE memory' = Cuda!CudaFree(o, <<b>>)
  <2>1. CudaMemoryOK(o, held \ {b}, T \cup {b})
    <3>1. Out(o, held \ {b}, T \cup {b}) = Out(memory, held, T)
      BY <1>6 DEF Out
    <3>2. /\ held \ {b} \subseteq Buffer /\ T \cup {b} \subseteq Buffer
          /\ (held \ {b}) \cap Elems(o.cache.pool) = {}
          /\ (T \cup {b}) \cap ((held \ {b}) \cup Elems(o.cache.pool)) = {}
      BY <1>4, <1>6, <1>7 DEF CudaOwns
    <3> QED
      BY <1>6, <1>7, <3>1, <3>2 DEF CudaMemoryOK, CudaOwns
  <2>2. PICK s \in Seq(Buffer) : s = <<b>> /\ Distinct(s) /\ Elems(s) = {b}
    <3>1. PICK s \in Seq(Buffer) : s = <<b>> /\ DOMAIN s = {1} /\ s[1] = b
      <4>1. <<b>> \in Seq(Buffer) /\ Len(<<b>>) = 1 /\ <<b>>[1] = b
        BY <1>4
      <4>2. DOMAIN <<b>> = 1 .. Len(<<b>>)
        BY <4>1
      <4>3. 1 .. 1 = {1}
        OBVIOUS
      <4> QED
        BY <4>1, <4>2, <4>3
    <3>2. Distinct(s) /\ Elems(s) = {b}
      BY <3>1 DEF Distinct, Elems
    <3> QED
      BY <3>1, <3>2
  <2>3. CudaMemoryOK(memory', held \ {b}, (T \cup {b}) \ {b})
    BY <1>9, <2>1, <2>2, CudaFreeKeeps
  <2>4. (T \cup {b}) \ {b} = T
    BY <1>7 DEF CudaOwns
  <2> QED
    BY <1>2, <1>3, <1>7, <2>3, <2>4 DEF CudaInv
<1> QED
  BY <1>2, <1>8, <1>9

\* set_cache_limit, set_memory_limit and clear_cache.
LEMMA CudaSettingsKeep ==
  ASSUME CudaInv,
         \/ \E n \in CudaLimits : Cuda!SetCacheLimit(n) \/ Cuda!SetMemoryLimit(n)
         \/ Cuda!ClearCache
  PROVE  CudaInv' /\ held' = held
<1>1. held' = held /\ pc' = pc
  BY DEF Cuda!SetCacheLimit, Cuda!SetMemoryLimit, Cuda!ClearCache
<1>2. CudaThreads' /\ Taken' = Taken
  BY <1>1 DEF CudaInv, CudaThreads, Cuda!At, Taken
<1>3. CudaLimitsOK'
  BY ConstantsOK
     DEF CudaInv, CudaLimitsOK, Cuda!SetCacheLimit, Cuda!SetMemoryLimit, Cuda!ClearCache
<1>4. PICK T : T = Taken /\ CudaMemoryOK(memory, held, T)
  BY DEF CudaInv
<1>5. CudaMemoryOK(memory', held, T)
  <2>1. CASE Cuda!ClearCache
    <3>1. PICK r, o : /\ r = [cache |-> Cache!EmptyCache, freed |-> memory.cache.pool]
                      /\ o = WithCache(memory, r.cache)
      OBVIOUS
    <3>2. Left(memory.cache, r)
      BY <3>1, ClearedKeeps, CudaFacts
    <3>3. memory' = Cuda!CudaFree(o, r.freed)
      BY <2>1, <3>1, CudaCache DEF Cuda!ClearCache, WithCache
    <3> QED
      BY <1>4, <3>1, <3>2, <3>3, CudaLeft
  <2>2. CASE memory' = memory
    BY <1>4, <2>2
  <2> QED
    BY <2>1, <2>2 DEF Cuda!SetCacheLimit, Cuda!SetMemoryLimit
<1> QED
  BY <1>1, <1>2, <1>3, <1>4, <1>5 DEF CudaInv

\* The constructor of CudaAllocator.
LEMMA CudaInit ==
  ASSUME Cuda!Init
  PROVE  CudaInv
<1>1. PICK free, c : free = [i \in Cuda!Blocks |-> i] /\ c = Cache!EmptyCache
  OBVIOUS
<1>2. /\ memory = [cache |-> c, active |-> 0, live |-> {}, free |-> free]
      /\ held = {} /\ pc = [t \in Threads |-> Cuda!Idle]
  BY <1>1, CudaCache DEF Cuda!Init
<1>3. CudaThreads /\ Taken = {}
  BY <1>2, CudaIdle DEF CudaThreads, Cuda!At, Taken
<1>4. CudaLimitsOK
  BY ConstantsOK DEF Cuda!Init, CudaLimitsOK
<1>5. WellFormed(c) /\ c.pool = <<>> /\ Elems(c.pool) = {} /\ c \in Caches
  <2>1. WellFormed(c) /\ c.pool = <<>>
    BY <1>1, EmptyIsWellFormed
  <2> QED
    BY <2>1 DEF Elems, WellFormed
<1>6. free \in Seq(Nat) /\ Distinct(free) /\ Elems(free) = Cuda!Blocks
  <2>1. PICK N \in Nat : N = NumBlocks
    BY ConstantsOK
  <2>2. free = [i \in 1 .. N |-> i]
    BY <1>1, <2>1 DEF Cuda!Blocks
  <2>3. free \in [1 .. N -> Nat]
    BY <2>2
  <2>4. free \in Seq(Nat) /\ DOMAIN free = 1 .. N
    BY <2>3
  <2> QED
    BY <2>1, <2>2, <2>4 DEF Cuda!Blocks, Distinct, Elems
<1>7. memory \in CudaMemory
  BY <1>2, <1>5, <1>6 DEF CudaMemory
<1>8. memory.cache = c /\ memory.live = {} /\ memory.free = free
  BY <1>2
<1>9. Out(memory, {}, {}) = {}
  BY <1>5, <1>8 DEF Out
<1>10. CudaOwns(memory, {}, {})
  BY <1>5, <1>6, <1>8, <1>9 DEF CudaOwns
<1> QED
  BY <1>2, <1>3, <1>4, <1>7, <1>10 DEF CudaInv, CudaMemoryOK

\* A malloc leaves the cache within its limit.
LEMMA CudaNext ==
  ASSUME CudaInv, Cuda!Next
  PROVE  CudaInv' /\ (held' \ held # {} => memory'.cache.size <= limits.maxPool)
<1>1. ASSUME NEW t \in Threads, NEW size \in {Cuda!Rounded(r) : r \in CudaRequests},
             Cuda!MallocFromCache(t, size) \/ Cuda!MallocMiss(t, size)
      PROVE  CudaInv' /\ (held' \ held # {} => memory'.cache.size <= limits.maxPool)
  <2>1. size \in Nat
    BY RoundedIs, ConstantsOK
  <2> QED
    BY <1>1, <2>1, CudaFromCacheKeeps, CudaMissKeeps
<1>2. ASSUME NEW t \in Threads, Cuda!MallocBlock(t) \/ Cuda!MallocManaged(t)
      PROVE  CudaInv' /\ (held' \ held # {} => memory'.cache.size <= limits.maxPool)
  BY <1>2, CudaBlockKeeps, CudaManagedKeeps
<1>3. ASSUME NEW t \in Threads, Cuda!MallocThrows(t)
      PROVE  CudaInv' /\ held' = held
  BY <1>3, CudaThrowsKeeps
<1>4. ASSUME NEW t \in Threads, NEW b \in held, Cuda!Free(t, b)
      PROVE  CudaInv' /\ held' \subseteq held
  BY <1>4, CudaFreedKeeps
<1>5. ASSUME \/ \E n \in CudaLimits : Cuda!SetCacheLimit(n) \/ Cuda!SetMemoryLimit(n)
             \/ Cuda!ClearCache
      PROVE  CudaInv' /\ held' = held
  BY <1>5, CudaSettingsKeep
<1> QED
  BY <1>1, <1>2, <1>3, <1>4, <1>5 DEF Cuda!Next, Cuda!Malloc

-----------------------------------------------------------------------------
(* The allocator without a GPU *)

CommonThread == [at : {"idle", "count", "discount"}, size : Nat, buf : Link]
Calls == [Threads -> CommonThread]

\* The sizes of the calls of p that the threads of A make.
Sizes(p, A) == Common!MapThenSumSet(LAMBDA t : p[t].size, A)

\* The sizes of the calls in progress are a sum over the threads.
LEMMA SizesSum ==
  ASSUME NEW p \in Calls, NEW A \in SUBSET Threads
  PROVE  \E g : SumsUp(g, A, [t \in A |-> p[t].size]) /\ Sizes(p, A) = g[A]
<1> DEFINE w == [t \in A |-> p[t].size]
           Sums(g) == g = [T \in SUBSET A |-> IF T = {} THEN 0
                       ELSE p[CHOOSE x \in T : TRUE].size + g[T \ {CHOOSE x \in T : TRUE}]]
<1>1. \A T \in SUBSET A : T # {} => Pick(T) \in A /\ w[Pick(T)] = p[Pick(T)].size
  BY DEF Pick
<1>2. PICK g : SumsUp(g, A, w)
  <2>1. \A x \in A : w[x] \in Nat
    BY DEF Calls, CommonThread
  <2>2. IsFiniteSet(A)
    BY ConstantsOK, FS_Subset
  <2> HIDE DEF w
  <2> QED
    BY <2>1, <2>2, SumExists
<1>3. ASSUME NEW h PROVE SumsUp(h, A, w) <=> Sums(h)
  <2>1. [T \in SUBSET A |-> IF T = {} THEN 0 ELSE w[Pick(T)] + h[T \ {Pick(T)}]]
          = [T \in SUBSET A |-> IF T = {} THEN 0 ELSE p[Pick(T)].size + h[T \ {Pick(T)}]]
    BY <1>1
  <2> QED
    BY <2>1 DEF SumsUp, Pick
<1>4. Sizes(p, A) = (CHOOSE h : Sums(h))[A]
  BY DEF Sizes, Common!MapThenSumSet, Common!MapThenFoldSet
<1>5. Sums(CHOOSE h : Sums(h))
  <2>1. Sums(g)
    BY <1>2, <1>3
  <2> HIDE DEF Sums
  <2> QED
    BY <2>1
<1> QED
  <2> HIDE DEF Sums, w
  <2> QED
    BY <1>3, <1>4, <1>5 DEF w

\* The sum is that of the sizes, one call more or less.
LEMMA SizesFacts ==
  ASSUME NEW p \in Calls, NEW q \in Calls, NEW A \in SUBSET Threads,
         \A t \in A : p[t].size = q[t].size
  PROVE  /\ Sizes(q, A) = Sizes(p, A) /\ Sizes(p, A) \in Nat
         /\ A = {} => Sizes(p, A) = 0
<1>1. PICK w, v : w = [t \in A |-> p[t].size] /\ v = [t \in A |-> q[t].size]
  OBVIOUS
<1>2. PICK g, h : /\ SumsUp(g, A, w) /\ Sizes(p, A) = g[A]
                  /\ SumsUp(h, A, v) /\ Sizes(q, A) = h[A]
  BY <1>1, SizesSum
<1>3. IsFiniteSet(A) /\ A \subseteq A
  BY ConstantsOK, FS_Subset
<1>4. (\A x \in A : w[x] \in Nat) /\ (\A x \in A : v[x] \in Nat) /\ (\A x \in A : w[x] = v[x])
  BY <1>1 DEF Calls, CommonThread
<1>5. g[A] = h[A]
  <2>1. \A x \in A : w[x] \in Nat
    BY <1>4
  <2>2. \A x \in A : v[x] \in Nat
    BY <1>4
  <2>3. \A x \in A : w[x] = v[x]
    BY <1>4
  <2> QED
    BY <1>2, <1>3, <2>1, <2>2, <2>3, SumAgrees
<1>6. g[{}] = 0 /\ \A T \in SUBSET A : g[T] \in Nat
  BY <1>2, <1>3, <1>4, SumAdds
<1> QED
  BY <1>2, <1>5, <1>6

\* One thread more.
LEMMA SizesAdd ==
  ASSUME NEW p \in Calls, NEW q \in Calls, NEW A \in SUBSET Threads, NEW t \in Threads \ A,
         \A u \in A : p[u].size = q[u].size
  PROVE  Sizes(q, A \cup {t}) = q[t].size + Sizes(p, A)
<1>1. PICK B \in SUBSET Threads : B = A \cup {t}
  OBVIOUS
<1>2. PICK v, w : v = [u \in B |-> q[u].size] /\ w = [u \in A |-> p[u].size]
  OBVIOUS
<1>3. PICK g, h : /\ SumsUp(g, B, v) /\ Sizes(q, B) = g[B]
                  /\ SumsUp(h, A, w) /\ Sizes(p, A) = h[A]
  BY <1>2, SizesSum
<1>4. IsFiniteSet(A) /\ IsFiniteSet(B) /\ A \subseteq B /\ A \subseteq A
  BY <1>1, ConstantsOK, FS_Subset
<1>5. \A x \in B : v[x] \in Nat
  BY <1>1, <1>2 DEF Calls, CommonThread
<1>6. \A x \in A : w[x] \in Nat
  BY <1>2 DEF Calls, CommonThread
<1>7. \A x \in A : v[x] = w[x]
  BY <1>1, <1>2
<1>8. g[A] = h[A]
  BY <1>3, <1>4, <1>5, <1>6, <1>7, SumAgrees
<1>9. ASSUME NEW T \in SUBSET B, NEW x \in T
      PROVE  g[T] = v[x] + g[T \ {x}]
  <2>1. SumsUp(g, B, v)
    BY <1>3
  <2>2. IsFiniteSet(B)
    BY <1>4
  <2>3. /\ g[{}] = 0
        /\ \A U \in SUBSET B : g[U] \in Nat
        /\ \A U \in SUBSET B : \A y \in U : g[U] = v[y] + g[U \ {y}]
    BY ONLY <1>5, <2>1, <2>2, SumAdds
  <2> QED
    BY <2>3
<1>10. B \in SUBSET B /\ t \in B /\ B \ {t} = A /\ v[t] = q[t].size
  BY <1>1, <1>2
<1>11. g[B] = v[t] + g[B \ {t}]
  BY <1>9, <1>10
<1> QED
  BY <1>1, <1>3, <1>8, <1>10, <1>11

\* The bytes that threads are about to count, or to discount.
Sum(p, where) == Sizes(p, {t \in Threads : p[t].at = where})

\* One thread starts or ends a call that counts.
LEMMA SumMoves ==
  ASSUME NEW p \in Calls, NEW q \in Calls, NEW t \in Threads,
         \A u \in Threads \ {t} : q[u] = p[u], NEW where
  PROVE  /\ Sum(p, where) \in Nat /\ Sum(q, where) \in Nat
         /\ p[t].at # where /\ q[t].at # where => Sum(q, where) = Sum(p, where)
         /\ p[t].at # where /\ q[t].at = where => Sum(q, where) = q[t].size + Sum(p, where)
         /\ p[t].at = where /\ q[t].at # where => Sum(p, where) = p[t].size + Sum(q, where)
<1>1. PICK A \in SUBSET Threads, B \in SUBSET Threads :
        A = {u \in Threads : p[u].at = where} /\ B = {u \in Threads : q[u].at = where}
  OBVIOUS
<1>2. Sum(p, where) = Sizes(p, A) /\ Sum(q, where) = Sizes(q, B)
  BY <1>1 DEF Sum
<1>3. Sizes(p, A) \in Nat /\ Sizes(q, B) \in Nat
  BY SizesFacts
<1>4. CASE p[t].at # where /\ q[t].at # where
  <2>1. A = B /\ \A u \in A : p[u].size = q[u].size
    BY <1>1, <1>4
  <2> QED
    BY <1>2, <1>3, <1>4, <2>1, SizesFacts
<1>5. CASE p[t].at # where /\ q[t].at = where
  <2>1. B = A \cup {t} /\ t \in Threads \ A /\ \A u \in A : p[u].size = q[u].size
    BY <1>1, <1>5
  <2> QED
    BY <1>2, <1>3, <1>5, <2>1, SizesAdd
<1>6. CASE p[t].at = where /\ q[t].at # where
  <2>1. A = B \cup {t} /\ t \in Threads \ B /\ \A u \in B : q[u].size = p[u].size
    BY <1>1, <1>6
  <2> QED
    BY <1>2, <1>3, <1>6, <2>1, SizesAdd
<1>7. CASE p[t].at = where /\ q[t].at = where
  BY <1>2, <1>3, <1>7
<1> QED
  BY <1>4, <1>5, <1>6, <1>7

CommonMemory == [active : Int, live : SUBSET Buffer, lost : Int]

\* A call that is about to count has a block, or none, that is nobody else's.
CommonCalls ==
  /\ pc \in Calls
  /\ \A t \in Threads : pc[t].at = "count" =>
       pc[t].buf = NoBuffer \/ pc[t].buf \in memory.live \ held
  /\ \A t, u \in Threads :
       pc[t].at = "count" /\ pc[u].at = "count" /\ pc[t].buf = pc[u].buf
         => t = u \/ pc[t].buf = NoBuffer

CommonSums ==
  memory.active + Sum(pc, "count") = Cache!Bytes(memory.live) + memory.lost + Sum(pc, "discount")

\* The inductive invariant.
CommonInv ==
  /\ memory \in CommonMemory /\ IsFiniteSet(memory.live) /\ held \subseteq memory.live
  /\ CommonCalls /\ CommonSums

\* The bytes of a set mean the same to both models.
LEMMA CommonBytes == \A S : Common!Bytes(S) = Cache!Bytes(S)
  BY DEF Common!Bytes, Cache!Bytes, Common!MapThenSumSet, Cache!MapThenSumSet,
         Common!MapThenFoldSet, Cache!MapThenFoldSet

\* The invariant gives what the runs check.
LEMMA CommonInvIsAccounted ==
  ASSUME CommonInv
  PROVE  Common!Accounted
<1>1. /\ Sum(pc, "count")
           = Common!MapThenSumSet(LAMBDA t : pc[t].size, {t \in Threads : Common!At(t, "count")})
      /\ Sum(pc, "discount")
           = Common!MapThenSumSet(LAMBDA t : pc[t].size, {t \in Threads : Common!At(t, "discount")})
  BY DEF Sum, Sizes, Common!At
<1> QED
  BY <1>1, CommonBytes DEF CommonInv, CommonSums, Common!Accounted

\* The least of a set of sizes.
LEMMA CommonMinIs ==
  ASSUME NEW S \in SUBSET Nat, S # {}
  PROVE  Common!Min(S) \in S /\ Common!Min(S) \in Nat
<1>1. \E n \in S : \A k \in S : n <= k
  BY LeastNat
<1>2. Common!Min(S) \in S
  BY <1>1 DEF Common!Min
<1> QED
  BY <1>2

\* The types that follow from the invariant.
LEMMA CommonFacts ==
  ASSUME CommonInv
  PROVE  /\ memory.active \in Int /\ memory.lost \in Int /\ memory.live \subseteq Buffer
         /\ AllSized(memory.live) /\ Cache!Bytes(memory.live) \in Nat /\ pc \in Calls
         /\ \A t \in Threads : pc[t].size \in Nat
<1>1. /\ memory.active \in Int /\ memory.lost \in Int /\ memory.live \subseteq Buffer
      /\ IsFiniteSet(memory.live)
  BY DEF CommonInv, CommonMemory
<1>2. AllSized(memory.live)
  BY <1>1 DEF AllSized, Buffer
<1>3. pc \in Calls
  BY DEF CommonInv, CommonCalls
<1> QED
  BY <1>1, <1>2, <1>3, BytesFacts DEF Calls, CommonThread

\* n is the bytes the threads are about to count (or discount) once thread t
\* goes on to r.
Goes(where, t, r, n) ==
  /\ pc[t].at # where /\ r.at # where => n = Sum(pc, where)
  /\ pc[t].at # where /\ r.at = where => n = r.size + Sum(pc, where)
  /\ pc[t].at = where /\ r.at # where => Sum(pc, where) = pc[t].size + n

\* What a step of thread t to r has to show.
CommonGoes(t, r, act, alive, gone) ==
  /\ pc' = [pc EXCEPT ![t] = r]
  /\ memory' = [active |-> act, live |-> alive, lost |-> gone]
  /\ IsFiniteSet(alive) /\ held' \subseteq alive
  /\ \A u \in Threads \ {t} : pc[u].at = "count" /\ pc[u].buf # NoBuffer
       => pc[u].buf \in alive \ held' /\ (r.at = "count" => pc[u].buf # r.buf)
  /\ r.at = "count" => r.buf = NoBuffer \/ r.buf \in alive \ held'
  /\ \A c, d \in Nat : Goes("count", t, r, c) /\ Goes("discount", t, r, d)
       => act + c = Cache!Bytes(alive) + gone + d

\* A step of a thread that moves bytes between the counter, what lives and the
\* calls in progress.
LEMMA CommonStep ==
  ASSUME CommonInv, NEW t \in Threads, NEW r \in CommonThread,
         NEW act \in Int, NEW alive \in SUBSET Buffer, NEW gone \in Int,
         CommonGoes(t, r, act, alive, gone)
  PROVE  CommonInv'
<1>1. PICK p, q : p = pc /\ q = pc'
  OBVIOUS
<1>2. /\ p \in Calls /\ q \in Calls /\ q[t] = r /\ \A u \in Threads \ {t} : q[u] = p[u]
  BY <1>1, CommonFacts DEF Calls, CommonGoes
<1>3. memory' \in CommonMemory /\ memory'.active = act /\ memory'.live = alive /\ memory'.lost = gone
  BY DEF CommonMemory, CommonGoes
<1>4. CommonCalls'
  <2>1. \A u \in Threads : q[u].at = "count" => q[u].buf = NoBuffer \/ q[u].buf \in alive \ held'
    BY <1>1, <1>2 DEF CommonGoes
  <2>2. \A u, v \in Threads :
          p[u].at = "count" /\ p[v].at = "count" /\ p[u].buf = p[v].buf
            => u = v \/ p[u].buf = NoBuffer
    BY <1>1 DEF CommonInv, CommonCalls
  <2>3. \A u, v \in Threads :
          q[u].at = "count" /\ q[v].at = "count" /\ q[u].buf = q[v].buf
            => u = v \/ q[u].buf = NoBuffer
    <3> TAKE u, v \in Threads
    <3>1. CASE u # t /\ v # t
      BY <1>2, <2>2, <3>1
    <3>2. CASE u = t \/ v = t
      BY <1>1, <1>2, <3>2 DEF CommonGoes
    <3> QED
      BY <3>1, <3>2
  <2> QED
    BY <1>1, <1>2, <1>3, <2>1, <2>3 DEF CommonCalls
<1>5. CommonSums'
  <2>1. PICK c \in Nat, d \in Nat : c = Sum(q, "count") /\ d = Sum(q, "discount")
    BY <1>2, SumMoves
  <2>2. ASSUME NEW where PROVE Goes(where, t, r, Sum(q, where))
    <3>1. /\ p[t].at # where /\ q[t].at # where => Sum(q, where) = Sum(p, where)
          /\ p[t].at # where /\ q[t].at = where => Sum(q, where) = q[t].size + Sum(p, where)
          /\ p[t].at = where /\ q[t].at # where => Sum(p, where) = p[t].size + Sum(q, where)
      BY <1>2, SumMoves
    <3> QED
      BY <1>1, <1>2, <3>1 DEF Goes
  <2>3. Goes("count", t, r, c) /\ Goes("discount", t, r, d)
    BY <2>1, <2>2
  <2>4. act + c = Cache!Bytes(alive) + gone + d
    BY <2>3 DEF CommonGoes
  <2> QED
    BY <1>1, <1>3, <2>1, <2>4 DEF CommonSums
<1> QED
  BY <1>3, <1>4, <1>5 DEF CommonInv, CommonGoes

\* The states of a call.
LEMMA CommonStates ==
  /\ Common!Idle \in CommonThread /\ Common!Idle.at = "idle"
  /\ \A where \in {"count", "discount"}, size \in Nat, b \in Link :
       LET r == [at |-> where, size |-> size, buf |-> b]
       IN  r \in CommonThread /\ r.at = where /\ r.size = size /\ r.buf = b
  BY DEF Common!Idle, CommonThread, Link

\* What the invariant says of the calls that are about to count.
LEMMA CommonOwn ==
  ASSUME CommonInv, NEW u \in Threads, pc[u].at = "count", pc[u].buf # NoBuffer
  PROVE  /\ pc[u].buf \in memory.live \ held
         /\ \A t \in Threads \ {u} : pc[t].at = "count" => pc[t].buf # pc[u].buf
  BY DEF CommonInv, CommonCalls

\* No call is in progress at first.
LEMMA CommonInit ==
  ASSUME Common!Init
  PROVE  CommonInv
<1>1. /\ memory = [active |-> 0, live |-> {}, lost |-> 0] /\ held = {}
      /\ pc = [t \in Threads |-> Common!Idle]
  BY DEF Common!Init
<1>2. memory \in CommonMemory /\ memory.active = 0 /\ memory.live = {} /\ memory.lost = 0
  BY <1>1 DEF CommonMemory
<1>3. pc \in Calls /\ \A t \in Threads : pc[t].at = "idle"
  BY <1>1, CommonStates DEF Calls
<1>4. CommonCalls
  BY <1>3 DEF CommonCalls
<1>5. Sum(pc, "count") = 0 /\ Sum(pc, "discount") = 0
  <2>1. {t \in Threads : pc[t].at = "count"} = {} /\ {t \in Threads : pc[t].at = "discount"} = {}
    BY <1>3
  <2>2. PICK none \in SUBSET Threads : none = {}
    OBVIOUS
  <2>3. Sizes(pc, none) = 0
    BY <1>3, <2>2, SizesFacts
  <2> QED
    BY <2>1, <2>2, <2>3 DEF Sum
<1>6. Cache!Bytes({}) = 0
  BY BytesFacts, FS_EmptySet DEF AllSized
<1>7. CommonSums
  BY <1>2, <1>5, <1>6 DEF CommonSums
<1> QED
  BY <1>1, <1>2, <1>4, <1>7, FS_EmptySet DEF CommonInv

\* malloc, up to std::malloc.
LEMMA TakeMemoryKeeps ==
  ASSUME CommonInv, NEW t \in Threads, NEW size \in Nat, Common!TakeMemory(t, size)
  PROVE  CommonInv'
<1>1. PICK free : free = CommonIds \ {b.id : b \in memory.live}
  OBVIOUS
<1>2. PICK id \in Nat : id = Common!Min(free) /\ id \in free
  <2>1. free \in SUBSET Nat /\ free # {}
    BY <1>1, ConstantsOK DEF Common!TakeMemory
  <2> QED
    BY <2>1, CommonMinIs
<1>3. PICK b : b = [id |-> id, size |-> size, where |-> "malloc"]
  OBVIOUS
<1>4. b \in Buffer /\ b.id = id /\ b.size = size /\ b # NoBuffer
  <2>1. b \in Buffer /\ b.id = id /\ b.size = size
    BY <1>3 DEF Buffer, Places
  <2> QED
    BY <2>1, NullIsNoBuffer
<1>5. b \notin memory.live
  BY <1>1, <1>2, <1>4
<1>6. PICK r : r = [at |-> "count", size |-> size, buf |-> b]
  OBVIOUS
<1>7. /\ pc[t].at = "idle" /\ held' = held /\ pc' = [pc EXCEPT ![t] = r]
      /\ memory' = [memory EXCEPT !.live = memory.live \cup {b}]
  BY <1>1, <1>2, <1>3, <1>6 DEF Common!TakeMemory, Common!At
<1>8. r \in CommonThread /\ r.at = "count" /\ r.size = size /\ r.buf = b
  BY <1>4, <1>6, CommonStates DEF Link
<1>9. PICK act \in Int, alive \in SUBSET Buffer, gone \in Int :
        act = memory.active /\ alive = memory.live \cup {b} /\ gone = memory.lost
  BY <1>4, CommonFacts
<1>10. memory' = [active |-> act, live |-> alive, lost |-> gone]
  BY <1>7, <1>9 DEF CommonInv, CommonMemory
<1>11. IsFiniteSet(alive) /\ held' \subseteq alive
  BY <1>7, <1>9, FS_AddElement DEF CommonInv
<1>12. \A u \in Threads \ {t} : pc[u].at = "count" /\ pc[u].buf # NoBuffer
         => pc[u].buf \in alive \ held' /\ (r.at = "count" => pc[u].buf # r.buf)
  BY <1>5, <1>7, <1>8, <1>9, CommonOwn
<1>13. r.buf \in alive \ held'
  BY <1>5, <1>7, <1>8, <1>9 DEF CommonInv
<1>14. \A c, d \in Nat : Goes("count", t, r, c) /\ Goes("discount", t, r, d)
         => act + c = Cache!Bytes(alive) + gone + d
  <2> TAKE c, d \in Nat
  <2> HAVE Goes("count", t, r, c) /\ Goes("discount", t, r, d)
  <2>1. c = size + Sum(pc, "count") /\ d = Sum(pc, "discount")
    BY <1>7, <1>8 DEF Goes
  <2>2. Cache!Bytes(alive) = Cache!Bytes(memory.live) + size
    BY <1>4, <1>5, <1>9, BytesAdd, CommonFacts
  <2>3. PICK i \in Nat, j \in Nat, k \in Nat : /\ i = Sum(pc, "count") /\ j = Sum(pc, "discount")
                                               /\ k = Cache!Bytes(memory.live)
    BY SumMoves, CommonFacts
  <2>4. act + i = k + gone + j
    BY <1>9, <2>3 DEF CommonInv, CommonSums
  <2> QED
    BY <2>1, <2>2, <2>3, <2>4
<1>15. CommonGoes(t, r, act, alive, gone)
  BY <1>7, <1>8, <1>10, <1>11, <1>12, <1>13, <1>14 DEF CommonGoes
<1> QED
  BY <1>8, <1>15, CommonStep

\* malloc when std::malloc failed.
LEMMA NoMemoryKeeps ==
  ASSUME CommonInv, NEW t \in Threads, NEW size \in Nat, Common!NoMemory(t, size)
  PROVE  CommonInv'
<1>1. PICK r : r = [at |-> "count", size |-> size, buf |-> NoBuffer]
  OBVIOUS
<1>2. /\ pc[t].at = "idle" /\ held' = held /\ pc' = [pc EXCEPT ![t] = r]
      /\ memory' = [memory EXCEPT !.lost = memory.lost + size]
  BY <1>1 DEF Common!NoMemory, Common!At
<1>3. r \in CommonThread /\ r.at = "count" /\ r.size = size /\ r.buf = NoBuffer
  BY <1>1, CommonStates DEF Link
<1>4. PICK act \in Int, alive \in SUBSET Buffer, gone \in Int :
        act = memory.active /\ alive = memory.live /\ gone = memory.lost + size
  BY CommonFacts
<1>5. memory' = [active |-> act, live |-> alive, lost |-> gone]
  BY <1>2, <1>4 DEF CommonInv, CommonMemory
<1>6. IsFiniteSet(alive) /\ held' \subseteq alive
  BY <1>2, <1>4 DEF CommonInv
<1>7. \A u \in Threads \ {t} : pc[u].at = "count" /\ pc[u].buf # NoBuffer
         => pc[u].buf \in alive \ held' /\ (r.at = "count" => pc[u].buf # r.buf)
  BY <1>2, <1>3, <1>4, CommonOwn
<1>8. \A c, d \in Nat : Goes("count", t, r, c) /\ Goes("discount", t, r, d)
         => act + c = Cache!Bytes(alive) + gone + d
  <2> TAKE c, d \in Nat
  <2> HAVE Goes("count", t, r, c) /\ Goes("discount", t, r, d)
  <2>1. c = size + Sum(pc, "count") /\ d = Sum(pc, "discount")
    BY <1>2, <1>3 DEF Goes
  <2>2. PICK i \in Nat, j \in Nat, k \in Nat : /\ i = Sum(pc, "count") /\ j = Sum(pc, "discount")
                                               /\ k = Cache!Bytes(memory.live)
    BY SumMoves, CommonFacts
  <2>3. act + i = k + memory.lost + j /\ memory.lost \in Int
    BY <1>4, <2>2, CommonFacts DEF CommonInv, CommonSums
  <2> QED
    BY <1>4, <2>1, <2>2, <2>3
<1>9. CommonGoes(t, r, act, alive, gone)
  BY <1>2, <1>3, <1>5, <1>6, <1>7, <1>8 DEF CommonGoes
<1> QED
  BY <1>3, <1>9, CommonStep

\* The rest of malloc: the buffer is counted.
LEMMA CountKeeps ==
  ASSUME CommonInv, NEW t \in Threads, Common!Count(t)
  PROVE  CommonInv'
<1>1. PICK r, own : r = Common!Idle /\ own = {pc[t].buf} \ {NoBuffer}
  OBVIOUS
<1>2. /\ pc[t].at = "count" /\ held' = held \cup own /\ pc' = [pc EXCEPT ![t] = r]
      /\ memory' = [memory EXCEPT !.active = memory.active + pc[t].size]
  BY <1>1 DEF Common!Count, Common!At
<1>3. r \in CommonThread /\ r.at = "idle"
  BY <1>1, CommonStates
<1>4. PICK size \in Nat : size = pc[t].size
  BY CommonFacts
<1>5. PICK act \in Int, alive \in SUBSET Buffer, gone \in Int :
        act = memory.active + size /\ alive = memory.live /\ gone = memory.lost
  BY CommonFacts
<1>6. memory' = [active |-> act, live |-> alive, lost |-> gone]
  BY <1>2, <1>4, <1>5 DEF CommonInv, CommonMemory
<1>7. IsFiniteSet(alive) /\ held' \subseteq alive
  BY <1>1, <1>2, <1>5, CommonOwn DEF CommonInv
<1>8. \A u \in Threads \ {t} : pc[u].at = "count" /\ pc[u].buf # NoBuffer
         => pc[u].buf \in alive \ held' /\ (r.at = "count" => pc[u].buf # r.buf)
  BY <1>1, <1>2, <1>3, <1>5, CommonOwn
<1>9. \A c, d \in Nat : Goes("count", t, r, c) /\ Goes("discount", t, r, d)
         => act + c = Cache!Bytes(alive) + gone + d
  <2> TAKE c, d \in Nat
  <2> HAVE Goes("count", t, r, c) /\ Goes("discount", t, r, d)
  <2>1. Sum(pc, "count") = size + c /\ d = Sum(pc, "discount")
    BY <1>2, <1>3, <1>4 DEF Goes
  <2>2. PICK i \in Nat, j \in Nat, k \in Nat : /\ i = Sum(pc, "count") /\ j = Sum(pc, "discount")
                                               /\ k = Cache!Bytes(memory.live)
    BY SumMoves, CommonFacts
  <2>3. memory.active + i = k + gone + j /\ memory.active \in Int
    BY <1>5, <2>2, CommonFacts DEF CommonInv, CommonSums
  <2> QED
    BY <1>5, <2>1, <2>2, <2>3
<1>10. CommonGoes(t, r, act, alive, gone)
  BY <1>2, <1>3, <1>6, <1>7, <1>8, <1>9 DEF CommonGoes
<1> QED
  BY <1>3, <1>10, CommonStep

\* free, up to std::free.
LEMMA ReturnMemoryKeeps ==
  ASSUME CommonInv, NEW t \in Threads, NEW b \in held, Common!ReturnMemory(t, b)
  PROVE  CommonInv'
<1>1. b \in memory.live /\ b \in Buffer
  BY CommonFacts DEF CommonInv
<1>2. PICK size \in Nat : size = b.size
  BY <1>1 DEF Buffer
<1>3. PICK r : r = [at |-> "discount", size |-> size, buf |-> b]
  OBVIOUS
<1>4. /\ pc[t].at = "idle" /\ held' = held \ {b} /\ pc' = [pc EXCEPT ![t] = r]
      /\ memory' = [memory EXCEPT !.live = memory.live \ {b}]
  BY <1>2, <1>3 DEF Common!ReturnMemory, Common!At
<1>5. r \in CommonThread /\ r.at = "discount" /\ r.size = size
  BY <1>1, <1>3, CommonStates DEF Link
<1>6. PICK act \in Int, alive \in SUBSET Buffer, gone \in Int :
        act = memory.active /\ alive = memory.live \ {b} /\ gone = memory.lost
  BY CommonFacts
<1>7. memory' = [active |-> act, live |-> alive, lost |-> gone]
  BY <1>4, <1>6 DEF CommonInv, CommonMemory
<1>8. IsFiniteSet(alive) /\ held' \subseteq alive
  <2>1. alive \subseteq memory.live
    BY <1>6
  <2> QED
    BY <1>4, <1>6, <2>1, FS_Subset DEF CommonInv
<1>9. \A u \in Threads \ {t} : pc[u].at = "count" /\ pc[u].buf # NoBuffer
         => pc[u].buf \in alive \ held' /\ (r.at = "count" => pc[u].buf # r.buf)
  BY <1>4, <1>5, <1>6, CommonOwn
<1>10. \A c, d \in Nat : Goes("count", t, r, c) /\ Goes("discount", t, r, d)
         => act + c = Cache!Bytes(alive) + gone + d
  <2> TAKE c, d \in Nat
  <2> HAVE Goes("count", t, r, c) /\ Goes("discount", t, r, d)
  <2>1. c = Sum(pc, "count") /\ d = size + Sum(pc, "discount")
    BY <1>4, <1>5 DEF Goes
  <2>2. Cache!Bytes(memory.live) = size + Cache!Bytes(alive) /\ Cache!Bytes(alive) \in Nat
    BY <1>1, <1>2, <1>6, BytesFacts, CommonFacts
  <2>3. PICK i \in Nat, j \in Nat, k \in Nat : /\ i = Sum(pc, "count") /\ j = Sum(pc, "discount")
                                               /\ k = Cache!Bytes(alive)
    BY <2>2, SumMoves, CommonFacts
  <2>4. act + i = size + k + gone + j
    BY <1>6, <2>2, <2>3 DEF CommonInv, CommonSums
  <2> QED
    BY <2>1, <2>3, <2>4
<1>11. CommonGoes(t, r, act, alive, gone)
  BY <1>4, <1>5, <1>7, <1>8, <1>9, <1>10 DEF CommonGoes
<1> QED
  BY <1>5, <1>11, CommonStep

\* The rest of free: the buffer is not counted any longer.
LEMMA DiscountKeeps ==
  ASSUME CommonInv, NEW t \in Threads, Common!Discount(t)
  PROVE  CommonInv'
<1>1. PICK r : r = Common!Idle
  OBVIOUS
<1>2. /\ pc[t].at = "discount" /\ held' = held /\ pc' = [pc EXCEPT ![t] = r]
      /\ memory' = [memory EXCEPT !.active = memory.active - pc[t].size]
  BY <1>1 DEF Common!Discount, Common!At
<1>3. r \in CommonThread /\ r.at = "idle"
  BY <1>1, CommonStates
<1>4. PICK size \in Nat : size = pc[t].size
  BY CommonFacts
<1>5. PICK act \in Int, alive \in SUBSET Buffer, gone \in Int :
        act = memory.active - size /\ alive = memory.live /\ gone = memory.lost
  BY CommonFacts
<1>6. memory' = [active |-> act, live |-> alive, lost |-> gone]
  BY <1>2, <1>4, <1>5 DEF CommonInv, CommonMemory
<1>7. IsFiniteSet(alive) /\ held' \subseteq alive
  BY <1>2, <1>5 DEF CommonInv
<1>8. \A u \in Threads \ {t} : pc[u].at = "count" /\ pc[u].buf # NoBuffer
         => pc[u].buf \in alive \ held' /\ (r.at = "count" => pc[u].buf # r.buf)
  BY <1>2, <1>3, <1>5, CommonOwn
<1>9. \A c, d \in Nat : Goes("count", t, r, c) /\ Goes("discount", t, r, d)
         => act + c = Cache!Bytes(alive) + gone + d
  <2> TAKE c, d \in Nat
  <2> HAVE Goes("count", t, r, c) /\ Goes("discount", t, r, d)
  <2>1. c = Sum(pc, "count") /\ Sum(pc, "discount") = size + d
    BY <1>2, <1>3, <1>4 DEF Goes
  <2>2. PICK i \in Nat, j \in Nat, k \in Nat : /\ i = Sum(pc, "count") /\ j = Sum(pc, "discount")
                                               /\ k = Cache!Bytes(memory.live)
    BY SumMoves, CommonFacts
  <2>3. memory.active + i = k + gone + j /\ memory.active \in Int
    BY <1>5, <2>2, CommonFacts DEF CommonInv, CommonSums
  <2> QED
    BY <1>5, <2>1, <2>2, <2>3
<1>10. CommonGoes(t, r, act, alive, gone)
  BY <1>2, <1>3, <1>6, <1>7, <1>8, <1>9 DEF CommonGoes
<1> QED
  BY <1>3, <1>10, CommonStep

\* Every action of the CPU allocator keeps the invariant.
LEMMA CommonNext ==
  ASSUME CommonInv, Common!Next
  PROVE  CommonInv'
<1>1. \A size \in CommonRequests : size \in Nat
  BY ConstantsOK
<1>2. CASE \E n \in CommonLimits : Common!SetMemoryLimit(n)
  BY <1>2 DEF Common!SetMemoryLimit, CommonInv, CommonCalls, CommonSums
<1> QED
  BY <1>1, <1>2, TakeMemoryKeeps, NoMemoryKeeps, CountKeeps, ReturnMemoryKeeps, DiscountKeeps
     DEF Common!Next

-----------------------------------------------------------------------------
(* The allocators of the three backends *)

\* The inductive invariant: that of the backend of the build.
AllocatorInv ==
  /\ backend \in {"metal", "cuda", "no_gpu"}
  /\ backend = "metal" => MetalInv
  /\ backend = "cuda" => CudaInv
  /\ backend = "no_gpu" => CommonInv

\* The allocator of the build starts in the invariant.
LEMMA AllocatorInit ==
  ASSUME AllInit
  PROVE  AllocatorInv
<1>1. Init /\ backend \in {"metal", "cuda", "no_gpu"}
  BY ConstantsOK DEF AllInit, Init
<1> QED
  BY <1>1, MetalInit, CudaInit, CommonInit DEF Init, AllocatorInv

\* The invariant is about the variables of the allocators alone.
LEMMA AllocatorStutters ==
  ASSUME AllocatorInv, memory' = memory, limits' = limits, held' = held, pc' = pc,
         backend' = backend
  PROVE  AllocatorInv'
<1>1. MetalInv => MetalInv'
  BY DEF MetalInv, MetalThreads, MetalLimitsOK, MetalBounded, Metal!Releasing, Metal!At, Allocating
<1>2. CudaInv => CudaInv'
  BY DEF CudaInv, CudaThreads, CudaLimitsOK, Taken, Cuda!At
<1>3. CommonInv => CommonInv'
  BY DEF CommonInv, CommonCalls, CommonSums
<1> QED
  BY <1>1, <1>2, <1>3 DEF AllocatorInv

\* A step keeps it, and one that returns a buffer leaves the cache within its
\* limit.
LEMMA AllocatorNext ==
  ASSUME AllocatorInv, [AllNext]_allVars
  PROVE  /\ AllocatorInv'
         /\ backend \in {"metal", "cuda"} /\ held' \ held # {}
              => memory'.cache.size <= limits.maxPool
<1>1. CASE UNCHANGED vars
  BY <1>1, AllocatorStutters DEF vars
<1>2. CASE backend = "metal" /\ Metal!Next /\ UNCHANGED backend
  BY <1>2, MetalNext DEF AllocatorInv
<1>3. CASE backend = "cuda" /\ Cuda!Next /\ UNCHANGED backend
  BY <1>3, CudaNext DEF AllocatorInv
<1>4. CASE backend = "no_gpu" /\ Common!Next /\ UNCHANGED backend
  BY <1>4, CommonNext DEF AllocatorInv
<1>5. Next \/ UNCHANGED vars
  BY DEF AllNext, allVars, OnlyMetal, OnlyCuda
<1> QED
  BY <1>1, <1>2, <1>3, <1>4, <1>5 DEF Next

\* The invariant holds in every state.
LEMMA AllocatorInvariant == AllSpec => []AllocatorInv
<1>1. AllInit => AllocatorInv
  BY AllocatorInit
<1>2. AllocatorInv /\ [AllNext]_allVars => AllocatorInv'
  BY AllocatorNext
<1> QED
  BY <1>1, <1>2, PTL DEF AllSpec

\* The multimap and the list of a buffer cache hold the same buffers, each
\* once, in both directions, and pool_size_ is their sum.
THEOREM CacheIsConsistent == AllSpec => []CacheConsistent
<1>1. AllocatorInv => CacheConsistent
  <2> SUFFICES ASSUME AllocatorInv PROVE CacheConsistent
    OBVIOUS
  <2>1. CASE backend = "metal"
    <3>1. WellFormed(memory.cache)
      BY <2>1, MetalFacts DEF AllocatorInv
    <3> QED
      BY <2>1, <3>1, MetalCache, WellFormedIsConsistent DEF CacheConsistent
  <2>2. CASE backend = "cuda"
    <3>1. WellFormed(memory.cache)
      BY <2>2, CudaFacts DEF AllocatorInv
    <3> QED
      BY <2>2, <3>1, CudaCache, WellFormedIsConsistent DEF CacheConsistent
  <2>3. CASE backend = "no_gpu"
    BY <2>3 DEF CacheConsistent
  <2> QED
    BY <2>1, <2>2, <2>3 DEF AllocatorInv
<1> QED
  BY <1>1, AllocatorInvariant, PTL

\* The invariant gives what the runs check of the Metal allocator.
LEMMA MetalInvIsAccounted ==
  ASSUME MetalInv
  PROVE  Metal!Accounted
<1>1. PICK R : R = Metal!Releasing /\ MetalOwns(memory, held, R)
  BY DEF MetalInv, MetalMemoryOK
<1>2. /\ held \cap Elems(memory.cache.pool) = {}
      /\ memory.live = held \cup Elems(memory.cache.pool) \cup R
      /\ R \cap (held \cup Elems(memory.cache.pool)) = {}
      /\ memory.active = Cache!Bytes(held)
      /\ memory.numResources = Cardinality(held) + Len(memory.cache.pool)
  BY <1>1 DEF MetalOwns
<1> QED
  BY <1>1, <1>2, MetalCache DEF Metal!Accounted

\* The invariant gives what the runs check of the CUDA allocator.
LEMMA CudaInvIsAccounted ==
  ASSUME CudaInv
  PROVE  Cuda!Accounted
<1>1. PICK T : T = Taken /\ CudaOwns(memory, held, T)
  BY DEF CudaInv, CudaMemoryOK
<1>2. PICK O : O = held \cup Elems(memory.cache.pool) \cup T
  OBVIOUS
<1>3. O = Out(memory, held, T)
  BY <1>2 DEF Out
<1>4. /\ held \cap Elems(memory.cache.pool) = {}
      /\ T \cap (held \cup Elems(memory.cache.pool)) = {}
      /\ memory.live = {b \in O : b.where # "pool"} /\ Distinct(memory.free)
      /\ {b.id : b \in O \ memory.live} = Cuda!Blocks \ Elems(memory.free)
  BY <1>1, <1>3 DEF CudaOwns
<1>5. Cuda!IsInjective(memory.free)
  BY <1>4 DEF Distinct, Cuda!IsInjective
<1>6. \A t, u \in Threads : t # u /\ pc[t].buf = pc[u].buf => pc[t].buf = NoBuffer
  BY DEF CudaInv, CudaThreads
<1> QED
  BY <1>1, <1>2, <1>4, <1>5, <1>6, CudaCache DEF Cuda!Accounted, Taken

\* No buffer is lost, given out twice or freed while in use, and the statistics
\* are those of the buffers.
THEOREM BuffersAreAccounted == AllSpec => []BuffersAccounted
<1>1. AllocatorInv => BuffersAccounted
  BY MetalInvIsAccounted, CudaInvIsAccounted, CommonInvIsAccounted
     DEF AllocatorInv, BuffersAccounted
<1> QED
  BY <1>1, AllocatorInvariant, PTL

\* The residency set holds exactly the device buffers the allocator owns, and
\* what is wired fits the wired limit.
THEOREM ResidencyIsExact == AllSpec => []ResidencyExact
<1>1. AllocatorInv => ResidencyExact
  <2> SUFFICES ASSUME AllocatorInv, backend = "metal" PROVE Metal!ResidentOnce
    BY DEF ResidencyExact
  <2>1. MetalResident(memory, held)
    BY DEF AllocatorInv, MetalInv, MetalMemoryOK
  <2> QED
    BY <2>1, MetalCache DEF MetalResident, Metal!ResidentOnce
<1> QED
  BY <1>1, AllocatorInvariant, PTL

\* The limit of resources is overshot by the number of threads less one at most.
THEOREM ResourcesAreBounded == AllSpec => []ResourcesBounded
<1>1. AllocatorInv => ResourcesBounded
  <2> SUFFICES ASSUME AllocatorInv, backend = "metal" PROVE Metal!Overshoot
    BY DEF ResourcesBounded
  <2>1. MetalInv
    BY DEF AllocatorInv
  <2>2. PICK n \in Int : n = memory.numResources
    BY <2>1, MetalFacts
  <2>3. Cardinality(Allocating) \in Nat /\ Cardinality(Threads) \in Nat /\ ResourceLimit \in Nat
    BY <2>1, MetalFacts, FS_CardinalityType, FS_Subset
  <2>4. n <= ResourceLimit + Cardinality(Threads) - 1
    BY <2>1, <2>2, <2>3 DEF MetalInv, MetalBounded
  <2> QED
    BY <2>2, <2>4, MetalCache DEF Metal!Overshoot
<1> QED
  BY <1>1, AllocatorInvariant, PTL

\* An allocation that returns a buffer leaves the cache within its limit.
THEOREM CacheIsTrimmed == AllSpec => CacheTrimmed
<1>1. AllocatorInv /\ [AllNext]_allVars
        => [(backend \in {"metal", "cuda"} /\ held' \ held # {}) =>
              memory'.cache.size <= limits.maxPool]_vars
  BY AllocatorNext
<1> QED
  BY <1>1, AllocatorInvariant, PTL DEF AllSpec, CacheTrimmed

-----------------------------------------------------------------------------
(* When a malloc goes to the device *)

\* Remainders: what is below the modulus is its own, and the modulus may be
\* added.
LEMMA RemainderIs ==
  ASSUME NEW w \in Nat \ {0}, NEW x \in Int, NEW q \in Int, NEW r \in 0 .. w - 1, x = q * w + r
  PROVE  x % w = r
<1>1. PICK p \in Int, s \in Int : p = x \div w /\ s = x % w
  OBVIOUS
<1>2. x = w * p + s /\ s \in 0 .. w - 1
  BY <1>1
<1>3. PICK d \in Int : d = p - q
  OBVIOUS
<1>4. w * p = w * q + w * d
  BY <1>3
<1>5. w * d = r - s
  BY <1>2, <1>4
<1>6. d = 0
  <2>1. CASE d >= 1
    <3>1. w * d >= w
      BY <2>1
    <3> QED
      BY <1>2, <1>5, <3>1
  <2>2. CASE d <= -1
    <3>1. w * d <= -w
      BY <2>2
    <3> QED
      BY <1>2, <1>5, <3>1
  <2> QED
    BY <2>1, <2>2
<1>7. w * d = 0
  BY <1>6
<1> QED
  BY <1>1, <1>2, <1>5, <1>7

\* A number below the modulus is its own remainder.
LEMMA OwnRemainder ==
  ASSUME NEW w \in Nat \ {0}, NEW x \in 0 .. w - 1
  PROVE  x % w = x
<1>1. PICK q \in Int : q = 0
  OBVIOUS
<1>2. x = q * w + x /\ x \in Int
  BY <1>1
<1> QED
  BY <1>2, RemainderIs

\* Taking away at least a positive difference, and less than half the word,
\* leaves none that is positive.
LEMMA NoMorePositive ==
  ASSUME NEW w \in Nat \ {0}, NEW x \in Int, NEW n \in Int, n = x % w, 0 < n, 2 * n < w,
         NEW k \in Nat, n <= k, 2 * k < w
  PROVE  (x - k) % w = 0 \/ 2 * ((x - k) % w) >= w
<1>1. PICK q \in Int : q = x \div w
  OBVIOUS
<1>2. x = w * q + n
  BY <1>1
<1>3. PICK y \in Int : y = x - k
  OBVIOUS
<1>4. CASE n = k
  <2>1. y = q * w + 0 /\ 0 \in 0 .. w - 1
    <3>1. y = w * q /\ w * q = q * w /\ q * w \in Int
      BY <1>2, <1>3, <1>4
    <3> QED
      BY <3>1
  <2>2. y % w = 0
    BY <2>1, RemainderIs
  <2> QED
    BY <1>3, <2>2
<1>5. CASE n < k
  <2>1. PICK r \in 0 .. w - 1 : r = w + n - k
    <3>1. w + n - k \in 0 .. w - 1
      <4> SUFFICES ASSUME n \in Int, k \in Int, w \in Int, 0 < n, n < k, 2 * k < w
                   PROVE  w + n - k \in 0 .. w - 1
        BY <1>5
      <4> QED
        BY ONLY n \in Int, k \in Int, w \in Int, 0 < n, n < k, 2 * k < w
    <3> QED
      BY <3>1
  <2>2. PICK p \in Int : p = q - 1
    OBVIOUS
  <2>3. p * w = w * q - w
    BY <2>2
  <2>4. y = p * w + r
    BY <1>2, <1>3, <2>1, <2>3
  <2>5. y % w = r
    BY <2>4, RemainderIs
  <2>6. 2 * r >= w
    BY <2>1
  <2> QED
    BY <1>3, <2>5, <2>6
<1> QED
  BY <1>4, <1>5

\* What the allocators have taken stays below what size_t counts to, and what
\* a cache holds below half of that.
BytesFit ==
  /\ backend = "metal" => \A r \in MetalRequests : Metal!Required(Metal!Align(r)) < WordSize
  /\ backend = "cuda" => 2 * memory.cache.size < WordSize

\* A Metal malloc that goes to the device.
LEMMA MetalAllocates ==
  ASSUME MetalInv, NEW t \in Threads, NEW size \in Nat, Metal!MallocMiss(t, size),
         Metal!Required(size) < WordSize, pc' # pc
  PROVE  memory'.cache.size = 0 \/ memory'.active + memory'.cache.size + size <= limits.gc
<1>1. PICK need, gc, min : /\ need = Metal!Required(size) /\ gc = limits.gc
                           /\ min = (need - gc) % WordSize
  OBVIOUS
<1>2. /\ need = memory.active + memory.cache.size + size
      /\ memory.active \in Int /\ memory.cache.size \in Nat /\ need \in Int /\ gc \in Nat
      /\ WordSize \in Nat \ {0} /\ need < WordSize /\ ResourceLimit \in Nat
  <2>1. gc \in Nat
    BY <1>1 DEF MetalInv, MetalLimitsOK
  <2>2. need = memory.active + memory.cache.size + size
    BY <1>1 DEF Metal!Required
  <2> QED
    BY <1>1, <2>1, <2>2, MetalFacts, ConstantsOK
<1>3. \/ memory' = memory /\ ~(need >= gc)
      \/ memory' = Metal!Released(memory, min)
  <2>1. PICK pressed : pressed = (need >= gc \/ memory.numResources >= ResourceLimit)
    OBVIOUS
  <2>2. memory' = IF need >= gc \/ memory.numResources >= ResourceLimit
                  THEN Metal!Released(memory, min) ELSE memory
    BY <1>1 DEF Metal!MallocMiss
  <2> QED
    BY <2>2
<1>4. CASE memory' = memory /\ ~(need >= gc)
  BY <1>1, <1>2, <1>4
<1>5. CASE memory' = Metal!Released(memory, min)
  <2>1. min \in Int
    BY <1>1, <1>2
  <2>2. PICK R : MetalMemoryOK(memory, held, R)
    BY DEF MetalInv
  <2>3. /\ MetalMemoryOK(memory', held, R)
        /\ memory'.cache.size = 0 \/ memory.cache.size - memory'.cache.size >= min
        /\ memory'.cache.size \in Nat /\ memory'.cache.size <= memory.cache.size
    BY <1>5, <2>1, <2>2, ReleasedKeeps
  <2>4. memory'.active = memory.active
    BY <2>2, <2>3 DEF MetalMemoryOK, MetalOwns
  <2>5. CASE need < gc
    BY <1>1, <1>2, <2>3, <2>4, <2>5
  <2>6. CASE need >= gc
    <3>1. need - gc \in 0 .. WordSize - 1
      BY <1>2, <2>6
    <3>2. PICK d \in 0 .. WordSize - 1 : d = need - gc
      BY <3>1
    <3>3. d % WordSize = d
      BY <1>2, <3>2, OwnRemainder
    <3>4. min = need - gc
      BY <1>1, <3>2, <3>3
    <3>5. CASE memory.cache.size - memory'.cache.size >= min
      <4>1. memory'.active + memory'.cache.size + size <= need - min
        BY <1>2, <2>3, <2>4, <3>2, <3>4, <3>5
      <4> QED
        BY <1>1, <1>2, <3>4, <4>1, <2>3, <2>4
    <3> QED
      BY <2>3, <3>5
  <2> QED
    BY <1>2, <2>5, <2>6
<1> QED
  BY <1>3, <1>4, <1>5

\* No other step of Metal brings a thread there.
LEMMA MetalUnderLimit ==
  ASSUME MetalInv, Metal!Next, backend = "metal", BytesFit, NEW t \in Threads,
         pc'[t].at = "allocate", pc[t].at # "allocate"
  PROVE  memory'.cache.size = 0
           \/ memory'.active + memory'.cache.size + pc'[t].size <= limits.gc
<1>1. pc \in [Threads -> MetalThread]
  BY MetalFacts
<1>2. PICK u \in Threads, r \in MetalRequests : Metal!MallocMiss(u, Metal!Align(r))
  <2>1. ASSUME NEW u \in Threads, NEW p, pc' = [pc EXCEPT ![u] = p], p.at # "allocate"
        PROVE  FALSE
    BY <1>1, <2>1
  <2>2. ASSUME pc' = pc PROVE FALSE
    BY <2>2
  <2>3. Metal!Idle.at # "allocate"
    BY DEF Metal!Idle
  <2>4. ASSUME NEW u \in Threads, NEW size, Metal!MallocFromCache(u, size) PROVE FALSE
    BY <2>1, <2>3, <2>4 DEF Metal!MallocFromCache, Metal!Return
  <2>5. ASSUME NEW u \in Threads, Metal!MallocNew(u) \/ Metal!MallocFails(u)
                                    \/ Metal!ReleaseBuffer(u)
        PROVE  FALSE
    BY <2>1, <2>3, <2>5 DEF Metal!MallocNew, Metal!MallocFails, Metal!ReleaseBuffer, Metal!Return
  <2>6. ASSUME NEW u \in Threads, NEW b, Metal!Free(u, b) PROVE FALSE
    BY <2>1, <2>2, <2>6 DEF Metal!Free
  <2>7. ASSUME \/ \E n \in MetalLimits :
                    Metal!SetCacheLimit(n) \/ Metal!SetMemoryLimit(n) \/ Metal!SetWiredLimit(n)
               \/ Metal!ClearCache
        PROVE  FALSE
    BY <2>2, <2>7 DEF Metal!SetCacheLimit, Metal!SetMemoryLimit, Metal!SetWiredLimit,
                      Metal!ClearCache
  <2> QED
    BY <2>4, <2>5, <2>6, <2>7 DEF Metal!Next, Metal!Malloc
<1>3. PICK size : size = Metal!Align(r)
  OBVIOUS
<1>4. pc' # pc
  OBVIOUS
<1>5. pc' = [pc EXCEPT ![u] = [at |-> "allocate", size |-> size, buf |-> NoBuffer]]
  BY <1>2, <1>3, <1>4 DEF Metal!MallocMiss
<1>6. u = t /\ pc'[t].size = size
  BY <1>1, <1>5
<1>7. size \in Nat /\ Metal!Required(size) < WordSize
  <2>1. r \in Nat
    BY ConstantsOK
  <2>2. (r + 2 - 1) \div 2 \in Nat
    BY <2>1
  <2> QED
    BY <1>3, <2>1, <2>2 DEF Metal!Align, BytesFit
<1> QED
  BY <1>2, <1>3, <1>4, <1>6, <1>7, MetalAllocates

\* A CUDA malloc that goes to the device.
LEMMA CudaAllocates ==
  ASSUME CudaInv, NEW t \in Threads, NEW size \in Nat, Cuda!MallocMiss(t, size),
         2 * memory.cache.size < WordSize
  PROVE  memory'.cache.size = 0
           \/ ~Positive(((memory'.active + memory'.cache.size + size) - limits.memory) % WordSize)
<1>1. PICK x, n, min, m :
        /\ x = memory.active + memory.cache.size + size - limits.memory
        /\ n = x % WordSize
        /\ min = Cuda!MemToFree(size)
        /\ m = IF min > 0 THEN Cuda!Released(memory, min) ELSE memory
  OBVIOUS
<1>2. /\ memory \in CudaMemory /\ memory.active \in Int /\ memory.cache.size \in Nat
      /\ limits.memory \in Nat /\ WordSize \in Nat \ {0} /\ x \in Int
  <2>1. /\ memory \in CudaMemory /\ memory.active \in Int /\ memory.cache.size \in Nat
        /\ limits.memory \in Nat
    BY CudaFacts
  <2> QED
    BY <1>1, <2>1, ConstantsOK
<1>3. n \in 0 .. WordSize - 1 /\ min = IF 2 * n >= WordSize THEN n - WordSize ELSE n
  <2>1. n \in 0 .. WordSize - 1
    BY <1>1, <1>2
  <2> QED
    BY <1>1, <2>1 DEF Cuda!MemToFree
<1>4. memory'.cache = m.cache /\ memory'.active = m.active
  <2>1. memory' = Cuda!TakeBlock(m, size).m
    BY <1>1 DEF Cuda!MallocMiss
  <2>2. memory' = m \/ memory' = [m EXCEPT !.free = Tail(m.free)]
    BY <2>1 DEF Cuda!TakeBlock
  <2>3. m \in CudaMemory
    <3>1. PICK T : CudaMemoryOK(memory, held, T)
      BY DEF CudaInv
    <3>2. min \in Int
      BY <1>2, <1>3
    <3>3. CudaMemoryOK(m, held, T)
      BY <1>1, <3>1, <3>2, CudaReleasedKeeps
    <3> QED
      BY <3>3 DEF CudaMemoryOK
  <2> QED
    BY <2>2, <2>3 DEF CudaMemory
<1>5. CASE ~Positive(n)
  <2>1. ~(min > 0)
    BY <1>2, <1>3, <1>5 DEF Positive
  <2>2. m = memory
    BY <1>1, <2>1
  <2>3. (memory'.active + memory'.cache.size + size) - limits.memory = x
    BY <1>1, <1>2, <1>4, <2>2
  <2> QED
    BY <1>1, <1>5, <2>3
<1>6. CASE Positive(n)
  <2>1. min = n /\ min > 0 /\ min \in Int /\ 2 * n < WordSize
    BY <1>2, <1>3, <1>6 DEF Positive
  <2>2. m = Cuda!Released(memory, min)
    BY <1>1, <2>1
  <2>3. m.active = memory.active
    <3>1. PICK r, o : /\ r = Cuda!ReleaseCachedBuffers(memory.cache, min)
                      /\ o = [memory EXCEPT !.cache = r.cache]
      OBVIOUS
    <3>2. m = Cuda!CudaFree(o, r.freed)
      BY <2>2, <3>1 DEF Cuda!Released
    <3>3. o.active = memory.active /\ "active" \in DOMAIN o
      BY <1>2, <3>1 DEF CudaMemory
    <3>4. m.active = o.active
      BY <3>2, <3>3 DEF Cuda!CudaFree
    <3> QED
      BY <3>3, <3>4
  <2>4. PICK T : CudaMemoryOK(memory, held, T)
    BY DEF CudaInv
  <2>5. /\ m.cache.size = 0 \/ memory.cache.size - m.cache.size >= min
        /\ m.cache.size \in Nat
    BY <2>1, <2>2, <2>4, CudaReleasedKeeps
  <2>6. CASE memory.cache.size - m.cache.size >= min
    <3>1. PICK k \in Nat : k = memory.cache.size - m.cache.size
      BY <1>2, <2>1, <2>5, <2>6
    <3>2. n \in Int /\ 0 < n /\ n <= k /\ 2 * k < WordSize
      BY <1>2, <1>3, <2>1, <2>5, <2>6, <3>1
    <3>3. (x - k) % WordSize = 0 \/ 2 * ((x - k) % WordSize) >= WordSize
      BY <1>1, <1>2, <2>1, <3>2, NoMorePositive
    <3>4. (memory'.active + memory'.cache.size + size) - limits.memory = x - k
      BY <1>1, <1>2, <1>4, <2>3, <2>5, <3>1
    <3>5. PICK y \in Int : y = (x - k) % WordSize
      BY <1>2
    <3>6. ~Positive(y)
      BY <1>2, <3>3, <3>5 DEF Positive
    <3> QED
      BY <3>4, <3>5, <3>6
  <2> QED
    BY <1>4, <2>5, <2>6
<1> QED
  BY <1>5, <1>6

\* No other step of CUDA brings a thread there.
LEMMA CudaUnderLimit ==
  ASSUME CudaInv, Cuda!Next, backend = "cuda", BytesFit, NEW t \in Threads,
         pc'[t].at = "allocate", pc[t].at # "allocate"
  PROVE  memory'.cache.size = 0
           \/ ~Positive(((memory'.active + memory'.cache.size + pc'[t].size) - limits.memory)
                          % WordSize)
<1>1. pc \in [Threads -> CudaThread]
  BY CudaFacts
<1>2. PICK u \in Threads, r \in CudaRequests : Cuda!MallocMiss(u, Cuda!Rounded(r))
  <2>1. ASSUME NEW u \in Threads, NEW p, pc' = [pc EXCEPT ![u] = p], p.at # "allocate"
        PROVE  FALSE
    BY <1>1, <2>1
  <2>2. ASSUME pc' = pc PROVE FALSE
    BY <2>2
  <2>3. Cuda!Idle.at # "allocate"
    BY DEF Cuda!Idle
  <2>4. ASSUME NEW u \in Threads, NEW size, Cuda!MallocFromCache(u, size) PROVE FALSE
    BY <2>1, <2>3, <2>4 DEF Cuda!MallocFromCache, Cuda!Return
  <2>5. ASSUME NEW u \in Threads, Cuda!MallocBlock(u) \/ Cuda!MallocManaged(u)
                                    \/ Cuda!MallocThrows(u)
        PROVE  FALSE
    BY <2>1, <2>3, <2>5 DEF Cuda!MallocBlock, Cuda!MallocManaged, Cuda!MallocThrows, Cuda!Return
  <2>6. ASSUME NEW u \in Threads, NEW b, Cuda!Free(u, b) PROVE FALSE
    BY <2>2, <2>6 DEF Cuda!Free
  <2>7. ASSUME \/ \E n \in CudaLimits : Cuda!SetCacheLimit(n) \/ Cuda!SetMemoryLimit(n)
               \/ Cuda!ClearCache
        PROVE  FALSE
    BY <2>2, <2>7 DEF Cuda!SetCacheLimit, Cuda!SetMemoryLimit, Cuda!ClearCache
  <2> QED
    BY <2>4, <2>5, <2>6, <2>7 DEF Cuda!Next, Cuda!Malloc
<1>3. PICK size : size = Cuda!Rounded(r)
  OBVIOUS
<1>4. pc'[u].size = size /\ \A v \in Threads : v # u => pc'[v] = pc[v]
  <2>1. PICK b : pc' = [pc EXCEPT ![u] = [at |-> "allocate", size |-> size, buf |-> b]]
    BY <1>2, <1>3 DEF Cuda!MallocMiss
  <2> QED
    BY <1>1, <2>1
<1>5. u = t
  BY <1>4
<1>6. size \in Nat
  BY <1>3, RoundedIs, ConstantsOK
<1>7. 2 * memory.cache.size < WordSize
  BY DEF BytesFit
<1> QED
  BY <1>2, <1>3, <1>4, <1>5, <1>6, <1>7, CudaAllocates

\* As long as byte counts do not wrap, a thread goes to the device only with
\* the memory in use, cached and asked for at or below the limit, or with
\* nothing cached left to give back.
THEOREM AllocatesUnderLimitHolds == AllSpec /\ []BytesFit => AllocatesUnderLimit
<1> DEFINE taken(u) == memory'.active + memory'.cache.size + pc'[u].size
           Reached(u) ==
             \/ memory'.cache.size = 0
             \/ backend = "metal" /\ taken(u) <= limits.gc
             \/ backend = "cuda" /\ ~Positive((taken(u) - limits.memory) % WordSize)
<1>1. ASSUME AllocatorInv, AllocatorInv', BytesFit, [AllNext]_allVars, NEW t \in Threads,
             pc'[t].at = "allocate", pc[t].at # "allocate"
      PROVE  Reached(t)
  <2>1. CASE backend = "metal" /\ Metal!Next
    BY <1>1, <2>1, MetalUnderLimit DEF AllocatorInv
  <2>2. CASE backend = "cuda" /\ Cuda!Next
    BY <1>1, <2>2, CudaUnderLimit DEF AllocatorInv
  <2>3. CASE backend = "no_gpu" /\ UNCHANGED backend
    <3>1. pc' \in Calls
      BY <1>1, <2>3 DEF AllocatorInv, CommonInv, CommonCalls
    <3> QED
      BY <1>1, <3>1 DEF Calls, CommonThread
  <2>4. CASE pc' = pc
    BY <1>1, <2>4
  <2>5. Next \/ UNCHANGED vars
    BY <1>1 DEF AllNext, allVars, OnlyMetal, OnlyCuda
  <2> QED
    BY <2>1, <2>2, <2>3, <2>4, <2>5 DEF Next, vars
<1>2. AllocatorInv /\ AllocatorInv' /\ BytesFit /\ [AllNext]_allVars
        => [\A t \in Threads :
              pc'[t].at = "allocate" /\ pc[t].at # "allocate" => Reached(t)]_vars
  BY <1>1
<1> QED
  BY <1>2, AllocatorInvariant, PTL DEF AllSpec, AllocatesUnderLimit
=============================================================================
