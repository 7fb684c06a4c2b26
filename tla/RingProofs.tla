----------------------------- MODULE RingProofs -----------------------------
(***************************************************************************)
(* The socket threads of the ring (mlx/distributed/ring/ring.cpp), for any *)
(* messages and any capacity of the connection: a promise is fulfilled     *)
(* only when the bytes of its message and of all before it have moved, and *)
(* only the destructor can leave a worker asleep for good.                 *)
(*                                                                         *)
(* The first part is about the data of one list, the numbers and bytes     *)
(* left of its tasks against the sizes of the messages, whose sum is a     *)
(* recursive function; the second takes the steps of the program one by    *)
(* one.                                                                    *)
(***************************************************************************)
EXTENDS MCRing, Induction, TLAPS

\* The bytes of the first n messages of the script S.
Sum(S, n) == Socket!SumFirst(S, n)

\* The sum of the first sizes follows its recursive definition.
LEMMA SumRecurs ==
  ASSUME NEW S \in Seq(Nat)
  PROVE  /\ Sum(S, 0) = 0
         /\ \A n \in 0 .. Len(S) - 1 : Sum(S, n + 1) = Sum(S, n) + S[n + 1]
         /\ \A n \in 0 .. Len(S) : Sum(S, n) \in Nat
<1> DEFINE size(k) == IF k \in 1 .. Len(S) THEN S[k] ELSE 0
           step == [k \in Nat |-> [v \in Nat |-> v + size(k)]]
           Body(f) == [k \in 0 .. Len(S) |-> IF k = 0 THEN 0 ELSE f[k - 1] + S[k]]
           sum == CHOOSE f : f = Body(f)
<1>1. \A k \in Nat : size(k) \in Nat
  OBVIOUS
<1>2. \A k \in 1 .. Len(S) : size(k) = S[k]
  OBVIOUS
<1>3. \A k, v \in Nat : step[k][v] \in Nat /\ step[k][v] = v + size(k)
  <2> HIDE DEF size
  <2> QED
    BY <1>1
<1> HIDE DEF step, size, Body, sum
<1>4. PICK f : /\ f \in [0 .. Len(S) -> Nat] /\ f[0] = 0
               /\ \A k \in 1 .. Len(S) : f[k] = step[k][f[k - 1]]
  <2>1. Keeps(step, Nat)
    BY <1>3 DEF Keeps
  <2>2. Len(S) \in Nat /\ 0 \in Nat
    OBVIOUS
  <2>3. \E f \in [0 .. Len(S) -> Nat] : Follows(f, Len(S), 0, step)
    BY <2>1, <2>2, RecursionExists
  <2> QED
    BY <2>3 DEF Follows
<1>5. \A k \in 1 .. Len(S) : k \in Nat /\ f[k - 1] \in Nat /\ step[k][f[k - 1]] = f[k - 1] + S[k]
  <2> TAKE k \in 1 .. Len(S)
  <2>1. k \in Nat /\ k - 1 \in 0 .. Len(S)
    OBVIOUS
  <2>2. f[k - 1] \in Nat
    BY <1>4, <2>1
  <2> QED
    BY <1>2, <1>3, <2>1, <2>2
<1>6. \A k \in 0 .. Len(S) : f[k] = IF k = 0 THEN 0 ELSE f[k - 1] + S[k]
  BY <1>4, <1>5
<1>7. f = Body(f)
  BY <1>4, <1>6 DEF Body
<1>8. sum = Body(sum)
  BY <1>7 DEF sum
<1>9. \A k \in 0 .. Len(S) : sum[k] = IF k = 0 THEN 0 ELSE sum[k - 1] + S[k]
  BY <1>8 DEF Body
<1>10. \A n : Sum(S, n) = sum[n]
  BY DEF Sum, Socket!SumFirst, Body, sum
<1>11. Sum(S, 0) = 0
  BY <1>9, <1>10
<1>12. ASSUME NEW n \in 0 .. Len(S) - 1 PROVE Sum(S, n + 1) = Sum(S, n) + S[n + 1]
  <2>1. n + 1 \in 0 .. Len(S) /\ n + 1 # 0 /\ (n + 1) - 1 = n
    OBVIOUS
  <2> QED
    BY <1>9, <1>10, <2>1
<1>13. \A n \in 0 .. Len(S) : Sum(S, n) \in Nat
  <2> DEFINE T == {n \in Nat : n <= Len(S) => Sum(S, n) \in Nat}
  <2>1. 0 \in T
    BY <1>11
  <2>2. ASSUME NEW n \in Nat, n \in T PROVE n + 1 \in T
    <3>1. CASE n + 1 <= Len(S)
      <4>1. n \in 0 .. Len(S) - 1 /\ S[n + 1] \in Nat
        BY <3>1
      <4> QED
        BY <1>12, <2>2, <4>1
    <3> QED
      BY <3>1
  <2>3. \A n \in Nat : n \in T
    <3> HIDE DEF T
    <3> QED
      BY <2>1, <2>2, NatSetInduction
  <2> QED
    BY <2>3
<1> QED
  BY <1>11, <1>12, <1>13

-----------------------------------------------------------------------------
Task == [n : Nat, left : Nat]

\* What a list has of its script S after c calls and m bytes: q holds the
\* messages with bytes that are not done with, in order, all but the first
\* untouched, and what is between them in the script is empty.
Listed(S, q, c, m) ==
  /\ S \in Seq(Nat) /\ q \in Seq(Task) /\ c \in 0 .. Len(S) /\ m \in Nat
  /\ \A k \in 1 .. Len(q) :
       /\ q[k].n \in 1 .. c /\ S[q[k].n] > 0
       /\ q[k].left <= S[q[k].n]
       /\ k > 1 => q[k].left = S[q[k].n]
  /\ \A k \in 1 .. Len(q) - 1 : Sum(S, q[k + 1].n) = Sum(S, q[k].n) + S[q[k + 1].n]
  /\ q # <<>> => /\ m + q[1].left = Sum(S, q[1].n)
                 /\ Sum(S, q[Len(q)].n) = Sum(S, c)
  /\ q = <<>> => m = Sum(S, c)

\* send_impl and recv_impl leave an empty message out of the list.
LEMMA CalledEmpty ==
  ASSUME NEW S, NEW q, NEW c, NEW m, Listed(S, q, c, m), c < Len(S), S[c + 1] = 0
  PROVE  Listed(S, q, c + 1, m)
<1> USE DEF Listed
<1>1. Sum(S, c + 1) = Sum(S, c)
  <2>1. Sum(S, c + 1) = Sum(S, c) + S[c + 1] /\ Sum(S, c) \in Nat
    <3>1. S \in Seq(Nat) /\ c \in 0 .. Len(S) - 1 /\ c \in 0 .. Len(S)
      OBVIOUS
    <3> QED
      BY <3>1, SumRecurs
  <2> QED
    BY <2>1
<1>2. \A k \in 1 .. Len(q) : q[k].n \in 1 .. c + 1
  OBVIOUS
<1> QED
  BY <1>1, <1>2

\* send_impl and recv_impl put any other at its end.
LEMMA CalledFull ==
  ASSUME NEW S, NEW q, NEW c, NEW m, Listed(S, q, c, m), c < Len(S), S[c + 1] > 0
  PROVE  Listed(S, Append(q, [n |-> c + 1, left |-> S[c + 1]]), c + 1, m)
<1> DEFINE t == [n |-> c + 1, left |-> S[c + 1]]
           r == Append(q, t)
<1>1. c \in 0 .. Len(S) - 1 /\ c \in 0 .. Len(S) /\ S \in Seq(Nat) /\ S[c + 1] \in Nat
  BY DEF Listed
<1>2. Sum(S, c + 1) = Sum(S, c) + S[c + 1] /\ Sum(S, c) \in Nat
  BY <1>1, SumRecurs
<1>3. t \in Task /\ t.n = c + 1 /\ t.left = S[c + 1]
  BY <1>1 DEF Task
<1> HIDE DEF t
<1>4. q \in Seq(Task) /\ Len(q) \in Nat
  BY DEF Listed
<1>5. /\ r \in Seq(Task) /\ Len(r) = Len(q) + 1 /\ r # <<>> /\ r[Len(q) + 1] = t
      /\ \A k \in 1 .. Len(q) : r[k] = q[k]
  BY <1>3, <1>4
<1> HIDE DEF r
<1>6. ASSUME NEW k \in 1 .. Len(r)
      PROVE  /\ r[k].n \in 1 .. c + 1 /\ S[r[k].n] > 0
             /\ r[k].left <= S[r[k].n]
             /\ k > 1 => r[k].left = S[r[k].n]
  <2>1. CASE k = Len(q) + 1
    BY <1>1, <1>3, <1>5, <2>1
  <2>2. CASE k \in 1 .. Len(q)
    <3>1. /\ q[k].n \in 1 .. c /\ S[q[k].n] > 0 /\ q[k].left <= S[q[k].n]
          /\ k > 1 => q[k].left = S[q[k].n]
      BY <2>2 DEF Listed
    <3> QED
      BY <1>1, <1>5, <2>2, <3>1
  <2> QED
    BY <1>4, <1>5, <2>1, <2>2
<1>7. ASSUME NEW k \in 1 .. Len(r) - 1
      PROVE  Sum(S, r[k + 1].n) = Sum(S, r[k].n) + S[r[k + 1].n]
  <2>1. k \in 1 .. Len(q) /\ r[k] = q[k]
    BY <1>4, <1>5
  <2>2. CASE k = Len(q)
    <3>1. Sum(S, q[k].n) = Sum(S, c)
      BY <2>1, <2>2 DEF Listed
    <3>2. r[k + 1] = t
      BY <1>5, <2>2
    <3> QED
      BY <1>2, <1>3, <2>1, <3>1, <3>2
  <2>3. CASE k # Len(q)
    <3>1. k \in 1 .. Len(q) - 1 /\ r[k + 1] = q[k + 1]
      BY <1>4, <1>5, <2>1, <2>3
    <3> QED
      BY <2>1, <3>1 DEF Listed
  <2> QED
    BY <2>2, <2>3
<1>8. m + r[1].left = Sum(S, r[1].n)
  <2>1. CASE q = <<>>
    <3>1. m = Sum(S, c) /\ m \in Nat /\ r[1] = t
      BY <1>5, <2>1 DEF Listed
    <3> QED
      BY <1>1, <1>2, <1>3, <3>1
  <2>2. CASE q # <<>>
    <3>1. r[1] = q[1]
      BY <1>4, <1>5, <2>2
    <3> QED
      BY <2>2, <3>1 DEF Listed
  <2> QED
    BY <2>1, <2>2
<1>9. Sum(S, r[Len(r)].n) = Sum(S, c + 1)
  BY <1>3, <1>5
<1>10. c + 1 \in 0 .. Len(S) /\ m \in Nat
  BY DEF Listed
<1>11. Listed(S, r, c + 1, m)
  BY <1>1, <1>5, <1>6, <1>7, <1>8, <1>9, <1>10 DEF Listed
<1> QED
  BY <1>11 DEF r, t

\* A task leaves the list when no bytes are left of it, and all the bytes up
\* to its end have moved then.
LEMMA Popped ==
  ASSUME NEW S, NEW q, NEW c, NEW m, Listed(S, q, c, m), q # <<>>, q[1].left = 0
  PROVE  /\ Listed(S, Tail(q), c, m)
         /\ Head(q).n \in 1 .. c /\ Sum(S, Head(q).n) = m
         /\ Tail(q) # <<>> => Tail(q)[1].left > 0
<1> DEFINE r == Tail(q)
<1>1. q \in Seq(Task) /\ Len(q) \in Nat \ {0} /\ Head(q) = q[1]
  BY DEF Listed
<1>2. /\ r \in Seq(Task) /\ Len(r) = Len(q) - 1
      /\ \A k \in 1 .. Len(r) : r[k] = q[k + 1]
  BY <1>1
<1> HIDE DEF r
<1>3. r = <<>> <=> Len(q) = 1
  BY <1>1, <1>2
<1>4. Sum(S, q[1].n) = m /\ q[1].n \in 1 .. c /\ m \in Nat
  BY <1>1 DEF Listed
<1>5. \A k \in 1 .. Len(r) :
        /\ k + 1 \in 1 .. Len(q)
        /\ r[k].n \in 1 .. c /\ S[r[k].n] > 0
        /\ r[k].left = S[r[k].n]
  <2> TAKE k \in 1 .. Len(r)
  <2>1. k + 1 \in 1 .. Len(q) /\ k + 1 > 1 /\ r[k] = q[k + 1]
    BY <1>1, <1>2
  <2>2. \A x \in 1 .. Len(q) : /\ q[x].n \in 1 .. c /\ S[q[x].n] > 0
                               /\ x > 1 => q[x].left = S[q[x].n]
    BY DEF Listed
  <2>3. /\ q[k + 1].n \in 1 .. c /\ S[q[k + 1].n] > 0
        /\ q[k + 1].left = S[q[k + 1].n]
    BY <2>1, <2>2
  <2> QED
    BY <2>1, <2>3
<1>6. ASSUME NEW k \in 1 .. Len(r) - 1
      PROVE  Sum(S, r[k + 1].n) = Sum(S, r[k].n) + S[r[k + 1].n]
  <2>1. k + 1 \in 1 .. Len(q) - 1 /\ r[k] = q[k + 1] /\ r[k + 1] = q[(k + 1) + 1]
    BY <1>1, <1>2
  <2> QED
    BY <2>1 DEF Listed
<1>7. ASSUME r # <<>> PROVE m + r[1].left = Sum(S, r[1].n) /\ r[1].left > 0
  <2>1. 1 \in 1 .. Len(q) - 1 /\ 1 \in 1 .. Len(r) /\ r[1] = q[2]
    BY <1>1, <1>2, <1>3, <1>7
  <2>2. Sum(S, q[2].n) = Sum(S, q[1].n) + S[q[2].n]
    BY <2>1 DEF Listed
  <2>3. r[1].left = S[r[1].n] /\ S[r[1].n] > 0
    BY <1>5, <2>1
  <2> QED
    BY <1>4, <2>1, <2>2, <2>3
<1>8. ASSUME r # <<>> PROVE Sum(S, r[Len(r)].n) = Sum(S, c)
  <2>1. Len(r) \in 1 .. Len(r) /\ r[Len(r)] = q[Len(q)]
    BY <1>1, <1>2, <1>3, <1>8
  <2> QED
    BY <1>1, <2>1 DEF Listed
<1>9. ASSUME r = <<>> PROVE m = Sum(S, c)
  <2>1. Len(q) = 1
    BY <1>3, <1>9
  <2> QED
    BY <1>1, <1>4, <2>1 DEF Listed
<1>10. S \in Seq(Nat) /\ c \in 0 .. Len(S)
  BY DEF Listed
<1>11. \A k \in 1 .. Len(r) : r[k].left <= S[r[k].n]
  <2> TAKE k \in 1 .. Len(r)
  <2>1. r[k].n \in 1 .. Len(S) /\ S[r[k].n] \in Nat
    BY <1>5, <1>10
  <2> QED
    BY <1>5, <2>1
<1>12. Listed(S, r, c, m)
  BY <1>2, <1>4, <1>5, <1>6, <1>7, <1>8, <1>9, <1>10, <1>11 DEF Listed
<1> QED
  BY <1>1, <1>4, <1>7, <1>12 DEF r

\* r is q with one byte less of its first task.
ByteLess(q, r) ==
  /\ Len(r) = Len(q) /\ r[1].n = q[1].n /\ r[1].left = q[1].left - 1
  /\ \A k \in 2 .. Len(q) : r[k] = q[k]

\* A byte that moves is the next of the script.
LEMMA ByteMoved ==
  ASSUME NEW S, NEW q, NEW c, NEW m, Listed(S, q, c, m), q # <<>>, q[1].left > 0,
         NEW r \in Seq(Task), ByteLess(q, r)
  PROVE  /\ Listed(S, r, c, m + 1)
         /\ r # <<>> /\ r[1].left = q[1].left - 1
<1>1. q \in Seq(Task) /\ Len(q) \in Nat \ {0} /\ q[1] \in Task /\ m \in Nat
  BY DEF Listed
<1>2. q[1].left \in Nat \ {0} /\ q[1].n \in Nat
  BY <1>1 DEF Task
<1>4. /\ r \in Seq(Task) /\ Len(r) = Len(q)
      /\ \A k \in 2 .. Len(q) : r[k] = q[k]
  BY DEF ByteLess
<1>5. r[1].left = q[1].left - 1 /\ r[1].n = q[1].n
  BY DEF ByteLess
<1>6. \A k \in 1 .. Len(q) : r[k].n = q[k].n /\ (k > 1 => r[k].left = q[k].left)
  BY <1>1, <1>4, <1>5
<1>7. r # <<>>
  BY <1>1, <1>4
<1>8. \A k \in 1 .. Len(r) : /\ r[k].n \in 1 .. c /\ S[r[k].n] > 0
                             /\ r[k].left <= S[r[k].n]
                             /\ k > 1 => r[k].left = S[r[k].n]
  <2> TAKE k \in 1 .. Len(r)
  <2>1. /\ q[k].n \in 1 .. c /\ S[q[k].n] > 0 /\ q[k].left <= S[q[k].n]
        /\ k > 1 => q[k].left = S[q[k].n]
    BY <1>4 DEF Listed
  <2>2. CASE k = 1
    <3>1. S[q[1].n] \in Nat
      BY <2>1, <2>2 DEF Listed
    <3> QED
      BY <1>2, <1>5, <2>1, <2>2, <3>1
  <2>3. CASE k # 1
    BY <1>4, <1>6, <2>1, <2>3
  <2> QED
    BY <2>2, <2>3
<1>9. \A k \in 1 .. Len(r) - 1 : Sum(S, r[k + 1].n) = Sum(S, r[k].n) + S[r[k + 1].n]
  <2> TAKE k \in 1 .. Len(r) - 1
  <2>1. k \in 1 .. Len(q) /\ k + 1 \in 1 .. Len(q) /\ k \in 1 .. Len(q) - 1
    BY <1>1, <1>4
  <2> QED
    BY <1>6, <2>1 DEF Listed
<1>10. m + 1 + r[1].left = Sum(S, r[1].n)
  <2>1. m + q[1].left = Sum(S, q[1].n)
    BY DEF Listed
  <2> QED
    BY <1>1, <1>2, <1>5, <2>1
<1>11. Sum(S, r[Len(r)].n) = Sum(S, c)
  BY <1>1, <1>4, <1>6 DEF Listed
<1>12. S \in Seq(Nat) /\ c \in 0 .. Len(S) /\ m + 1 \in Nat
  BY DEF Listed
<1> QED
  BY <1>4, <1>5, <1>7, <1>8, <1>9, <1>10, <1>11, <1>12 DEF Listed

\* A list and the flag that lets its first task go, with the promises R
\* fulfilled so far.
ListOK(S, q, c, m, R, l, F) ==
  /\ Listed(S, q, c, m)
  /\ l \in F => q # <<>> /\ q[1].left = 0
  /\ l \notin F /\ q # <<>> => q[1].left > 0
  /\ \A n \in R : n \in 1 .. c /\ (S[n] > 0 => Sum(S, n) <= m)

\* An empty message is fulfilled by the call.
LEMMA EmptyCallOK ==
  ASSUME NEW S, NEW q, NEW c, NEW m, NEW R, NEW l, NEW F,
         ListOK(S, q, c, m, R, l, F), c < Len(S), S[c + 1] = 0
  PROVE  ListOK(S, q, c + 1, m, R \cup {c + 1}, l, F)
<1>1. Listed(S, q, c, m) /\ Listed(S, q, c + 1, m)
  BY CalledEmpty DEF ListOK
<1>2. c \in Nat
  BY <1>1 DEF Listed
<1>3. ASSUME NEW n \in R \cup {c + 1}
      PROVE  n \in 1 .. c + 1 /\ (S[n] > 0 => Sum(S, n) <= m)
  <2>1. CASE n = c + 1
    BY <1>2, <2>1
  <2>2. CASE n \in R
    BY <1>2, <2>2 DEF ListOK
  <2> QED
    BY <2>1, <2>2
<1> QED
  BY <1>1, <1>3 DEF ListOK

\* Another one is not, and a flag goes on telling of the first task.
LEMMA FullCallOK ==
  ASSUME NEW S, NEW q, NEW c, NEW m, NEW R, NEW l, NEW F,
         ListOK(S, q, c, m, R, l, F), c < Len(S), S[c + 1] > 0
  PROVE  ListOK(S, Append(q, [n |-> c + 1, left |-> S[c + 1]]), c + 1, m, R, l, F)
<1> DEFINE t == [n |-> c + 1, left |-> S[c + 1]]
           r == Append(q, t)
<1>1. Listed(S, q, c, m) /\ Listed(S, r, c + 1, m)
  BY CalledFull DEF ListOK
<1>2. c \in Nat /\ q \in Seq(Task) /\ S \in Seq(Nat) /\ c \in 0 .. Len(S)
  BY <1>1 DEF Listed
<1>3. t \in Task /\ t.left = S[c + 1]
  BY <1>2 DEF Task
<1> HIDE DEF t
<1>4. r # <<>> /\ (q = <<>> => r[1] = t) /\ (q # <<>> => r[1] = q[1])
  BY <1>2, <1>3
<1> HIDE DEF r
<1>5. \A n \in R : n \in 1 .. c + 1 /\ (S[n] > 0 => Sum(S, n) <= m)
  BY <1>2 DEF ListOK
<1>6. ListOK(S, r, c + 1, m, R, l, F)
  BY <1>1, <1>3, <1>4, <1>5 DEF ListOK
<1> QED
  BY <1>6 DEF r, t

\* The worker fulfils the promise of the task it takes off the list.
LEMMA PopOK ==
  ASSUME NEW S, NEW q, NEW c, NEW m, NEW R, NEW l, NEW F,
         ListOK(S, q, c, m, R, l, F), l \in F
  PROVE  ListOK(S, Tail(q), c, m, R \cup {Head(q).n}, l, {})
<1>1. Listed(S, q, c, m) /\ q # <<>> /\ q[1].left = 0
  BY DEF ListOK
<1>2. /\ Listed(S, Tail(q), c, m) /\ Head(q).n \in 1 .. c /\ Sum(S, Head(q).n) = m
      /\ Tail(q) # <<>> => Tail(q)[1].left > 0
  BY <1>1, Popped
<1>3. m \in Nat
  BY <1>1 DEF Listed
<1> QED
  BY <1>2, <1>3 DEF ListOK

\* The flag is raised by the last byte of the task, and by no other.
LEMMA MoveOK ==
  ASSUME NEW S, NEW q, NEW c, NEW m, NEW R, NEW l, NEW F,
         ListOK(S, q, c, m, R, l, F), q # <<>>, l \notin F,
         NEW r \in Seq(Task), ByteLess(q, r),
         NEW G, l \in G <=> q[1].left = 1
  PROVE  ListOK(S, r, c, m + 1, R, l, G)
<1>1. Listed(S, q, c, m) /\ q[1].left > 0
  BY DEF ListOK
<1>2. Listed(S, r, c, m + 1) /\ r # <<>> /\ r[1].left = q[1].left - 1
  BY <1>1, ByteMoved
<1>3. q[1].left \in Nat /\ m \in Nat /\ S \in Seq(Nat) /\ c \in 0 .. Len(S)
  <2>1. q \in Seq(Task) /\ m \in Nat /\ S \in Seq(Nat) /\ c \in 0 .. Len(S)
    BY <1>1 DEF Listed
  <2>2. q[1] \in Task
    BY <2>1
  <2> QED
    BY <2>1, <2>2 DEF Task
<1>4. ASSUME NEW n \in R PROVE n \in 1 .. c /\ (S[n] > 0 => Sum(S, n) <= m + 1)
  <2>1. n \in 1 .. c /\ (S[n] > 0 => Sum(S, n) <= m) /\ n \in 0 .. Len(S)
    BY <1>3 DEF ListOK
  <2>2. Sum(S, n) \in Nat
    BY <1>3, <2>1, SumRecurs
  <2> QED
    BY <1>3, <2>1, <2>2
<1> QED
  BY <1>1, <1>2, <1>3, <1>4 DEF ListOK

-----------------------------------------------------------------------------
Ends == Socket!Ends
Lists == Socket!Lists
Script(e, l) == Socket!Script(e, l)

\* What the variables of RingSocket range over.
RingTypes ==
  /\ queue \in [Ends -> [Lists -> Seq(Task)]]
  /\ calls \in [Ends -> [Lists -> Nat]]
  /\ moved \in [Ends -> [Lists -> Nat]]
  /\ ready \in [Ends -> [Lists -> SUBSET Nat]]
  /\ flags \in [Ends -> SUBSET Lists]
  /\ wpc \in [Ends -> {"lock", "block", "wait", "recv", "send", "check", "exit"}]

\* The inductive invariant of the lists.  The flags are down when a worker
\* reaches recv, and the flag of the sends when it reaches send: a task of no
\* bytes is never moved again.
RingInv ==
  /\ RingTypes
  /\ \A e \in Ends, l \in Lists :
       ListOK(Script(e, l), queue[e][l], calls[e][l], moved[e][l], ready[e][l], l, flags[e])
  /\ \A e \in Ends :
       /\ wpc[e] \in {"block", "wait", "recv"} => flags[e] = {}
       /\ wpc[e] = "send" => "sends" \notin flags[e]

\* The script of a list is a sequence of sizes.
LEMMA ScriptType ==
  ASSUME NEW e \in Ends, NEW l \in Lists
  PROVE  Script(e, l) \in Seq(Nat)
BY ConstantsOK DEF Script, Socket!Script

\* The lists are empty at first.
LEMMA RingInit == Init => RingInv
<1> SUFFICES ASSUME Socket!Init PROVE RingInv
  BY DEF Init
<1> USE DEF Socket!Init, Socket!None, Ends, Lists
<1>1. RingTypes
  <2>1. <<>> \in Seq(Task)
    OBVIOUS
  <2> QED
    BY <2>1 DEF RingTypes
<1>2. ASSUME NEW e \in Ends, NEW l \in Lists
      PROVE  ListOK(Script(e, l), queue[e][l], calls[e][l], moved[e][l], ready[e][l], l, flags[e])
  <2>1. Script(e, l) \in Seq(Nat) /\ Sum(Script(e, l), 0) = 0
    BY ScriptType, SumRecurs
  <2>2. queue[e][l] = <<>> /\ calls[e][l] = 0 /\ moved[e][l] = 0 /\ ready[e][l] = {} /\ flags[e] = {}
    OBVIOUS
  <2>3. Listed(Script(e, l), <<>>, 0, 0)
    BY <2>1 DEF Listed
  <2> QED
    BY <2>2, <2>3 DEF ListOK
<1> QED
  BY <1>1, <1>2 DEF RingInv

\* send and recv of the client.
LEMMA RingEnqueue ==
  ASSUME RingInv, NEW e \in Ends, NEW l \in Lists, Socket!Enqueue(e, l)
  PROVE  RingInv'
<1> DEFINE S == Script(e, l)
           n == calls[e][l] + 1
           size == S[n]
           t == [n |-> n, left |-> size]
<1>1. RingTypes
  BY DEF RingInv
<1>2. ListOK(S, queue[e][l], calls[e][l], moved[e][l], ready[e][l], l, flags[e])
  BY DEF RingInv
<1>3. S \in Seq(Nat) /\ calls[e][l] \in Nat /\ n \in Nat /\ n \in 1 .. Len(S) /\ size \in Nat
  BY <1>1, ScriptType DEF RingTypes, Socket!Enqueue, Script
<1>4. t \in Task
  BY <1>3 DEF Task
<1>5. calls' = [calls EXCEPT ![e][l] = n]
  BY DEF Socket!Enqueue
<1>6. /\ UNCHANGED <<wpc, flags, moved>>
      /\ \/ size = 0 /\ ready' = [ready EXCEPT ![e][l] = @ \cup {n}] /\ UNCHANGED queue
         \/ size # 0 /\ queue' = [queue EXCEPT ![e][l] = Append(@, t)] /\ UNCHANGED ready
  BY DEF Socket!Enqueue, Script
<1>7. calls[e][l] < Len(S)
  BY <1>3
<1>8. /\ calls' \in [Ends -> [Lists -> Nat]] /\ calls'[e][l] = n
      /\ \A d \in Ends, k \in Lists : d # e \/ k # l => calls'[d][k] = calls[d][k]
  BY <1>1, <1>3, <1>5 DEF RingTypes
<1>9. /\ RingTypes'
      /\ ListOK(S, queue'[e][l], n, moved[e][l], ready'[e][l], l, flags[e])
      /\ \A d \in Ends, k \in Lists : d # e \/ k # l =>
           queue'[d][k] = queue[d][k] /\ ready'[d][k] = ready[d][k]
  <2>1. CASE size = 0 /\ ready' = [ready EXCEPT ![e][l] = @ \cup {n}] /\ UNCHANGED queue
    <3>1. /\ ready' \in [Ends -> [Lists -> SUBSET Nat]] /\ ready'[e][l] = ready[e][l] \cup {n}
          /\ \A d \in Ends, k \in Lists : d # e \/ k # l => ready'[d][k] = ready[d][k]
      BY <1>1, <1>3, <2>1 DEF RingTypes
    <3>2. ListOK(S, queue[e][l], n, moved[e][l], ready[e][l] \cup {n}, l, flags[e])
      BY <1>2, <1>7, <2>1, EmptyCallOK
    <3>3. RingTypes'
      BY <1>1, <1>6, <1>8, <2>1, <3>1 DEF RingTypes
    <3> QED
      BY <2>1, <3>1, <3>2, <3>3
  <2>2. CASE size # 0 /\ queue' = [queue EXCEPT ![e][l] = Append(@, t)] /\ UNCHANGED ready
    <3>1. queue[e][l] \in Seq(Task) /\ Append(queue[e][l], t) \in Seq(Task)
      BY <1>1, <1>4 DEF RingTypes
    <3>2. /\ queue' \in [Ends -> [Lists -> Seq(Task)]] /\ queue'[e][l] = Append(queue[e][l], t)
          /\ \A d \in Ends, k \in Lists : d # e \/ k # l => queue'[d][k] = queue[d][k]
      <4> HIDE DEF t
      <4> QED
        BY <1>1, <2>2, <3>1 DEF RingTypes
    <3>3. size > 0
      BY <1>3, <2>2
    <3>4. ListOK(S, Append(queue[e][l], t), n, moved[e][l], ready[e][l], l, flags[e])
      BY <1>2, <1>7, <3>3, FullCallOK
    <3>5. RingTypes'
      BY <1>1, <1>6, <1>8, <2>2, <3>2 DEF RingTypes
    <3> QED
      BY <2>2, <3>2, <3>4, <3>5
  <2> QED
    BY <1>6, <2>1, <2>2
<1>10. ASSUME NEW d \in Ends, NEW k \in Lists
       PROVE  ListOK(Script(d, k), queue'[d][k], calls'[d][k], moved'[d][k], ready'[d][k], k, flags'[d])
  <2>1. moved' = moved /\ flags' = flags
    BY <1>6
  <2>2. CASE d = e /\ k = l
    BY <1>8, <1>9, <2>1, <2>2
  <2>3. CASE d # e \/ k # l
    <3>1. ListOK(Script(d, k), queue[d][k], calls[d][k], moved[d][k], ready[d][k], k, flags[d])
      BY DEF RingInv
    <3>2. queue'[d][k] = queue[d][k] /\ calls'[d][k] = calls[d][k] /\ ready'[d][k] = ready[d][k]
      BY <1>8, <1>9, <2>3
    <3> QED
      BY <2>1, <3>1, <3>2
  <2> QED
    BY <2>2, <2>3
<1>11. wpc' = wpc /\ flags' = flags
  BY <1>6
<1>12. \A d \in Ends, k \in Lists : Script(d, k)' = Script(d, k)
  BY DEF Script, Socket!Script
<1> QED
  BY <1>9, <1>10, <1>11, <1>12 DEF RingInv

\* The worker's section under the mutex.
LEMMA TasksGone ==
  ASSUME RingInv, NEW e \in Ends, Socket!Lock(e)
  PROVE  RingInv'
<1> DEFINE q == [l \in Lists |-> IF l \in flags[e] THEN Tail(queue[e][l]) ELSE queue[e][l]]
           R == [l \in Lists |-> IF l \in flags[e] THEN ready[e][l] \cup {Head(queue[e][l]).n}
                                 ELSE ready[e][l]]
<1>1. RingTypes
  BY DEF RingInv
<1>2. /\ queue' = [queue EXCEPT ![e] = q] /\ ready' = [ready EXCEPT ![e] = R]
      /\ flags' = [flags EXCEPT ![e] = {}] /\ calls' = calls /\ moved' = moved
  BY DEF Socket!Lock, Lists
<1>3. PICK w \in {"exit", "recv", "block"} : wpc' = [wpc EXCEPT ![e] = w]
  BY DEF Socket!Lock
<1>4. \A l \in Lists : ListOK(Script(e, l), q[l], calls[e][l], moved[e][l], R[l], l, {})
  <2> TAKE l \in Lists
  <2>1. ListOK(Script(e, l), queue[e][l], calls[e][l], moved[e][l], ready[e][l], l, flags[e])
    BY DEF RingInv
  <2>2. CASE l \in flags[e]
    BY <2>1, <2>2, PopOK
  <2>3. CASE l \notin flags[e]
    BY <2>1, <2>3 DEF ListOK
  <2> QED
    BY <2>2, <2>3
<1>5. \A l \in Lists : q[l] \in Seq(Task) /\ R[l] \in SUBSET Nat
  <2> TAKE l \in Lists
  <2>1. Listed(Script(e, l), q[l], calls[e][l], moved[e][l]) /\ calls[e][l] \in Nat
    BY <1>1, <1>4 DEF ListOK, RingTypes
  <2>2. \A n \in R[l] : n \in 1 .. calls[e][l]
    BY <1>4 DEF ListOK
  <2> HIDE DEF q, R
  <2> QED
    BY <2>1, <2>2 DEF Listed
<1>6. q \in [Lists -> Seq(Task)] /\ R \in [Lists -> SUBSET Nat]
  BY <1>5
<1> HIDE DEF q, R
<1>7. RingTypes'
  BY <1>1, <1>2, <1>3, <1>6 DEF RingTypes
<1>8. /\ queue'[e] = q /\ ready'[e] = R /\ flags'[e] = {} /\ wpc'[e] = w
      /\ \A d \in Ends : d # e => /\ queue'[d] = queue[d] /\ ready'[d] = ready[d]
                                  /\ flags'[d] = flags[d] /\ wpc'[d] = wpc[d]
  BY <1>1, <1>2, <1>3 DEF RingTypes
<1>9. ASSUME NEW d \in Ends, NEW l \in Lists
      PROVE  ListOK(Script(d, l), queue'[d][l], calls'[d][l], moved'[d][l], ready'[d][l], l, flags'[d])
  <2>1. CASE d = e
    BY <1>2, <1>4, <1>8, <2>1
  <2>2. CASE d # e
    <3>1. ListOK(Script(d, l), queue[d][l], calls[d][l], moved[d][l], ready[d][l], l, flags[d])
      BY DEF RingInv
    <3> QED
      BY <1>2, <1>8, <2>2, <3>1
  <2> QED
    BY <2>1, <2>2
<1>10. ASSUME NEW d \in Ends
       PROVE  /\ wpc'[d] \in {"block", "wait", "recv"} => flags'[d] = {}
              /\ wpc'[d] = "send" => "sends" \notin flags'[d]
  BY <1>8 DEF RingInv
<1>11. \A d \in Ends, k \in Lists : Script(d, k)' = Script(d, k)
  BY DEF Script, Socket!Script
<1> QED
  BY <1>7, <1>9, <1>10, <1>11 DEF RingInv

\* A call of recv or send that moved a byte.
LEMMA BytesMove ==
  ASSUME RingInv, NEW e \in Ends, NEW l \in Lists, Socket!Moves(e, l),
         queue[e][l] # <<>>, l \notin flags[e], calls' = calls, ready' = ready,
         NEW w \in {"send", "check"}, wpc' = [wpc EXCEPT ![e] = w],
         w = "send" => l # "sends" /\ "sends" \notin flags[e]
  PROVE  RingInv'
<1>1. RingTypes
  BY DEF RingInv
<1>2. ListOK(Script(e, l), queue[e][l], calls[e][l], moved[e][l], ready[e][l], l, flags[e])
  BY DEF RingInv
<1> DEFINE q == queue[e][l]
           r == [q EXCEPT ![1].left = @ - 1]
           G == IF q[1].left = 1 THEN flags[e] \cup {l} ELSE flags[e]
<1>3. q \in Seq(Task) /\ Len(q) \in Nat \ {0} /\ q[1] \in Task /\ q[1].left \in Nat \ {0}
  <2>1. q \in Seq(Task) /\ q[1].left > 0
    BY <1>2 DEF ListOK, Listed
  <2>2. q[1] \in Task /\ Len(q) \in Nat \ {0}
    BY <2>1
  <2> QED
    BY <2>1, <2>2 DEF Task
<1>4. r \in Seq(Task) /\ ByteLess(q, r)
  <2>1. [q[1] EXCEPT !.left = @ - 1] \in Task /\ [q[1] EXCEPT !.left = @ - 1].left = q[1].left - 1
        /\ [q[1] EXCEPT !.left = @ - 1].n = q[1].n
    BY <1>3 DEF Task
  <2>2. /\ r \in Seq(Task) /\ Len(r) = Len(q) /\ r[1] = [q[1] EXCEPT !.left = @ - 1]
        /\ \A k \in 2 .. Len(q) : r[k] = q[k]
    BY <1>3, <2>1
  <2> QED
    BY <2>1, <2>2 DEF ByteLess
<1>5. l \in G <=> q[1].left = 1
  OBVIOUS
<1>6. queue' = [queue EXCEPT ![e][l] = r]
  BY DEF Socket!Moves
<1>7. flags' = [flags EXCEPT ![e] = G] /\ moved' = [moved EXCEPT ![e][l] = @ + 1]
  BY <1>1 DEF Socket!Moves, RingTypes
<1>8. \A k \in Lists : k # l => (k \in G <=> k \in flags[e])
  OBVIOUS
<1>9. G \in SUBSET Lists
  BY <1>1 DEF RingTypes
<1> HIDE DEF r, G
<1>10. ListOK(Script(e, l), r, calls[e][l], moved[e][l] + 1, ready[e][l], l, G)
  <2> HIDE DEF q
  <2>1. ListOK(Script(e, l), q, calls[e][l], moved[e][l], ready[e][l], l, flags[e])
    BY <1>2 DEF q
  <2>2. q # <<>>
    BY DEF q
  <2> QED
    BY <1>4, <1>5, <2>1, <2>2, MoveOK
<1>11. /\ queue' \in [Ends -> [Lists -> Seq(Task)]] /\ queue'[e][l] = r
       /\ \A d \in Ends, k \in Lists : d # e \/ k # l => queue'[d][k] = queue[d][k]
  BY <1>1, <1>4, <1>6 DEF RingTypes
<1>12. /\ moved' \in [Ends -> [Lists -> Nat]] /\ moved'[e][l] = moved[e][l] + 1
       /\ \A d \in Ends, k \in Lists : d # e \/ k # l => moved'[d][k] = moved[d][k]
  BY <1>1, <1>7 DEF RingTypes
<1>13. /\ flags' \in [Ends -> SUBSET Lists] /\ flags'[e] = G
       /\ \A d \in Ends : d # e => flags'[d] = flags[d] /\ wpc'[d] = wpc[d]
       /\ wpc'[e] = w
  BY <1>1, <1>7, <1>9 DEF RingTypes
<1>14. RingTypes'
  BY <1>1, <1>11, <1>12, <1>13 DEF RingTypes
<1>15. ASSUME NEW d \in Ends, NEW k \in Lists
       PROVE  ListOK(Script(d, k), queue'[d][k], calls'[d][k], moved'[d][k], ready'[d][k], k, flags'[d])
  <2>1. CASE d = e /\ k = l
    BY <1>10, <1>11, <1>12, <1>13, <2>1
  <2>2. CASE d # e \/ k # l
    <3>1. ListOK(Script(d, k), queue[d][k], calls[d][k], moved[d][k], ready[d][k], k, flags[d])
      BY DEF RingInv
    <3>2. queue'[d][k] = queue[d][k] /\ moved'[d][k] = moved[d][k]
          /\ (k \in flags'[d] <=> k \in flags[d])
      BY <1>8, <1>11, <1>12, <1>13, <2>2
    <3> QED
      BY <3>1, <3>2 DEF ListOK
  <2> QED
    BY <2>1, <2>2
<1>16. ASSUME NEW d \in Ends
       PROVE  /\ wpc'[d] \in {"block", "wait", "recv"} => flags'[d] = {}
              /\ wpc'[d] = "send" => "sends" \notin flags'[d]
  <2>1. CASE d = e
    BY <1>8, <1>13, <2>1 DEF Lists, Socket!Lists
  <2>2. CASE d # e
    BY <1>13, <2>2 DEF RingInv
  <2> QED
    BY <2>1, <2>2
<1>17. \A d \in Ends, k \in Lists : Script(d, k)' = Script(d, k)
  BY DEF Script, Socket!Script
<1> QED
  BY <1>14, <1>15, <1>16, <1>17 DEF RingInv

\* A step that leaves the lists alone, and the worker where flags are down
\* only if they are.
LEMMA ListsStay ==
  ASSUME RingInv, UNCHANGED <<queue, calls, moved, ready, flags>>, NEW e \in Ends,
         NEW w \in {"lock", "wait", "send", "check", "exit"},
         \/ wpc' = wpc
         \/ wpc' = [wpc EXCEPT ![e] = w],
         w = "wait" => wpc[e] = "block",
         w = "send" => wpc[e] = "recv"
  PROVE  RingInv'
<1>1. RingTypes /\ RingTypes'
  BY DEF RingInv, RingTypes
<1>2. ASSUME NEW d \in Ends, NEW l \in Lists
      PROVE  ListOK(Script(d, l)', queue'[d][l], calls'[d][l], moved'[d][l], ready'[d][l], l, flags'[d])
  <2>1. Script(d, l)' = Script(d, l)
    BY DEF Script, Socket!Script
  <2>2. ListOK(Script(d, l), queue[d][l], calls[d][l], moved[d][l], ready[d][l], l, flags[d])
    BY DEF RingInv
  <2> QED
    BY <2>1, <2>2
<1>3. ASSUME NEW d \in Ends
      PROVE  /\ wpc'[d] \in {"block", "wait", "recv"} => flags'[d] = {}
             /\ wpc'[d] = "send" => "sends" \notin flags'[d]
  <2>1. wpc'[d] = wpc[d] \/ (wpc'[d] = w /\ d = e)
    BY <1>1 DEF RingTypes
  <2>2. CASE wpc'[d] = wpc[d]
    BY <2>2 DEF RingInv
  <2>3. CASE wpc'[d] = w /\ d = e
    BY <2>3 DEF RingInv
  <2> QED
    BY <2>1, <2>2, <2>3
<1> QED
  BY <1>1, <1>2, <1>3 DEF RingInv

\* Every step of the sockets, and every step of the other parts of the ring.
LEMMA RingStep ==
  ASSUME RingInv, [Next]_vars
  PROVE  RingInv'
<1>1. ASSUME NEW e \in Ends, NEW l \in Lists, Socket!Enqueue(e, l) PROVE RingInv'
  BY <1>1, RingEnqueue
<1>2. ASSUME NEW e \in Ends, Socket!Lock(e) PROVE RingInv'
  BY <1>2, TasksGone
<1>3. ASSUME NEW e \in Ends, Socket!NotifyOne(e) \/ Socket!NotifyAll(e) PROVE RingInv'
  <2>1. UNCHANGED <<queue, calls, moved, ready, flags>>
    BY <1>3 DEF Socket!NotifyOne, Socket!NotifyAll
  <2>2. wpc' = wpc \/ wpc' = [wpc EXCEPT ![e] = "lock"]
    BY <1>3 DEF Socket!NotifyOne, Socket!NotifyAll, Socket!Woken
  <2> QED
    BY <2>1, <2>2, ListsStay
<1>4. ASSUME NEW e \in Ends, Socket!Sleep(e) PROVE RingInv'
  BY <1>4, ListsStay DEF Socket!Sleep
<1>5. ASSUME NEW e \in Ends, Socket!Check(e) PROVE RingInv'
  <2>1. UNCHANGED <<queue, calls, moved, ready, flags>>
    BY <1>5 DEF Socket!Check
  <2>2. wpc' = [wpc EXCEPT ![e] = "exit"] \/ wpc' = [wpc EXCEPT ![e] = "lock"]
    BY <1>5 DEF Socket!Check
  <2> QED
    BY <2>1, <2>2, ListsStay
<1>6. ASSUME NEW e \in Ends, Socket!Recv(e) PROVE RingInv'
  <2> DEFINE q == queue[e]["recvs"]
  <2>1. /\ wpc[e] = "recv" /\ wpc' = [wpc EXCEPT ![e] = "send"]
        /\ calls' = calls /\ ready' = ready
    BY <1>6 DEF Socket!Recv
  <2>2. \/ UNCHANGED <<queue, moved, flags>>
        \/ q # <<>> /\ Socket!Moves(e, "recvs")
    BY <1>6 DEF Socket!Recv, Socket!Fails
  <2>3. CASE UNCHANGED <<queue, moved, flags>>
    BY <2>1, <2>3, ListsStay
  <2>4. CASE q # <<>> /\ Socket!Moves(e, "recvs")
    <3>1. flags[e] = {}
      BY <2>1 DEF RingInv
    <3>2. "recvs" \in Lists
      BY DEF Lists, Socket!Lists
    <3> QED
      BY <2>1, <2>4, <3>1, <3>2, BytesMove
  <2> QED
    BY <2>2, <2>3, <2>4
<1>7. ASSUME NEW e \in Ends, Socket!Send(e) PROVE RingInv'
  <2> DEFINE q == queue[e]["sends"]
  <2>1. /\ wpc[e] = "send" /\ wpc' = [wpc EXCEPT ![e] = "check"]
        /\ calls' = calls /\ ready' = ready
    BY <1>7 DEF Socket!Send
  <2>2. \/ UNCHANGED <<queue, moved, flags>>
        \/ q # <<>> /\ Socket!Moves(e, "sends")
    BY <1>7 DEF Socket!Send, Socket!Fails
  <2>3. CASE UNCHANGED <<queue, moved, flags>>
    BY <2>1, <2>3, ListsStay
  <2>4. CASE q # <<>> /\ Socket!Moves(e, "sends")
    <3>1. "sends" \notin flags[e]
      BY <2>1 DEF RingInv
    <3>2. "sends" \in Lists
      BY DEF Lists, Socket!Lists
    <3> QED
      BY <2>1, <2>4, <3>1, <3>2, BytesMove
  <2> QED
    BY <2>2, <2>3, <2>4
<1>8. ASSUME UNCHANGED <<queue, calls, moved, ready, flags, wpc>> PROVE RingInv'
  <2>1. 1 \in Ends
    BY DEF Ends, Socket!Ends
  <2>2. UNCHANGED <<queue, calls, moved, ready, flags>> /\ wpc' = wpc
    BY <1>8
  <2> QED
    BY <2>1, <2>2, ListsStay
<1>9. ASSUME Socket!Next PROVE RingInv'
  <2>1. CASE \E e \in Ends : Socket!SetStop(e) \/ Socket!Join(e)
    BY <1>8, <2>1 DEF Socket!SetStop, Socket!Join
  <2>2. CASE Socket!Break
    BY <1>8, <2>2 DEF Socket!Break
  <2> QED
    BY <1>1, <1>2, <1>3, <1>4, <1>5, <1>6, <1>7, <1>9, <2>1, <2>2
       DEF Socket!Next, Socket!Client, Socket!Worker, Socket!Destroy, Ends, Lists
<1>10. \/ Socket!Next
       \/ UNCHANGED <<queue, calls, moved, ready, flags, wpc>>
  BY DEF Next, OnlySetup, OnlyCollective, Stopped, vars, socketVars
<1> QED
  BY <1>8, <1>9, <1>10

\* A future of a send or receive is ready only when its bytes have moved, for
\* any messages, after any errors and breaks of the connection.
THEOREM PromisesHonestHolds == Spec => []PromisesHonest
<1>1. RingInv => PromisesHonest
  <2> SUFFICES ASSUME RingInv, NEW e \in Ends, NEW l \in Lists, NEW n \in ready[e][l]
               PROVE  /\ n <= calls[e][l]
                      /\ Script(e, l)[n] > 0 => Sum(Script(e, l), n) <= moved[e][l]
    BY DEF PromisesHonest, Socket!HonestPromises, Ends, Lists, Script, Sum
  <2>1. calls[e][l] \in Nat
    BY DEF RingInv, RingTypes
  <2> QED
    BY <2>1 DEF RingInv, ListOK
<1> QED
  BY <1>1, RingInit, RingStep, PTL DEF Spec

-----------------------------------------------------------------------------
\* What the variables of notification and destruction range over.
SleepTypes ==
  /\ client \in [Ends -> {"idle", "notify"}]
  /\ dpc \in [Ends -> {"live", "notify", "join", "gone"}]
  /\ stop \in [Ends -> BOOLEAN]
  /\ missed \in [Ends -> BOOLEAN]

\* The inductive invariant of the notifications: a worker that is about to
\* sleep ("block") has nothing to do, as nobody can enqueue before it sleeps,
\* but may have been told to stop.
SleepInv ==
  /\ SleepTypes
  /\ \A e \in Ends :
       /\ wpc[e] = "block" => ~Socket!HaveTasks(queue[e])
       /\ wpc[e] = "wait" /\ Socket!HaveTasks(queue[e]) => client[e] = "notify"
       /\ wpc[e] \in {"block", "wait"} /\ stop[e] => dpc[e] = "notify" \/ missed[e]

\* The workers start awake.
LEMMA SleepInit == Init => SleepInv
BY DEF Init, Socket!Init, SleepInv, SleepTypes, Ends

\* What a step leaves of the other end.
Elsewhere(e) ==
  \A d \in Ends : d # e =>
    /\ queue'[d] = queue[d] /\ client'[d] = client[d] /\ wpc'[d] = wpc[d]
    /\ stop'[d] = stop[d] /\ dpc'[d] = dpc[d] /\ missed'[d] = missed[d]

\* A step at one end has to keep the invariant there only.
LEMMA SleepHere ==
  ASSUME SleepInv, SleepTypes', NEW e \in Ends, Elsewhere(e),
         /\ wpc'[e] = "block" => ~Socket!HaveTasks(queue'[e])
         /\ wpc'[e] = "wait" /\ Socket!HaveTasks(queue'[e]) => client'[e] = "notify"
         /\ wpc'[e] \in {"block", "wait"} /\ stop'[e] => dpc'[e] = "notify" \/ missed'[e]
  PROVE  SleepInv'
<1>1. ASSUME NEW d \in Ends
      PROVE  /\ wpc'[d] = "block" => ~Socket!HaveTasks(queue'[d])
             /\ wpc'[d] = "wait" /\ Socket!HaveTasks(queue'[d]) => client'[d] = "notify"
             /\ wpc'[d] \in {"block", "wait"} /\ stop'[d] => dpc'[d] = "notify" \/ missed'[d]
  BY DEF SleepInv, Elsewhere, Socket!HaveTasks
<1> QED
  BY <1>1 DEF SleepInv, Socket!HaveTasks

\* Every step keeps the invariant of the notifications.
LEMMA SleepStep ==
  ASSUME RingInv, SleepInv, [Next]_vars
  PROVE  SleepInv'
<1>1. /\ queue \in [Ends -> [Lists -> Seq(Task)]] /\ SleepTypes
      /\ wpc \in [Ends -> {"lock", "block", "wait", "recv", "send", "check", "exit"}]
  BY DEF RingInv, RingTypes, SleepInv
<1>2. ASSUME NEW e \in Ends, NEW l \in Lists, Socket!Enqueue(e, l) PROVE SleepInv'
  <2>1. wpc' = wpc /\ wpc[e] # "block" /\ UNCHANGED <<stop, dpc, missed>>
    BY <1>2 DEF Socket!Enqueue
  <2>2. \/ UNCHANGED <<queue, client>>
        \/ client' = [client EXCEPT ![e] = "notify"]
           /\ queue' = [queue EXCEPT ![e][l] =
                Append(@, [n |-> calls[e][l] + 1, left |-> Socket!Script(e, l)[calls[e][l] + 1]])]
    BY <1>2 DEF Socket!Enqueue
  <2>3. SleepTypes' /\ Elsewhere(e) /\ (client'[e] = "notify" \/ UNCHANGED <<queue, client>>)
    BY <1>1, <2>1, <2>2 DEF SleepTypes, Elsewhere
  <2>4. wpc'[e] = "wait" /\ Socket!HaveTasks(queue'[e]) => client'[e] = "notify"
    BY <2>1, <2>3 DEF SleepInv
  <2> QED
    BY <2>1, <2>3, <2>4, SleepHere DEF SleepInv
<1>3. ASSUME NEW e \in Ends, Socket!NotifyOne(e) PROVE SleepInv'
  <2>1. /\ client' = [client EXCEPT ![e] = "idle"] /\ UNCHANGED <<queue, stop, dpc, missed>>
        /\ wpc' = IF wpc[e] = "wait" THEN [wpc EXCEPT ![e] = "lock"] ELSE wpc
    BY <1>3 DEF Socket!NotifyOne, Socket!Woken
  <2>2. SleepTypes' /\ Elsewhere(e) /\ wpc'[e] # "wait" /\ (wpc'[e] = "block" => wpc[e] = "block")
    BY <1>1, <2>1 DEF SleepTypes, Elsewhere
  <2> QED
    BY <2>1, <2>2, SleepHere DEF SleepInv
<1>4. ASSUME NEW e \in Ends, Socket!Lock(e) PROVE SleepInv'
  <2> DEFINE q == [l \in Socket!Lists |-> IF l \in flags[e] THEN Tail(queue[e][l])
                                          ELSE queue[e][l]]
  <2>1. /\ queue' = [queue EXCEPT ![e] = q]
        /\ wpc' = [wpc EXCEPT ![e] = IF stop[e] THEN "exit"
                                     ELSE IF Socket!HaveTasks(q) THEN "recv" ELSE "block"]
        /\ UNCHANGED <<client, stop, dpc, missed>>
    BY <1>4 DEF Socket!Lock
  <2> HIDE DEF q
  <2>2. SleepTypes' /\ Elsewhere(e) /\ queue'[e] = q
    BY <1>1, <2>1 DEF SleepTypes, Elsewhere
  <2>3. /\ wpc'[e] = "block" => ~Socket!HaveTasks(q) /\ ~stop[e]
        /\ wpc'[e] # "wait"
    BY <1>1, <2>1
  <2> QED
    BY <2>1, <2>2, <2>3, SleepHere
<1>5. ASSUME NEW e \in Ends, Socket!Sleep(e) PROVE SleepInv'
  <2>1. /\ wpc[e] = "block" /\ wpc' = [wpc EXCEPT ![e] = "wait"]
        /\ UNCHANGED <<queue, client, stop, dpc, missed>>
    BY <1>5 DEF Socket!Sleep
  <2>2. SleepTypes' /\ Elsewhere(e) /\ wpc'[e] = "wait"
    BY <1>1, <2>1 DEF SleepTypes, Elsewhere
  <2> QED
    BY <2>1, <2>2, SleepHere DEF SleepInv
<1>6. ASSUME NEW e \in Ends, Socket!Recv(e) \/ Socket!Send(e) PROVE SleepInv'
  <2>1. PICK w \in {"send", "check"} : wpc' = [wpc EXCEPT ![e] = w]
    BY <1>6 DEF Socket!Recv, Socket!Send
  <2>2. UNCHANGED <<client, stop, dpc, missed>>
    BY <1>6 DEF Socket!Recv, Socket!Send
  <2>3. \/ queue' = queue
        \/ \E l \in Lists : queue' = [queue EXCEPT ![e][l][1].left = @ - 1]
    BY <1>6 DEF Socket!Recv, Socket!Send, Socket!Fails, Socket!Moves, Lists, Socket!Lists
  <2>4. \A d \in Ends : d # e => queue'[d] = queue[d]
    BY <1>1, <2>3
  <2>5. SleepTypes' /\ Elsewhere(e) /\ wpc'[e] = w
    BY <1>1, <2>1, <2>2, <2>4 DEF SleepTypes, Elsewhere
  <2> QED
    BY <2>5, SleepHere
<1>7. ASSUME NEW e \in Ends, Socket!Check(e) PROVE SleepInv'
  <2>1. PICK w \in {"exit", "lock"} : wpc' = [wpc EXCEPT ![e] = w]
    BY <1>7 DEF Socket!Check
  <2>2. UNCHANGED <<queue, client, stop, dpc, missed>>
    BY <1>7 DEF Socket!Check
  <2>3. SleepTypes' /\ Elsewhere(e) /\ wpc'[e] = w
    BY <1>1, <2>1, <2>2 DEF SleepTypes, Elsewhere
  <2> QED
    BY <2>3, SleepHere
<1>8. ASSUME NEW e \in Ends, Socket!SetStop(e) PROVE SleepInv'
  <2>1. /\ stop' = [stop EXCEPT ![e] = TRUE] /\ dpc' = [dpc EXCEPT ![e] = "notify"]
        /\ UNCHANGED <<queue, client, wpc, missed>>
    BY <1>8 DEF Socket!SetStop
  <2>2. SleepTypes' /\ Elsewhere(e) /\ dpc'[e] = "notify"
    BY <1>1, <2>1 DEF SleepTypes, Elsewhere
  <2> QED
    BY <2>1, <2>2, SleepHere DEF SleepInv
<1>9. ASSUME NEW e \in Ends, Socket!NotifyAll(e) PROVE SleepInv'
  <2>1. /\ dpc' = [dpc EXCEPT ![e] = "join"]
        /\ missed' = [missed EXCEPT ![e] = wpc[e] = "block"]
        /\ UNCHANGED <<queue, client, stop>>
        /\ wpc' = IF wpc[e] = "wait" THEN [wpc EXCEPT ![e] = "lock"] ELSE wpc
    BY <1>9 DEF Socket!NotifyAll, Socket!Woken
  <2>2. (wpc[e] = "block") \in BOOLEAN
    OBVIOUS
  <2>3. SleepTypes' /\ Elsewhere(e)
    BY <1>1, <2>1, <2>2 DEF SleepTypes, Elsewhere
  <2>4. wpc'[e] # "wait" /\ (wpc'[e] = "block" => wpc[e] = "block" /\ missed'[e])
    BY <1>1, <2>1 DEF SleepTypes
  <2> QED
    BY <2>1, <2>3, <2>4, SleepHere DEF SleepInv
<1>10. ASSUME NEW e \in Ends, Socket!Join(e) PROVE SleepInv'
  <2>1. /\ wpc[e] = "exit" /\ dpc' = [dpc EXCEPT ![e] = "gone"]
        /\ UNCHANGED <<queue, client, wpc, stop, missed>>
    BY <1>10 DEF Socket!Join
  <2>2. SleepTypes' /\ Elsewhere(e)
    BY <1>1, <2>1 DEF SleepTypes, Elsewhere
  <2> QED
    BY <2>1, <2>2, SleepHere
<1>11. ASSUME UNCHANGED <<queue, client, wpc, stop, dpc, missed>> PROVE SleepInv'
  BY <1>11 DEF SleepInv, SleepTypes, Socket!HaveTasks
<1>12. CASE Socket!Next
  <2>1. CASE Socket!Break
    BY <1>11, <2>1 DEF Socket!Break
  <2> QED
    BY <1>2, <1>3, <1>4, <1>5, <1>6, <1>7, <1>8, <1>9, <1>10, <1>12, <2>1
       DEF Socket!Next, Socket!Client, Socket!Worker, Socket!Destroy, Ends, Lists
<1>13. \/ Socket!Next
       \/ UNCHANGED <<queue, client, wpc, stop, dpc, missed>>
  BY DEF Next, OnlySetup, OnlyCollective, Stopped, vars, socketVars
<1> QED
  BY <1>11, <1>12, <1>13

\* A worker sleeps over work or a stop only with a notification on its way,
\* or in the window in which the destructor's is lost.
THEOREM WakeupsLostOnlyByDestructorHolds == Spec => []WakeupsLostOnlyByDestructor
<1>1. SleepInv => WakeupsLostOnlyByDestructor
  BY DEF SleepInv, WakeupsLostOnlyByDestructor, Socket!AsleepWithWork, Ends
<1>2. Init => RingInv /\ SleepInv
  BY RingInit, SleepInit
<1>3. RingInv /\ SleepInv /\ [Next]_vars => RingInv' /\ SleepInv'
  BY RingStep, SleepStep
<1> QED
  BY <1>1, <1>2, <1>3, PTL DEF Spec
=============================================================================
