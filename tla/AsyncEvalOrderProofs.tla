------------------------ MODULE AsyncEvalOrderProofs ------------------------
(***************************************************************************)
(* Theorems about the order in which the streams of AsyncEval compute      *)
(* values, for every set of graphs and any number of streams, evaluations  *)
(* and outputs, as long as nothing throws: computations find the values of *)
(* their inputs, in buffers somebody owns; what is available has been      *)
(* computed; the engine does what LazyEval allows; and the streams never   *)
(* wait in a circle.                                                       *)
(***************************************************************************)
EXTENDS AsyncEvalProofs

-----------------------------------------------------------------------------
(* Order between streams.  A cut says how many tasks of every queue have run  *)
(* at some later time.  What holds of every cut that no wait rules out holds  *)
(* however the streams are scheduled.                                         *)

Cuts == [Streams -> Nat]

\* The values a task computes; what ends the wait of task u.
Vals(t) == {p[2] : p \in t.writes}
Wakes(t, u) ==
  \/ u.op = "fenceWait" /\ t.op = "fenceUpdate" /\ t.obj = u.obj /\ t.n <= u.n
  \/ u.op = "eventWait" /\ t.op = "eventSignal" /\ t.obj = u.obj

\* No wait has ended before what it waits for.
Consistent(Q) ==
  \A s, r \in Streams : \A i \in DOMAIN queue[s], k \in DOMAIN queue[r] :
    i <= Q[s] /\ Wakes(queue[r][k], queue[s][i]) => k <= Q[r]

\* All of v's computation has run; all tasks of one kind have: the updates of a
\* fence, the signals of an event, the tasks that hold a buffer.
Has(Q, v) ==
  \A s \in Streams : \A i \in DOMAIN queue[s] : v \in Vals(queue[s][i]) => i <= Q[s]
Marks(t) == {<<t.op, t.obj>>} \cup {<<b>> : b \in t.holds}
Passes(Q, k) ==
  \A s \in Streams : \A i \in DOMAIN queue[s] : k \in Marks(queue[s][i]) => i <= Q[s]

\* What is added to stream s now runs after v; so does what waits for k; w is
\* computed before v; v is still to be computed.
Sees(s, v) == \A Q \in Cuts : Consistent(Q) /\ Q[s] >= Len(queue[s]) => Has(Q, v)
Guards(k, v) == \A Q \in Cuts : Consistent(Q) /\ Passes(Q, k) => Has(Q, v)
Prior(w, v) == \A Q \in Cuts : Consistent(Q) /\ Has(Q, v) => Has(Q, w)
Pend(v) == \E s \in Streams : \E i \in DOMAIN queue[s] : v \in Vals(queue[s][i])

\* Every event is signaled once, at the end of its evaluation.
SignalsOnce ==
  /\ \A s \in Streams : \A i \in DOMAIN queue[s] :
       queue[s][i].op = "eventSignal" =>
         \E e \in 1 .. evals :
           /\ queue[s][i].obj = <<e, s>> /\ <<e, s>> \notin signaled
           /\ pc \in Running => e # evals
           /\ \A j \in DOMAIN queue[s] :
                queue[s][j].op = "eventSignal" /\ j # i => queue[s][j].obj # <<e, s>>
  /\ \A f \in signaled : f[1] \in 1 .. evals /\ (pc \in Running => f[1] # evals)

\* A value that the step has dispatched a computation of.
Dispatching(v) == \E s \in Streams : \E i \in New(s) : v \in Vals(queue'[s][i])

\* A cut of the queues as they grow is one of the queues as they were.
LEMMA CutGrows ==
  ASSUME Types, Grows, NEW Q \in Cuts
  PROVE  /\ Consistent(Q)' => Consistent(Q)
         /\ \A s \in Streams : Q[s] >= Len(queue'[s]) => Q[s] >= Len(queue[s])
         /\ \A v : Has(Q, v)' => Has(Q, v)
         /\ \A v : Has(Q, v) /\ ~Dispatching(v) => Has(Q, v)'
         /\ \A k : Passes(Q, k)' => Passes(Q, k)
<1>1. /\ \A s \in Streams : \A i \in DOMAIN queue[s] :
           i \in DOMAIN queue'[s] /\ queue'[s][i] = queue[s][i]
      /\ \A s \in Streams : \A i \in DOMAIN queue'[s] : i \in DOMAIN queue[s] \/ i \in New(s)
  BY GrowsFacts
<1>2. Consistent(Q)' => Consistent(Q)
  BY <1>1 DEF Consistent
<1>3. ASSUME NEW s \in Streams, Q[s] >= Len(queue'[s]) PROVE Q[s] >= Len(queue[s])
  <2>1. PICK k \in Nat, l \in Nat : DOMAIN queue[s] = 1 .. k /\ DOMAIN queue'[s] = 1 .. k + l
    BY DEF Grows
  <2>2. IsSeq(queue[s]) /\ IsSeq(queue'[s])
    BY DEF Types, Grows
  <2>3. Len(queue[s]) \in Nat /\ Len(queue'[s]) \in Nat
        /\ DOMAIN queue[s] = 1 .. Len(queue[s]) /\ DOMAIN queue'[s] = 1 .. Len(queue'[s])
    BY <2>2, ConcatFacts
  <2>4. Len(queue[s]) = k /\ Len(queue'[s]) = k + l
    BY <2>1, <2>3
  <2> QED
    BY <1>3, <2>4 DEF Cuts
<1>4. \A v : Has(Q, v)' => Has(Q, v)
  BY <1>1 DEF Has
<1>5. \A v : Has(Q, v) /\ ~Dispatching(v) => Has(Q, v)'
  BY <1>1 DEF Has, Dispatching
<1>6. \A k : Passes(Q, k)' => Passes(Q, k)
  BY <1>1 DEF Passes
<1> QED
  BY <1>2, <1>3, <1>4, <1>5, <1>6

\* A task that a stream can run waits for nothing that is still pending.
LEMMA HeadReady ==
  ASSUME Types, Closing, Updates, Waits, SignalsOnce, NEW s \in Streams, RunStream(s),
         queue[s] # <<>>, NEW r \in Streams, NEW k \in DOMAIN queue[r]
  PROVE  ~Wakes(queue[r][k], queue[s][1])
<1>1. queue[s][1] = Head(queue[s])
  BY TailFacts DEF Types
<1>2. CASE queue[s][1].op = "fenceWait"
  <2>1. fenceValue[queue[s][1].obj] >= queue[s][1].n
    BY <1>1, <1>2 DEF RunStream, RunCompute, RunHold, ReleaseBuffers, RunFenceWait,
       RunFenceUpdate, RunEventWait, RunEventSignal, Runnable, Closing
  <2>2. ASSUME queue[r][k].op = "fenceUpdate", queue[r][k].obj = queue[s][1].obj,
               queue[r][k].n <= queue[s][1].n
        PROVE  FALSE
    <3>1. GoodUpdate(r, queue[r][k])
      BY <2>2 DEF Updates
    <3>2. PICK e \in 1 .. evals : queue[r][k].obj = <<e, r>> /\ fenceValue[<<e, r>>] < queue[r][k].n
      BY <3>1 DEF GoodUpdate
    <3>3. <<e, r>> \in SyncIds
      BY AsyncEvalAssumption DEF Types, SyncIds
    <3>4. fenceValue[<<e, r>>] \in Nat /\ queue[r][k].n \in Nat
      BY <3>1, <3>3 DEF Types, GoodUpdate
    <3> HIDE DEF SyncIds
    <3>5. queue[r][k].n > fenceValue[queue[s][1].obj] /\ fenceValue[queue[s][1].obj] \in Nat
      BY <2>2, <3>2, <3>4
    <3>6. 1 \in DOMAIN queue[s]
      BY TailFacts DEF Types
    <3>7. queue[s][1].n \in Nat
      BY <1>2, <3>6 DEF Waits, GoodWait
    <3> QED
      BY <2>1, <2>2, <3>4, <3>5, <3>7
  <2> QED
    BY <1>2, <2>2 DEF Wakes
<1>3. CASE queue[s][1].op = "eventWait"
  <2>1. queue[s][1].obj \in signaled
    BY <1>1, <1>3 DEF RunStream, RunCompute, RunHold, ReleaseBuffers, RunFenceWait,
       RunFenceUpdate, RunEventWait, RunEventSignal, Runnable, Closing
  <2> QED
    BY <1>3, <2>1 DEF Wakes, SignalsOnce
<1> QED
  BY <1>2, <1>3 DEF Wakes

\* A cut of the queues after a task has run is, with that task, one of the
\* queues as they were.
LEMMA CutPops ==
  ASSUME Types, Closing, Updates, Waits, SignalsOnce, NEW s \in Streams, RunStream(s),
         queue[s] # <<>>, PopTask(s), NEW Q \in Cuts
  PROVE  \E R \in Cuts :
           /\ Consistent(Q)' => Consistent(R)
           /\ \A r \in Streams : Q[r] >= Len(queue'[r]) => R[r] >= Len(queue[r])
           /\ \A v : Has(Q, v)' <=> Has(R, v)
           /\ \A k : Passes(Q, k)' => Passes(R, k)
<1> DEFINE R == [Q EXCEPT ![s] = @ + 1]
<1>1. R \in Cuts /\ R[s] = Q[s] + 1 /\ (\A r \in Streams : Q[r] \in Nat /\ R[r] \in Nat)
      /\ \A r \in Streams : r # s => R[r] = Q[r]
  BY DEF Cuts
<1> HIDE DEF R
<1>2. /\ \A r \in Streams : IsSeq(queue'[r]) /\ (r # s => queue'[r] = queue[r])
      /\ Len(queue[s]) \in Nat \ {0} /\ DOMAIN queue[s] = 1 .. Len(queue[s])
      /\ DOMAIN queue'[s] = 1 .. Len(queue[s]) - 1
      /\ \A i \in 1 .. Len(queue[s]) - 1 : queue'[s][i] = queue[s][i + 1]
  BY Pops
<1>3. \A r \in Streams : \A i \in DOMAIN queue[r] :
        \/ r = s /\ i = 1
        \/ \E j \in DOMAIN queue'[r] : /\ queue'[r][j] = queue[r][i]
                                       /\ j <= Q[r] <=> i <= R[r]
  <2> SUFFICES ASSUME NEW r \in Streams, NEW i \in DOMAIN queue[r], ~(r = s /\ i = 1)
               PROVE  \E j \in DOMAIN queue'[r] : /\ queue'[r][j] = queue[r][i]
                                                  /\ j <= Q[r] <=> i <= R[r]
    OBVIOUS
  <2>1. CASE r = s
    <3>2. i \in 1 .. Len(queue[s]) /\ i # 1
      BY <1>2, <2>1
    <3>3. i - 1 \in 1 .. Len(queue[s]) - 1 /\ (i - 1) + 1 = i
      BY <1>2, <3>2
    <3>1. i - 1 \in DOMAIN queue'[s] /\ queue'[s][i - 1] = queue[s][i]
      BY <1>2, <3>3
    <3> QED
      BY <1>1, <2>1, <3>1, <3>2
  <2>2. CASE r # s
    BY <1>1, <1>2, <2>2
  <2> QED
    BY <2>1, <2>2
<1>4. \A r \in Streams : \A j \in DOMAIN queue'[r] :
        \E i \in DOMAIN queue[r] : /\ queue'[r][j] = queue[r][i]
                                   /\ j <= Q[r] <=> i <= R[r]
  <2> SUFFICES ASSUME NEW r \in Streams, NEW j \in DOMAIN queue'[r]
               PROVE  \E i \in DOMAIN queue[r] : /\ queue'[r][j] = queue[r][i]
                                                 /\ j <= Q[r] <=> i <= R[r]
    OBVIOUS
  <2>1. CASE r = s
    <3>1. j + 1 \in DOMAIN queue[s] /\ queue'[s][j] = queue[s][j + 1] /\ j \in Nat
      BY <1>2, <2>1
    <3> QED
      BY <1>1, <2>1, <3>1
  <2>2. CASE r # s
    BY <1>1, <1>2, <2>2
  <2> QED
    BY <2>1, <2>2
<1>5. 1 <= R[s]
  BY <1>1
<1>6. ASSUME Consistent(Q)' PROVE Consistent(R)
  <2> SUFFICES ASSUME NEW r \in Streams, NEW t \in Streams, NEW i \in DOMAIN queue[r],
                      NEW k \in DOMAIN queue[t], i <= R[r], Wakes(queue[t][k], queue[r][i])
               PROVE  k <= R[t]
    BY DEF Consistent
  <2>1. ~(r = s /\ i = 1)
    BY HeadReady
  <2>2. PICK j \in DOMAIN queue'[r] : queue'[r][j] = queue[r][i] /\ (j <= Q[r] <=> i <= R[r])
    BY <1>3, <2>1
  <2>3. CASE t = s /\ k = 1
    BY <1>5, <2>3
  <2>4. CASE ~(t = s /\ k = 1)
    <3>1. PICK l \in DOMAIN queue'[t] : queue'[t][l] = queue[t][k] /\ (l <= Q[t] <=> k <= R[t])
      BY <1>3, <2>4
    <3>2. l <= Q[t]
      BY <1>6, <2>2, <3>1 DEF Consistent
    <3> QED
      BY <3>1, <3>2
  <2> QED
    BY <2>3, <2>4
<1>7. ASSUME NEW r \in Streams, Q[r] >= Len(queue'[r]) PROVE R[r] >= Len(queue[r])
  <2>1. CASE r = s
    <3>1. DOMAIN queue'[s] = 1 .. Len(queue'[s]) /\ Len(queue'[s]) \in Nat
      BY <1>2, ConcatFacts
    <3>2. Len(queue'[s]) = Len(queue[s]) - 1
      BY <1>2, <3>1
    <3> QED
      BY <1>1, <1>2, <1>7, <2>1, <3>2
  <2>2. CASE r # s
    BY <1>1, <1>2, <1>7, <2>2
  <2> QED
    BY <2>1, <2>2
<1>8. ASSUME NEW v PROVE Has(Q, v)' <=> Has(R, v)
  <2>1. ASSUME Has(Q, v)' PROVE Has(R, v)
    BY <1>3, <1>5, <2>1 DEF Has
  <2>2. ASSUME Has(R, v) PROVE Has(Q, v)'
    BY <1>4, <2>2 DEF Has
  <2> QED
    BY <2>1, <2>2
<1>9. ASSUME NEW k, Passes(Q, k)' PROVE Passes(R, k)
  BY <1>3, <1>5, <1>9 DEF Passes
<1> QED
  BY <1>1, <1>6, <1>7, <1>8, <1>9

\* What the order of streams rests on.
Orders == Types /\ Closing /\ Updates /\ Waits /\ SignalsOnce

\* A cut after a step is one before it.
LEMMA CutBack ==
  ASSUME Orders, Next \/ UNCHANGED vars, NEW Q \in Cuts
  PROVE  \E R \in Cuts :
           /\ Consistent(Q)' => Consistent(R)
           /\ \A s \in Streams : Q[s] >= Len(queue'[s]) => R[s] >= Len(queue[s])
           /\ \A v : Has(Q, v)' => Has(R, v)
           /\ \A v : Has(R, v) /\ ~Dispatching(v) => Has(Q, v)'
           /\ \A k : Passes(Q, k)' => Passes(R, k)
<1> USE DEF Orders
<1>1. CASE Grows
  BY <1>1, CutGrows
<1>3. CASE User \/ Main \/ Quiescent \/ UNCHANGED vars
  BY <1>1, <1>3, Growth
<1>4. ASSUME NEW s \in Streams, RunStream(s), ~Grows
      PROVE  \E R \in Cuts :
           /\ Consistent(Q)' => Consistent(R)
           /\ \A r \in Streams : Q[r] >= Len(queue'[r]) => R[r] >= Len(queue[r])
           /\ \A v : Has(Q, v)' => Has(R, v)
           /\ \A v : Has(R, v) /\ ~Dispatching(v) => Has(Q, v)'
           /\ \A k : Passes(Q, k)' => Passes(R, k)
  <2> HIDE DEF Cuts
  <2>1. PICK R \in Cuts :
           /\ Consistent(Q)' => Consistent(R)
           /\ \A r \in Streams : Q[r] >= Len(queue'[r]) => R[r] >= Len(queue[r])
           /\ \A v : Has(Q, v)' <=> Has(R, v)
           /\ \A k : Passes(Q, k)' => Passes(R, k)
    <3>1. queue[s] # <<>> /\ PopTask(s)
      BY <1>4, Working, NothingAdded
    <3> QED
      BY <1>4, <3>1, CutPops
  <2> WITNESS R \in Cuts
  <2> QED
    BY <2>1
<1> QED
  BY <1>1, <1>3, <1>4 DEF Next

\* What is ordered stays so.
LEMMA OrderKept ==
  ASSUME Orders, Next \/ UNCHANGED vars
  PROVE  /\ \A s \in Streams : \A v : Sees(s, v) /\ ~Dispatching(v) => Sees(s, v)'
         /\ \A k, v : Guards(k, v) /\ ~Dispatching(v) => Guards(k, v)'
         /\ \A w, v : Prior(w, v) /\ ~Dispatching(w) => Prior(w, v)'
         /\ \A v : ~Pend(v) /\ ~Dispatching(v) => ~Pend(v)'
<1>1. ASSUME NEW s \in Streams, NEW v, Sees(s, v), ~Dispatching(v) PROVE Sees(s, v)'
  <2> SUFFICES ASSUME NEW Q \in Cuts, Consistent(Q)', Q[s] >= Len(queue'[s]) PROVE Has(Q, v)'
    BY DEF Sees, Cuts
  <2>1. PICK R \in Cuts : /\ Consistent(R) /\ R[s] >= Len(queue[s])
                          /\ Has(R, v) /\ ~Dispatching(v) => Has(Q, v)'
    BY CutBack
  <2> QED
    BY <1>1, <2>1 DEF Sees
<1>2. ASSUME NEW k, NEW v, Guards(k, v), ~Dispatching(v) PROVE Guards(k, v)'
  <2> SUFFICES ASSUME NEW Q \in Cuts, Consistent(Q)', Passes(Q, k)' PROVE Has(Q, v)'
    BY DEF Guards, Cuts
  <2>1. PICK R \in Cuts : /\ Consistent(R) /\ Passes(R, k)
                          /\ Has(R, v) /\ ~Dispatching(v) => Has(Q, v)'
    BY CutBack
  <2> QED
    BY <1>2, <2>1 DEF Guards
<1>3. ASSUME NEW w, NEW v, Prior(w, v), ~Dispatching(w) PROVE Prior(w, v)'
  <2> SUFFICES ASSUME NEW Q \in Cuts, Consistent(Q)', Has(Q, v)' PROVE Has(Q, w)'
    BY DEF Prior, Cuts
  <2>1. PICK R \in Cuts : /\ Consistent(R) /\ Has(R, v)
                          /\ Has(R, w) /\ ~Dispatching(w) => Has(Q, w)'
    BY CutBack
  <2> QED
    BY <1>3, <2>1 DEF Prior
<1>4. ASSUME NEW v, ~Pend(v), ~Dispatching(v), Pend(v)' PROVE FALSE
  <2>0. PICK s \in Streams : \E i \in DOMAIN queue'[s] : v \in Vals(queue'[s][i])
    BY <1>4 DEF Pend
  <2>1. PICK i \in DOMAIN queue'[s] : v \in Vals(queue'[s][i])
    BY <2>0
  <2>2. i \notin New(s)
    BY <1>4, <2>1 DEF Dispatching
  <2>3. CASE Grows
    BY <1>4, <2>1, <2>2, <2>3, GrowsFacts DEF Orders, Pend
  <2>4. ASSUME NEW r \in Streams, RunStream(r), ~Grows PROVE FALSE
    <3>1. queue[r] # <<>> /\ PopTask(r)
      BY <2>4, Working, NothingAdded DEF Orders
    <3>2. /\ \A t \in Streams : t # r => queue'[t] = queue[t]
          /\ Len(queue[r]) \in Nat \ {0} /\ DOMAIN queue[r] = 1 .. Len(queue[r])
          /\ DOMAIN queue'[r] = 1 .. Len(queue[r]) - 1
          /\ \A j \in 1 .. Len(queue[r]) - 1 : queue'[r][j] = queue[r][j + 1]
      BY <3>1, Pops DEF Orders
    <3>3. CASE s = r
      <4>1. PICK len \in Nat \ {0} : len = Len(queue[r])
        BY <3>2
      <4>2. i \in 1 .. len - 1
        BY <2>1, <3>2, <3>3, <4>1
      <4>3. i + 1 \in 1 .. len
        BY <4>2
      <4>4. i + 1 \in DOMAIN queue[s] /\ queue'[s][i] = queue[s][i + 1]
        BY <3>2, <3>3, <4>1, <4>2, <4>3
      <4> QED
        BY <1>4, <2>1, <4>4 DEF Pend
    <3> QED
      BY <1>4, <2>1, <3>2, <3>3 DEF Pend
  <2>5. CASE User \/ Main \/ Quiescent \/ UNCHANGED vars
    BY <2>3, <2>5, Growth DEF Orders
  <2> QED
    BY <2>3, <2>4, <2>5 DEF Next
<1> QED
  BY <1>1, <1>2, <1>3, <1>4

\* What is not pending is before everything; who passes everything of a kind
\* that is not there has seen what it guards.
LEMMA OrderFacts ==
  ASSUME NEW v
  PROVE  /\ ~Pend(v) => /\ \A Q : Has(Q, v)
                        /\ \A s : Sees(s, v)
                        /\ \A k : Guards(k, v)
                        /\ \A w : Prior(v, w)
         /\ \A k : Guards(k, v)
                   /\ (\A s \in Streams : \A i \in DOMAIN queue[s] : k \notin Marks(queue[s][i]))
                   /\ (\A s \in Streams : IsSeq(queue[s]))
                   => ~Pend(v)
         /\ \A w : Prior(w, v) => /\ \A s : Sees(s, v) => Sees(s, w)
                                  /\ \A k : Guards(k, v) => Guards(k, w)
                                  /\ \A u : Prior(v, u) => Prior(w, u)
<1>1. ~Pend(v) => \A Q : Has(Q, v)
  BY DEF Pend, Has
<1>2. ASSUME NEW k, Guards(k, v), Pend(v), \A s \in Streams : IsSeq(queue[s]),
             \A s \in Streams : \A i \in DOMAIN queue[s] : k \notin Marks(queue[s][i])
      PROVE  FALSE
  <2> DEFINE Q == [s \in Streams |-> 0]
  <2>1. Q \in Cuts /\ \A s \in Streams : Q[s] = 0
    BY DEF Cuts
  <2>2. \A s \in Streams : \A i \in DOMAIN queue[s] : ~(i <= Q[s])
    <3> SUFFICES ASSUME NEW s \in Streams, NEW i \in DOMAIN queue[s] PROVE ~(i <= 0)
      BY <2>1
    <3>1. Len(queue[s]) \in Nat /\ DOMAIN queue[s] = 1 .. Len(queue[s])
      BY <1>2, ConcatFacts
    <3> QED
      BY <3>1
  <2> HIDE DEF Q
  <2>3. Consistent(Q) /\ Passes(Q, k)
    BY <1>2, <2>2 DEF Consistent, Passes
  <2>4. Has(Q, v)
    BY <1>2, <2>1, <2>3 DEF Guards
  <2> QED
    BY <1>2, <2>2, <2>4 DEF Has, Pend
<1> QED
  BY <1>1, <1>2 DEF Sees, Guards, Prior

-----------------------------------------------------------------------------
(* Values, and the tasks that compute them *)

\* Leaves need no evaluation.
Leaves == \A x \in Arrays : graph.kind[x] = "leaf" => ~Unscheduled(x)

\* A computation in a queue is that of an array, on the stream of the array, and
\* the next task holds its buffers; the other tasks do not touch buffers.
TaskGood(s, i) ==
  IF queue[s][i].op = "compute"
    THEN \E a \in Arrays :
           /\ Placed(a) /\ ~NoWork(a) /\ graph.kind[a] # "leaf" /\ graph.stream[a] = s
           /\ Computes(queue[s][i], a, buf)
           /\ i + 1 \in DOMAIN queue[s] /\ IsHold(queue[s][i + 1], HeldBuffers(a, buf))
    ELSE queue[s][i].reads = {} /\ queue[s][i].writes = {}
Tasks == \A s \in Streams : \A i \in DOMAIN queue[s] : TaskGood(s, i)

\* No value is computed twice.
Once ==
  \A s, r \in Streams : \A i \in DOMAIN queue[s], j \in DOMAIN queue[r] : \A v :
    v \in Vals(queue[s][i]) /\ v \in Vals(queue[r][j]) => s = r /\ i = j

\* The value of an array is that of one before it, or the array itself.
LEMMA ValBelow ==
  ASSUME IsGraph(graph)
  PROVE  \A x \in Arrays : Val(x) \in Arrays /\ Val(x) <= x /\ graph.kind[Val(x)] # "views"
<1> DEFINE T == {n \in Nat : \A x \in Arrays : x <= n => Val(x) <= x}
<1>1. \A x \in Arrays : x \in Nat /\ x >= 1
  BY DEF Arrays
<1>2. 0 \in T
  BY <1>1
<1>3. ASSUME NEW n \in Nat, n \in T PROVE n + 1 \in T
  <2> SUFFICES ASSUME NEW x \in Arrays, x <= n + 1 PROVE Val(x) <= x
    OBVIOUS
  <2>1. CASE graph.kind[x] = "views"
    <3> DEFINE y == graph.in[x][1]
    <3>1. y \in Arrays /\ y < x /\ Val(x) = Val(y)
      BY <2>1, ValFacts, InputFacts
    <3>2. Val(y) \in Arrays
      BY <3>1, ValFacts
    <3> HIDE DEF y
    <3>3. y <= n
      BY <1>1, <3>1
    <3>4. Val(y) <= y
      BY <1>3, <3>1, <3>3
    <3> QED
      BY <1>1, <3>1, <3>2, <3>4
  <2>2. CASE graph.kind[x] # "views"
    BY <1>1, <2>2, ValFacts
  <2> QED
    BY <2>1, <2>2
<1> HIDE DEF T
<1>4. \A n \in Nat : n \in T
  BY <1>2, <1>3, NatSetInduction
<1>5. ASSUME NEW x \in Arrays PROVE Val(x) <= x
  BY <1>1, <1>4 DEF T
<1> QED
  BY <1>5, ValFacts

\* What an array shares with its value: being placed, and the buffer.
LEMMA ValPlaced ==
  ASSUME Types, Placement
  PROVE  \A x \in Arrays : Placed(x) => Placed(Val(x)) /\ buf[Val(x)] = buf[x]
<1> DEFINE Good(x) == Placed(x) => Placed(Val(x)) /\ buf[Val(x)] = buf[x]
           T == {n \in Nat : \A x \in Arrays : x <= n => Good(x)}
<1>1. \A x \in Arrays : x \in Nat /\ x >= 1
  BY DEF Arrays
<1>2. 0 \in T
  BY <1>1
<1>3. ASSUME NEW n \in Nat, n \in T PROVE n + 1 \in T
  <2> SUFFICES ASSUME NEW x \in Arrays, x <= n + 1, Placed(x)
               PROVE  Placed(Val(x)) /\ buf[Val(x)] = buf[x]
    OBVIOUS
  <2>1. CASE graph.kind[x] = "views"
    <3> DEFINE y == graph.in[x][1]
    <3>1. y \in Arrays /\ y < x /\ Val(x) = Val(y) /\ y \in ToSet(graph.in[x])
      BY <2>1, ValFacts, InputFacts DEF Types
    <3>2. Placed(y) /\ buf[x] = buf[y]
      BY <2>1, <3>1 DEF Placement
    <3> HIDE DEF y
    <3>3. y <= n
      BY <1>1, <3>1
    <3>4. Good(y)
      BY <1>3, <3>1, <3>3
    <3> QED
      BY <3>1, <3>2, <3>4
  <2>2. CASE graph.kind[x] # "views"
    <3>1. Val(x) = x
      BY <2>2, ValFacts DEF Types
    <3> QED
      BY <3>1
  <2> QED
    BY <2>1, <2>2
<1> HIDE DEF T
<1>4. \A n \in Nat : n \in T
  BY <1>2, <1>3, NatSetInduction
<1>5. ASSUME NEW x \in Arrays PROVE Good(x)
  BY <1>1, <1>4 DEF T
<1> QED
  BY <1>5

\* The outputs of a primitive are placed together.
LEMMA PlacedTogether ==
  ASSUME Types, Siblings, Placement, NEW a \in Arrays, Placed(a)
  PROVE  \A x \in Outputs(a) : x \in Arrays /\ Placed(x)
<1> SUFFICES ASSUME NEW x \in Outputs(a) PROVE x \in Arrays /\ Placed(x)
  OBVIOUS
<1>1. x \in Arrays /\ Outputs(x) = Outputs(a) /\ a \in Outputs(a) /\ x # Sync
  BY GroupFacts DEF Types
<1>2. CASE ~Unscheduled(x)
  BY <1>1, <1>2 DEF Placement
<1>3. CASE Unscheduled(x)
  <2>1. Unscheduled(a)
    BY <1>1, <1>3 DEF Siblings
  <2>2. pc \in Dispatched /\ a \in Outputs(m.cur)
    BY <2>1 DEF Placement
  <2>3. m.cur \in Arrays
    BY <1>1, <2>2, TapeFacts, GroupFacts DEF Entries, Outputs, Types
  <2>4. x \in Outputs(m.cur)
    BY <1>1, <2>2, <2>3, GroupFacts DEF Types
  <2> QED
    BY <1>1, <2>2, <2>4 DEF Placement
<1> QED
  BY <1>2, <1>3

\* What a task reads and writes stays where it is.
LEMMA TaskKept ==
  ASSUME Types, Siblings, Placement, graph' = graph,
         \A x \in Arrays : Placed(x) => buf'[x] = buf[x],
         NEW a \in Arrays, Placed(a)
  PROVE  /\ \A t : Computes(t, a, buf) => Computes(t, a, buf)'
         /\ \A t : IsHold(t, HeldBuffers(a, buf)) => IsHold(t, HeldBuffers(a, buf))'
<1>1. /\ \A x \in ToSet(graph.in[a]) : buf'[x] = buf[x] /\ Val(x)' = Val(x)
      /\ \A x \in Outputs(a) : buf'[x] = buf[x]
      /\ Outputs(a)' = Outputs(a) /\ a # Sync /\ a \in Outputs(a)
      /\ InputsOf(a) = graph.in[a] /\ InputsOf(a)' = graph.in[a]
  <2>1. \A x \in ToSet(graph.in[a]) : x \in Arrays /\ Placed(x)
    BY InputFacts DEF Types, Placement
  <2>2. a # Sync
    BY DEF Arrays, Sync
  <2>3. a \in Outputs(a)
    BY GroupFacts DEF Types
  <2> QED
    BY <2>1, <2>2, <2>3, PlacedTogether DEF Outputs, InputsOf, Val
<1>2. {<<buf[x], Val(x)>> : x \in ToSet(graph.in[a])}'
        = {<<buf[x], Val(x)>> : x \in ToSet(graph.in[a])}
  BY <1>1
<1>3. {<<buf[o], o>> : o \in Outputs(a)}' = {<<buf[o], o>> : o \in Outputs(a)}
  BY <1>1
<1>4. HeldBuffers(a, buf)' = HeldBuffers(a, buf)
  BY <1>1 DEF HeldBuffers
<1> QED
  BY <1>2, <1>3, <1>4 DEF Computes, IsHold

\* Only cpu::eval dispatches computations, those of the outputs of its entry.
LEMMA Dispatched1 ==
  ASSUME Types, UsedOnly, Siblings, Schedule, Placement, Holds, Closing,
         Next \/ UNCHANGED vars
  PROVE  \A v : Dispatching(v) => /\ EvalArray /\ ~NoWork(m.cur)
                                  /\ v \in Outputs(m.cur) /\ v \in Arrays /\ ~Placed(v)
<1> SUFFICES ASSUME NEW v, Dispatching(v)
             PROVE  /\ EvalArray /\ ~NoWork(m.cur)
                    /\ v \in Outputs(m.cur) /\ v \in Arrays /\ ~Placed(v)
  OBVIOUS
<1>1. PICK s \in Streams : \E i \in New(s) : v \in Vals(queue'[s][i])
  BY DEF Dispatching
<1>2. PICK i \in New(s) : v \in Vals(queue'[s][i])
  BY <1>1
<1>3. CASE EvalArray
  <2> DEFINE a == m.cur
             t == StreamOf(a)
  <2>1. /\ t \in Streams /\ \A r \in Streams \ {t} : New(r) = {}
        /\ \E k \in Nat :
             /\ DOMAIN queue[t] = 1 .. k
             /\ IF NoWork(a)
                  THEN /\ DOMAIN queue'[t] = 1 .. k + 1
                       /\ IsHold(queue'[t][k + 1], HeldBuffers(a, buf'))
                  ELSE /\ DOMAIN queue'[t] = 1 .. k + 2
                       /\ Computes(queue'[t][k + 1], a, buf')
                       /\ IsHold(queue'[t][k + 2], HeldBuffers(a, buf'))
    BY <1>3, EvalArrayAdds
  <2> HIDE DEF a, t
  <2>2. PICK k \in Nat :
             /\ DOMAIN queue[t] = 1 .. k
             /\ IF NoWork(a)
                  THEN /\ DOMAIN queue'[t] = 1 .. k + 1
                       /\ IsHold(queue'[t][k + 1], HeldBuffers(a, buf'))
                  ELSE /\ DOMAIN queue'[t] = 1 .. k + 2
                       /\ Computes(queue'[t][k + 1], a, buf')
                       /\ IsHold(queue'[t][k + 2], HeldBuffers(a, buf'))
    BY <2>1
  <2>3. s = t /\ New(t) = IF NoWork(a) THEN {k + 1} ELSE {k + 1, k + 2}
    BY <1>2, <2>1, <2>2 DEF New
  <2>4. ~NoWork(a) /\ v \in Outputs(a)
    BY <1>2, <2>2, <2>3 DEF IsHold, Computes, Vals
  <2>5. a \in Arrays
    BY <2>4, TapeFacts DEF Entries, NoWork, a
  <2>6. Outputs(a) \subseteq Arrays
    BY <2>5, GroupFacts DEF Types
  <2> QED
    BY <1>3, <2>4, <2>6, Places DEF a
<1>4. CASE ~EvalArray /\ (User \/ Main \/ Quiescent \/ UNCHANGED vars)
  BY <1>2, <1>4, OtherAdds DEF Idle, Vals
<1>5. ASSUME NEW r \in Streams, RunStream(r) PROVE FALSE
  <2>1. CASE queue' = queue
    BY <1>2, <2>1 DEF New
  <2>2. CASE queue[r] # <<>> /\ PopTask(r)
    <3>1. /\ \A p \in Streams : p # r => queue'[p] = queue[p]
          /\ Len(queue[r]) \in Nat \ {0} /\ DOMAIN queue[r] = 1 .. Len(queue[r])
          /\ DOMAIN queue'[r] = 1 .. Len(queue[r]) - 1
      BY <2>2, Pops
    <3>2. DOMAIN queue'[r] \subseteq DOMAIN queue[r]
      BY <3>1
    <3> QED
      BY <1>2, <3>1, <3>2 DEF New
  <2> QED
    BY <1>5, <2>1, <2>2, Working
<1> QED
  BY <1>3, <1>4, <1>5 DEF Next

\* No step makes an array unscheduled.
LEMMA LeavesStep ==
  ASSUME Types, Closing, Awaits, Leaves, Next \/ UNCHANGED vars
  PROVE  Leaves' /\ \A x \in Arrays : Unscheduled(x)' => Unscheduled(x)
<1>1. ASSUME NEW a \in Arrays, ~Unscheduled(a),
             status' = status \/ status' = [status EXCEPT ![a] = "available"]
      PROVE  \A x \in Arrays : Unscheduled(x)' => Unscheduled(x)
  BY <1>1 DEF Unscheduled, Types
<1>2. \A x \in Arrays : Unscheduled(x)' => Unscheduled(x)
  <2>1. CASE Publish
    BY <2>1, EntryPublished DEF Unscheduled
  <2>2. CASE Awaited
    BY <1>1, <2>2 DEF Awaited, Awaits
  <2>3. ASSUME NEW a \in Arrays, Await(a)
        PROVE  \A x \in Arrays : Unscheduled(x)' => Unscheduled(x)
    BY <1>1, <2>3 DEF Await, Unscheduled
  <2>4. CASE \/ \E async, outs : EvalImpl(async, outs) \/ \E a \in Arrays : Drop(a)
             \/ NextEntry \/ WaitForInput \/ EvalArray \/ EvalThrows \/ Throttle
             \/ WaitForOne \/ OneCompleted \/ CheckMemory \/ EndEval \/ EvalReturns
             \/ Quiescent \/ UNCHANGED vars \/ \E s \in Streams : RunStream(s)
    <3>1. status' = status
      BY <2>4, Working DEF EvalImpl, Drop, NextEntry, WaitForInput, EvalArray, EvalThrows,
         Throttle, WaitForOne, OneCompleted, CheckMemory, EndEval, EvalReturns, OnlyMain,
         Quiescent, vars, arrayVars
    <3> QED
      BY <3>1 DEF Unscheduled
  <2> QED
    BY <2>1, <2>2, <2>3, <2>4 DEF Next, User, Main
<1> QED
  BY <1>2, BufferSteps DEF Leaves

\* A task taken off a queue leaves the others where they were, one place on.
LEMMA Moves ==
  ASSUME Types, Closing, NEW s \in Streams, RunStream(s), queue' # queue
  PROVE  /\ queue[s] # <<>> /\ PopTask(s) /\ 1 \in DOMAIN queue[s] /\ Head(queue[s]) = queue[s][1]
         /\ \A r \in Streams : r # s => queue'[r] = queue[r]
         /\ \A i \in DOMAIN queue'[s] : /\ i \in Nat \ {0} /\ i + 1 \in DOMAIN queue[s]
                                        /\ queue'[s][i] = queue[s][i + 1]
         /\ \A i \in DOMAIN queue[s] : i # 1 =>
              i \in Nat /\ i - 1 \in DOMAIN queue'[s] /\ queue'[s][i - 1] = queue[s][i]
<1>1. queue[s] # <<>> /\ PopTask(s)
  BY Working
<1>2. /\ \A r \in Streams : r # s => queue'[r] = queue[r]
      /\ Len(queue[s]) \in Nat \ {0} /\ DOMAIN queue[s] = 1 .. Len(queue[s])
      /\ DOMAIN queue'[s] = 1 .. Len(queue[s]) - 1
      /\ \A i \in 1 .. Len(queue[s]) - 1 : queue'[s][i] = queue[s][i + 1]
      /\ Head(queue[s]) = queue[s][1]
  BY <1>1, Pops
<1>3. ASSUME NEW i \in DOMAIN queue[s], i # 1
      PROVE  i \in Nat /\ i - 1 \in DOMAIN queue'[s] /\ queue'[s][i - 1] = queue[s][i]
  <2>1. i \in 1 .. Len(queue[s]) /\ i # 1
    BY <1>2, <1>3
  <2>2. i - 1 \in 1 .. Len(queue[s]) - 1 /\ (i - 1) + 1 = i
    BY <1>2, <2>1
  <2> QED
    BY <1>2, <2>1, <2>2
<1> QED
  BY <1>1, <1>2, <1>3

\* Every step keeps the tasks good.
LEMMA TasksStep ==
  ASSUME Types, Types', Closing, UsedOnly, Siblings, Schedule, Placement, Holds, Leaves,
         Tasks, Next \/ UNCHANGED vars
  PROVE  Tasks'
<1>0. graph' = graph /\ \A x \in Arrays : Placed(x) => buf'[x] = buf[x] /\ Placed(x)'
  BY BufferSteps, Places DEF Placed
<1>1. ASSUME NEW s \in Streams, NEW i \in DOMAIN queue[s], NEW j \in DOMAIN queue'[s],
             queue'[s][j] = queue[s][i],
             i + 1 \in DOMAIN queue[s] =>
               j + 1 \in DOMAIN queue'[s] /\ queue'[s][j + 1] = queue[s][i + 1]
      PROVE  TaskGood(s, j)'
  <2>1. TaskGood(s, i)
    BY DEF Tasks
  <2>2. CASE queue[s][i].op = "compute"
    <3>1. PICK a \in Arrays :
           /\ Placed(a) /\ ~NoWork(a) /\ graph.kind[a] # "leaf" /\ graph.stream[a] = s
           /\ Computes(queue[s][i], a, buf)
           /\ i + 1 \in DOMAIN queue[s] /\ IsHold(queue[s][i + 1], HeldBuffers(a, buf))
      BY <2>1, <2>2 DEF TaskGood
    <3>3. Placed(a)' /\ ~NoWork(a)' /\ graph'.kind[a] # "leaf" /\ graph'.stream[a] = s
      BY <1>0, <3>1 DEF NoWork
    <3>4. Computes(queue[s][j], a, buf)'
      BY <1>1, <3>1, <1>0, TaskKept
    <3>5. IsHold(queue[s][j + 1], HeldBuffers(a, buf))'
      BY <1>1, <3>1, <1>0, TaskKept
    <3>6. queue'[s][j].op = "compute" /\ j + 1 \in DOMAIN queue'[s]
      BY <1>1, <2>2, <3>1
    <3> QED
      BY <3>3, <3>4, <3>5, <3>6 DEF TaskGood
  <2>3. CASE queue[s][i].op # "compute"
    BY <1>1, <2>1, <2>3 DEF TaskGood
  <2> QED
    BY <2>2, <2>3
<1>2. ASSUME Grows, NEW s \in Streams, NEW i \in DOMAIN queue[s] PROVE TaskGood(s, i)'
  <2>1. PICK k \in Nat, l \in Nat : DOMAIN queue[s] = 1 .. k /\ DOMAIN queue'[s] = 1 .. k + l
    BY <1>2 DEF Grows
  <2>2. /\ i \in DOMAIN queue'[s] /\ queue'[s][i] = queue[s][i]
        /\ i + 1 \in DOMAIN queue[s] =>
             i + 1 \in DOMAIN queue'[s] /\ queue'[s][i + 1] = queue[s][i + 1]
    BY <1>2, GrowsFacts
  <2> QED
    BY <1>1, <2>2
<1>3. CASE EvalArray
  <2>0. PICK a, t : a = m.cur /\ t = StreamOf(m.cur)
    OBVIOUS
  <2>1. /\ t \in Streams /\ \A r \in Streams \ {t} : New(r) = {}
        /\ Grows
        /\ pc = "inputs" /\ UNCHANGED <<graph, m>>
        /\ \E k \in Nat :
             /\ DOMAIN queue[t] = 1 .. k
             /\ IF NoWork(a)
                  THEN /\ DOMAIN queue'[t] = 1 .. k + 1
                       /\ IsHold(queue'[t][k + 1], HeldBuffers(a, buf'))
                  ELSE /\ DOMAIN queue'[t] = 1 .. k + 2
                       /\ Computes(queue'[t][k + 1], a, buf')
                       /\ IsHold(queue'[t][k + 2], HeldBuffers(a, buf'))
    BY <1>3, <2>0, EvalArrayAdds
  <2>2. ~NoWork(a) => /\ a \in Arrays /\ Placed(a)' /\ graph.kind[a] # "leaf"
                      /\ graph.stream[a] = t
    <3> SUFFICES ASSUME ~NoWork(a)
                 PROVE  /\ a \in Arrays /\ Placed(a)' /\ graph.kind[a] # "leaf"
                        /\ graph.stream[a] = t
      OBVIOUS
    <3>1. a \in Arrays
      BY <2>0, TapeFacts DEF Entries, NoWork
    <3>2. Placeable(a)
      BY <2>0, <2>1, EntryReady DEF NoWork
    <3>3. a \in Outputs(a) /\ StreamOf(a) = graph.stream[a]
      BY <3>1, GroupFacts DEF Types
    <3> QED
      BY <1>3, <2>0, <3>1, <3>2, <3>3, Places DEF Placeable, Leaves
  <2>3. PICK k \in Nat :
             /\ DOMAIN queue[t] = 1 .. k
             /\ IF NoWork(a)
                  THEN /\ DOMAIN queue'[t] = 1 .. k + 1
                       /\ IsHold(queue'[t][k + 1], HeldBuffers(a, buf'))
                  ELSE /\ DOMAIN queue'[t] = 1 .. k + 2
                       /\ Computes(queue'[t][k + 1], a, buf')
                       /\ IsHold(queue'[t][k + 2], HeldBuffers(a, buf'))
    BY <2>1
  <2>4. New(t) = IF NoWork(a) THEN {k + 1} ELSE {k + 1, k + 2}
    BY <2>3 DEF New
  <2>5. \A b : IsHold(b, HeldBuffers(a, buf')) => IsHold(b, HeldBuffers(a, buf))'
    <3>1. HeldBuffers(a, buf') = HeldBuffers(a, buf)'
      BY <2>1 DEF HeldBuffers, InputsOf, Outputs
    <3> QED
      BY <3>1 DEF IsHold
  <2>6. \A b : Computes(b, a, buf') => Computes(b, a, buf)'
    BY <2>1 DEF Computes, Outputs, Val
  <2>7. ASSUME NEW i \in New(t) PROVE TaskGood(t, i)'
    <3>1. CASE NoWork(a)
      <4>1. i = k + 1
        BY <2>4, <3>1
      <4> QED
        BY <2>3, <3>1, <4>1 DEF TaskGood, IsHold
    <3>2. CASE ~NoWork(a) /\ i = k + 2
      BY <2>3, <3>2 DEF TaskGood, IsHold
    <3>3. CASE ~NoWork(a) /\ i = k + 1
      <4>1. Computes(queue[t][i], a, buf)'
        BY <2>3, <2>6, <3>3
      <4>2. i + 1 = k + 2 /\ i + 1 \in DOMAIN queue'[t]
        BY <2>3, <3>3
      <4>3. IsHold(queue[t][i + 1], HeldBuffers(a, buf))'
        BY <2>3, <2>5, <3>3, <4>2
      <4>4. queue'[t][i].op = "compute"
        BY <4>1 DEF Computes
      <4>5. ~NoWork(a)' /\ graph'.kind[a] # "leaf" /\ graph'.stream[a] = t
        BY <2>1, <2>2, <3>3 DEF NoWork
      <4> QED
        BY <2>2, <3>3, <4>1, <4>2, <4>3, <4>4, <4>5 DEF TaskGood
    <3> QED
      BY <2>4, <3>1, <3>2, <3>3
  <2> QED
    BY <1>2, <2>1, <2>7, GrowsFacts DEF Tasks
<1>4. CASE ~EvalArray /\ (User \/ Main \/ Quiescent \/ UNCHANGED vars)
  <2>1. Grows /\ \A s \in Streams : \A i \in New(s) : Idle(queue'[s][i])
    BY <1>4, OtherAdds
  <2>2. \A s \in Streams : \A i \in New(s) : TaskGood(s, i)'
    BY <2>1 DEF Idle, TaskGood
  <2> QED
    BY <1>2, <2>1, <2>2, GrowsFacts DEF Tasks
<1>5. ASSUME NEW s \in Streams, RunStream(s) PROVE Tasks'
  <2>1. CASE queue' = queue
    <3>1. Grows /\ \A r \in Streams : New(r) = {}
      BY <2>1, NothingAdded
    <3> QED
      BY <1>2, <3>1, GrowsFacts DEF Tasks
  <2>2. CASE queue' # queue
    <3>1. /\ \A r \in Streams : r # s => queue'[r] = queue[r]
          /\ \A i \in DOMAIN queue'[s] : /\ i \in Nat \ {0} /\ i + 1 \in DOMAIN queue[s]
                                         /\ queue'[s][i] = queue[s][i + 1]
          /\ \A i \in DOMAIN queue[s] : i # 1 =>
               i \in Nat /\ i - 1 \in DOMAIN queue'[s] /\ queue'[s][i - 1] = queue[s][i]
      BY <1>5, <2>2, Moves
    <3>2. ASSUME NEW j \in DOMAIN queue'[s] PROVE TaskGood(s, j)'
      <4>1. /\ j \in Nat \ {0} /\ j + 1 \in DOMAIN queue[s] /\ queue'[s][j] = queue[s][j + 1]
        BY <3>1
      <4>2. (j + 1) + 1 # 1 /\ ((j + 1) + 1) - 1 = j + 1
        BY <4>1
      <4>3. (j + 1) + 1 \in DOMAIN queue[s] =>
              j + 1 \in DOMAIN queue'[s] /\ queue'[s][j + 1] = queue[s][(j + 1) + 1]
        BY <3>1, <4>2
      <4> QED
        BY <1>1, <4>1, <4>3
    <3>3. ASSUME NEW r \in Streams, r # s, NEW j \in DOMAIN queue'[r] PROVE TaskGood(r, j)'
      BY <1>1, <3>1, <3>3
    <3> QED
      BY <3>2, <3>3 DEF Tasks
  <2> QED
    BY <2>1, <2>2
<1> QED
  BY <1>3, <1>4, <1>5 DEF Next

\* Every step leaves each value to one computation.
LEMMA OnceStep ==
  ASSUME Types, Closing, UsedOnly, Siblings, Schedule, Placement, Holds,
         \A v : Pend(v) => Placed(v), Once, Next \/ UNCHANGED vars
  PROVE  Once'
<1>1. CASE Grows
  <2>1. \A v : Dispatching(v) => ~Pend(v)
    BY Dispatched1
  <2>2. \A s \in Streams : \A i \in DOMAIN queue'[s] :
          (i \in DOMAIN queue[s] /\ queue'[s][i] = queue[s][i]) \/ i \in New(s)
    BY <1>1, GrowsFacts
  <2>3. ASSUME NEW s \in Streams, NEW i \in New(s), NEW r \in Streams, NEW j \in DOMAIN queue'[r],
               NEW v, v \in Vals(queue'[s][i]), v \in Vals(queue'[r][j])
        PROVE  s = r /\ i = j
    <3>1. Dispatching(v)
      BY <2>3 DEF Dispatching
    <3>2. j \in New(r)
      BY <2>1, <2>2, <2>3, <3>1 DEF Pend
    <3>3. EvalArray
      BY <3>1, Dispatched1
    <3> DEFINE a == m.cur
               t == StreamOf(a)
    <3>4. /\ t \in Streams /\ \A p \in Streams \ {t} : New(p) = {}
          /\ \E k \in Nat :
             /\ DOMAIN queue[t] = 1 .. k
             /\ IF NoWork(a)
                  THEN /\ DOMAIN queue'[t] = 1 .. k + 1
                       /\ IsHold(queue'[t][k + 1], HeldBuffers(a, buf'))
                  ELSE /\ DOMAIN queue'[t] = 1 .. k + 2
                       /\ Computes(queue'[t][k + 1], a, buf')
                       /\ IsHold(queue'[t][k + 2], HeldBuffers(a, buf'))
      BY <3>3, EvalArrayAdds
    <3> HIDE DEF a, t
    <3>5. PICK k \in Nat :
             /\ DOMAIN queue[t] = 1 .. k
             /\ IF NoWork(a)
                  THEN /\ DOMAIN queue'[t] = 1 .. k + 1
                       /\ IsHold(queue'[t][k + 1], HeldBuffers(a, buf'))
                  ELSE /\ DOMAIN queue'[t] = 1 .. k + 2
                       /\ Computes(queue'[t][k + 1], a, buf')
                       /\ IsHold(queue'[t][k + 2], HeldBuffers(a, buf'))
      BY <3>4
    <3>6. s = t /\ r = t /\ New(t) = IF NoWork(a) THEN {k + 1} ELSE {k + 1, k + 2}
      BY <2>3, <3>2, <3>4, <3>5 DEF New
    <3>7. \A l \in New(t) : v \in Vals(queue'[t][l]) => l = k + 1
      BY <3>5, <3>6 DEF IsHold, Vals
    <3> QED
      BY <2>3, <3>2, <3>6, <3>7
  <2>4. ASSUME NEW s \in Streams, NEW r \in Streams, NEW i \in DOMAIN queue'[s],
               NEW j \in DOMAIN queue'[r], NEW v, v \in Vals(queue'[s][i]), v \in Vals(queue'[r][j])
        PROVE  s = r /\ i = j
    <3>1. CASE i \in New(s)
      BY <2>3, <2>4, <3>1
    <3>2. CASE j \in New(r)
      BY <2>3, <2>4, <3>2
    <3>3. CASE i \notin New(s) /\ j \notin New(r)
      BY <2>2, <2>4, <3>3 DEF Once
    <3> QED
      BY <3>1, <3>2, <3>3
  <2> QED
    BY <2>4 DEF Once
<1>2. ASSUME NEW s \in Streams, RunStream(s), queue' # queue PROVE Once'
  <2>1. /\ \A r \in Streams : r # s => queue'[r] = queue[r]
        /\ \A i \in DOMAIN queue'[s] : /\ i \in Nat \ {0} /\ i + 1 \in DOMAIN queue[s]
                                       /\ queue'[s][i] = queue[s][i + 1]
    BY <1>2, Moves
  <2>2. ASSUME NEW t \in Streams, NEW r \in Streams, NEW i \in DOMAIN queue'[t],
               NEW j \in DOMAIN queue'[r], NEW v, v \in Vals(queue'[t][i]), v \in Vals(queue'[r][j])
        PROVE  t = r /\ i = j
    <3>1. CASE t = s /\ r = s
      <4>0. /\ v \in Vals(queue[s][i + 1]) /\ v \in Vals(queue[s][j + 1])
            /\ i + 1 \in DOMAIN queue[s] /\ j + 1 \in DOMAIN queue[s]
        BY <2>1, <2>2, <3>1
      <4>1. i + 1 = j + 1
        BY <4>0 DEF Once
      <4> QED
        BY <2>1, <2>2, <3>1, <4>1
    <3>2. CASE t = s /\ r # s
      BY <2>1, <2>2, <3>2 DEF Once
    <3>3. CASE t # s /\ r = s
      BY <2>1, <2>2, <3>3 DEF Once
    <3>4. CASE t # s /\ r # s
      <4>1. queue'[t] = queue[t] /\ queue'[r] = queue[r]
        BY <2>1, <3>4
      <4> QED
        BY <2>2, <4>1 DEF Once
    <3> QED
      BY <3>1, <3>2, <3>3, <3>4
  <2> QED
    BY <2>2 DEF Once
<1>3. queue' = queue => Grows
  BY NothingAdded
<1> QED
  BY <1>1, <1>2, <1>3, Growth DEF Next

\* Only the end of eval_impl enqueues signals, and only a call starts an evaluation.
LEMMA NoSignals ==
  ASSUME Types, User \/ Main \/ Quiescent \/ UNCHANGED vars, ~EndEval
  PROVE  /\ \A s \in Streams : \A i \in New(s) : queue'[s][i].op # "eventSignal"
         /\ \/ evals' = evals /\ (pc' \in Running => pc \in Running)
            \/ pc = "idle" /\ evals' = evals + 1
<1>1. CASE WaitForInput
  <2>1. \A s \in Streams : \A i \in New(s) : queue'[s][i].op # "eventSignal"
    BY <1>1, WaitAdds, TaskFields
  <2> QED
    BY <1>1, <2>1 DEF WaitForInput
<1>2. CASE EvalArray
  BY <1>2, DispatchAdds DEF EvalArray, Running, InBody
<1>3. CASE Publish
  <2>1. pc \in Running /\ evals' = evals
    BY <1>3, EntryPublished DEF Running
  <2> QED
    BY <1>3, <2>1, PublishedOp
<1>4. CASE User \/ NextEntry \/ EvalThrows \/ Throttle \/ WaitForOne \/ OneCompleted
           \/ CheckMemory \/ EvalReturns \/ Awaited \/ Quiescent \/ UNCHANGED vars
  <2>1. queue' = queue
    BY <1>4 DEF User, EvalImpl, Await, Drop, NextEntry, EvalThrows, Throttle, WaitForOne,
       OneCompleted, CheckMemory, EvalReturns, Awaited, Quiescent, vars, OnlyMain, streamVars
  <2>2. \/ evals' = evals /\ (pc' \in Running => pc \in Running)
        \/ pc = "idle" /\ evals' = evals + 1
    BY <1>4 DEF User, EvalImpl, Await, Drop, NextEntry, EvalThrows, Throttle, WaitForOne,
       OneCompleted, CheckMemory, EvalReturns, Awaited, Quiescent, vars, OnlyMain,
       Running, InBody
  <2> QED
    BY <2>1, <2>2 DEF New
<1> QED
  BY <1>1, <1>2, <1>3, <1>4 DEF Main

\* Nothing is signaled before any call.
LEMMA SignalsOnceInit == Init => SignalsOnce
  BY DEF Init, SignalsOnce

\* Every step keeps the signals apart: eval_impl ends with a new one on every
\* stream it used, and a worker runs each once.
LEMMA SignalsOnceStep ==
  ASSUME Types, Closing, SignalsOnce, Next \/ UNCHANGED vars
  PROVE  SignalsOnce'
<1>0. evals \in Nat
  BY AsyncEvalAssumption DEF Types
<1>1. CASE EndEval
  <2>1. /\ evals' = evals /\ signaled' = signaled /\ pc \in Running /\ pc' \notin Running
    BY <1>1 DEF EndEval, Running, InBody
  <2>2. evals \in 1 .. evals
    BY <1>0, <2>1 DEF Types
  <2>3. ASSUME NEW s \in Streams, NEW i \in DOMAIN queue'[s], queue'[s][i].op = "eventSignal"
        PROVE  \E e \in 1 .. evals :
                 /\ queue'[s][i].obj = <<e, s>> /\ <<e, s>> \notin signaled
                 /\ \A j \in DOMAIN queue'[s] :
                      queue'[s][j].op = "eventSignal" /\ j # i => queue'[s][j].obj # <<e, s>>
    <3>1. /\ DOMAIN queue[s] = 1 .. Len(queue[s]) /\ Len(queue[s]) \in Nat
          /\ \A j \in DOMAIN queue[s] : queue'[s][j] = queue[s][j]
          /\ \/ /\ DOMAIN queue'[s] = 1 .. Len(queue[s]) + 1
                /\ queue'[s][Len(queue[s]) + 1] = EventSignal(<<evals, s>>)
             \/ queue'[s] = queue[s]
      BY <1>1, Signals
    <3>2. \A j \in DOMAIN queue'[s] : \/ j \in DOMAIN queue[s]
                                      \/ /\ queue'[s][j].obj = <<evals, s>>
                                         /\ j = Len(queue[s]) + 1
      <4>1. EventSignal(<<evals, s>>).obj = <<evals, s>>
        BY TaskFields
      <4> QED
        BY <3>1, <4>1
    <3>3. CASE i \in DOMAIN queue[s]
      <4>1. PICK e \in 1 .. evals :
              /\ queue[s][i].obj = <<e, s>> /\ <<e, s>> \notin signaled /\ e # evals
              /\ \A j \in DOMAIN queue[s] :
                   queue[s][j].op = "eventSignal" /\ j # i => queue[s][j].obj # <<e, s>>
        BY <2>1, <2>3, <3>1, <3>3 DEF SignalsOnce
      <4>2. \A j \in DOMAIN queue'[s] :
              queue'[s][j].op = "eventSignal" /\ j # i => queue'[s][j].obj # <<e, s>>
        BY <3>1, <3>2, <4>1
      <4> QED
        BY <3>1, <3>3, <4>1, <4>2
    <3>4. CASE i \notin DOMAIN queue[s]
      <4>1. queue'[s][i].obj = <<evals, s>> /\ i = Len(queue[s]) + 1
        BY <3>2, <3>4
      <4>2. <<evals, s>> \notin signaled
        BY <2>1 DEF SignalsOnce
      <4>3. \A j \in DOMAIN queue[s] :
              queue[s][j].op = "eventSignal" => queue[s][j].obj # <<evals, s>>
        <5> SUFFICES ASSUME NEW j \in DOMAIN queue[s], queue[s][j].op = "eventSignal"
                     PROVE  queue[s][j].obj # <<evals, s>>
          OBVIOUS
        <5>1. PICK e \in 1 .. evals : queue[s][j].obj = <<e, s>> /\ e # evals
          BY <2>1 DEF SignalsOnce
        <5> QED
          BY <5>1
      <4>4. \A j \in DOMAIN queue'[s] :
              queue'[s][j].op = "eventSignal" /\ j # i => queue'[s][j].obj # <<evals, s>>
        BY <3>1, <3>2, <4>1, <4>3
      <4> QED
        BY <2>2, <4>1, <4>2, <4>4
    <3> QED
      BY <3>3, <3>4
  <2> QED
    BY <2>1, <2>3 DEF SignalsOnce
<1>2. CASE ~EndEval /\ (User \/ Main \/ Quiescent \/ UNCHANGED vars)
  <2>1. /\ \A s \in Streams : \A i \in New(s) : queue'[s][i].op # "eventSignal"
        /\ \/ evals' = evals /\ (pc' \in Running => pc \in Running)
           \/ pc = "idle" /\ evals' = evals + 1
    BY <1>2, NoSignals
  <2>2. Grows /\ signaled' = signaled
    BY <1>2, Growth
  <2>3. \A s \in Streams : \A i \in DOMAIN queue'[s] :
          queue'[s][i].op = "eventSignal" =>
            i \in DOMAIN queue[s] /\ queue'[s][i] = queue[s][i]
    BY <2>1, <2>2, GrowsFacts
  <2>4. \A e \in 1 .. evals : e \in 1 .. evals' /\ ((pc \in Running => e # evals) =>
                                                   (pc' \in Running => e # evals'))
    BY <1>0, <2>1
  <2>5. ASSUME NEW s \in Streams, NEW i \in DOMAIN queue'[s], queue'[s][i].op = "eventSignal"
        PROVE  \E e \in 1 .. evals' :
                 /\ queue'[s][i].obj = <<e, s>> /\ <<e, s>> \notin signaled
                 /\ pc' \in Running => e # evals'
                 /\ \A j \in DOMAIN queue'[s] :
                      queue'[s][j].op = "eventSignal" /\ j # i => queue'[s][j].obj # <<e, s>>
    <3>1. i \in DOMAIN queue[s] /\ queue'[s][i] = queue[s][i]
      BY <2>3, <2>5
    <3>2. PICK e \in 1 .. evals :
            /\ queue[s][i].obj = <<e, s>> /\ <<e, s>> \notin signaled
            /\ pc \in Running => e # evals
            /\ \A j \in DOMAIN queue[s] :
                 queue[s][j].op = "eventSignal" /\ j # i => queue[s][j].obj # <<e, s>>
      BY <2>5, <3>1 DEF SignalsOnce
    <3>3. e \in 1 .. evals' /\ (pc' \in Running => e # evals')
      BY <2>4, <3>2
    <3> QED
      BY <2>3, <3>1, <3>2, <3>3
  <2>6. \A f \in signaled : f[1] \in 1 .. evals' /\ (pc' \in Running => f[1] # evals')
    BY <2>4 DEF SignalsOnce
  <2> QED
    BY <2>2, <2>5, <2>6 DEF SignalsOnce
<1>3. ASSUME NEW s \in Streams, RunStream(s) PROVE SignalsOnce'
  <2>1. UNCHANGED <<pc, evals>>
    BY <1>3, Working
  <2>2. CASE queue' = queue
    <3>1. signaled' = signaled
      <4>1. CASE queue[s] # <<>> /\ PopTask(s)
        <5>1. Len(queue[s]) \in Nat \ {0} /\ DOMAIN queue[s] = 1 .. Len(queue[s])
              /\ DOMAIN queue'[s] = 1 .. Len(queue[s]) - 1
          BY <4>1, Pops
        <5> QED
          BY <2>2, <5>1
      <4> QED
        BY <1>3, <4>1, Working
    <3> QED
      BY <2>1, <2>2, <3>1 DEF SignalsOnce
  <2>3. CASE queue' # queue
    <3>1. /\ queue[s] # <<>> /\ PopTask(s) /\ 1 \in DOMAIN queue[s] /\ Head(queue[s]) = queue[s][1]
          /\ \A r \in Streams : r # s => queue'[r] = queue[r]
          /\ \A i \in DOMAIN queue'[s] : /\ i \in Nat \ {0} /\ i + 1 \in DOMAIN queue[s]
                                         /\ queue'[s][i] = queue[s][i + 1]
      BY <1>3, <2>3, Moves
    <3>2. \/ signaled' = signaled
          \/ queue[s][1].op = "eventSignal" /\ signaled' = signaled \cup {queue[s][1].obj}
      <4>1. CASE RunHold(s) /\ UNCHANGED queue
        BY <2>3, <4>1
      <4> QED
        BY <1>3, <3>1, <4>1, Working
    <3>3. ASSUME NEW r \in Streams, NEW i \in DOMAIN queue'[r], queue'[r][i].op = "eventSignal"
          PROVE  \E e \in 1 .. evals :
                   /\ queue'[r][i].obj = <<e, r>> /\ <<e, r>> \notin signaled'
                   /\ pc \in Running => e # evals
                   /\ \A j \in DOMAIN queue'[r] :
                        queue'[r][j].op = "eventSignal" /\ j # i => queue'[r][j].obj # <<e, r>>
      <4>1. CASE r = s
        <5>1. PICK e \in 1 .. evals :
                /\ queue[s][i + 1].obj = <<e, s>> /\ <<e, s>> \notin signaled
                /\ pc \in Running => e # evals
                /\ \A j \in DOMAIN queue[s] :
                     queue[s][j].op = "eventSignal" /\ j # i + 1 => queue[s][j].obj # <<e, s>>
          <6>1. i + 1 \in DOMAIN queue[s] /\ queue[s][i + 1].op = "eventSignal"
            BY <3>1, <3>3, <4>1
          <6>2. PICK k \in DOMAIN queue[s] : k = i + 1
            BY <6>1
          <6> QED
            BY <6>1, <6>2 DEF SignalsOnce
        <5>2. 1 # i + 1 /\ \A j \in DOMAIN queue'[s] : j # i => j + 1 # i + 1
          BY <3>1, <3>3, <4>1
        <5>3. <<e, s>> \notin signaled'
          BY <3>1, <3>2, <5>1, <5>2
        <5>4. \A j \in DOMAIN queue'[s] :
                queue'[s][j].op = "eventSignal" /\ j # i => queue'[s][j].obj # <<e, s>>
          BY <3>1, <5>1, <5>2
        <5> QED
          BY <3>1, <3>3, <4>1, <5>1, <5>3, <5>4
      <4>2. CASE r # s
        <5>1. queue'[r] = queue[r]
          BY <3>1, <4>2
        <5>2. PICK e \in 1 .. evals :
                /\ queue[r][i].obj = <<e, r>> /\ <<e, r>> \notin signaled
                /\ pc \in Running => e # evals
                /\ \A j \in DOMAIN queue[r] :
                     queue[r][j].op = "eventSignal" /\ j # i => queue[r][j].obj # <<e, r>>
          BY <3>3, <5>1 DEF SignalsOnce
        <5>3. queue[s][1].op = "eventSignal" => \E d \in 1 .. evals : queue[s][1].obj = <<d, s>>
          BY <3>1 DEF SignalsOnce
        <5>4. <<e, r>> \notin signaled'
          BY <3>2, <4>2, <5>2, <5>3
        <5> QED
          BY <5>1, <5>2, <5>4
      <4> QED
        BY <4>1, <4>2
    <3>4. \A f \in signaled' : f[1] \in 1 .. evals /\ (pc \in Running => f[1] # evals)
      <4>1. queue[s][1].op = "eventSignal" =>
              \E e \in 1 .. evals : queue[s][1].obj = <<e, s>> /\ (pc \in Running => e # evals)
        <5>1. PICK k \in DOMAIN queue[s] : k = 1
          BY <3>1
        <5> QED
          BY <5>1 DEF SignalsOnce
      <4>2. \A f \in signaled : f[1] \in 1 .. evals /\ (pc \in Running => f[1] # evals)
        BY DEF SignalsOnce
      <4> QED
        BY <3>2, <4>1, <4>2
    <3> QED
      BY <2>1, <3>3, <3>4 DEF SignalsOnce
  <2> QED
    BY <2>2, <2>3
<1> QED
  BY <1>1, <1>2, <1>3 DEF Next

\* Only values that have been placed are pending, and none of them is a leaf.
LEMMA PendPlaced ==
  ASSUME Types, Siblings, Placement, Tasks
  PROVE  \A v : Pend(v) => /\ v \in Arrays /\ Placed(v) /\ ~NoWork(v)
                           /\ graph.kind[v] # "leaf"
<1> SUFFICES ASSUME NEW v, Pend(v)
             PROVE  v \in Arrays /\ Placed(v) /\ ~NoWork(v) /\ graph.kind[v] # "leaf"
  OBVIOUS
<1>1. PICK s \in Streams : \E i \in DOMAIN queue[s] : v \in Vals(queue[s][i])
  BY DEF Pend
<1>2. PICK i \in DOMAIN queue[s] : v \in Vals(queue[s][i])
  BY <1>1
<1>3. TaskGood(s, i)
  BY DEF Tasks
<1>4. PICK a \in Arrays : /\ Placed(a) /\ ~NoWork(a) /\ graph.kind[a] # "leaf"
                          /\ Computes(queue[s][i], a, buf)
  BY <1>2, <1>3 DEF TaskGood, Vals
<1>5. v \in Outputs(a)
  BY <1>2, <1>4 DEF Vals, Computes
<1>6. graph.kind[v] = graph.kind[a] /\ v \in Arrays
  BY <1>5, GroupFacts DEF Types
<1>7. v # Sync
  BY <1>6 DEF Arrays, Sync
<1> QED
  BY <1>4, <1>5, <1>6, <1>7, PlacedTogether DEF NoWork

\* Arrays get their event when their turn comes, in an async evaluation; before
\* that they have none.
Fresh ==
  \A x \in Arrays :
    /\ Unscheduled(x) /\ ~(pc \in InBody /\ x \in Outputs(m.cur)) => event[x] = NoEvent
    /\ pc \in InBody /\ x \in Outputs(m.cur) =>
         event[x] = IF m.async THEN <<evals, StreamOf(m.cur)>> ELSE NoEvent

\* No array has an event before any call.
LEMMA FreshInit == Init => Fresh
  BY DEF Init, Fresh, InBody

\* Every step keeps them fresh.
LEMMA FreshStep ==
  ASSUME Faulty = {}, Types, Closing, Siblings, Awaits, Schedule, Leaves, SignalsOnce, Fresh,
         Next \/ UNCHANGED vars
  PROVE  Fresh'
<1>0. graph' = graph /\ \A x \in Arrays : Unscheduled(x)' => Unscheduled(x)
  BY BufferSteps, LeavesStep
<1>1. CASE NextEntry
  <2>1. PICK a \in Entries : a = m.tape[1]
    BY <1>1, EntryTaken
  <2>2. /\ pc = "next" /\ pc' = "inputs" /\ m'.cur = a /\ UNCHANGED <<status, evals>>
        /\ m'.home = m.home /\ m'.async = m.async /\ 1 \in DOMAIN m.tape
        /\ \A x \in Arrays : event'[x] = IF m.async /\ x \in Outputs(a)
                                           THEN <<evals, StreamOf(a)>> ELSE event[x]
    BY <1>1, <2>1, EntryTaken
  <2>3. Outputs(m.cur)' = Outputs(a) /\ StreamOf(m.cur)' = StreamOf(a)
    BY <1>0, <2>2 DEF Outputs, StreamOf
  <2>4. \A x \in Outputs(a) \cap Arrays : Unscheduled(x)
    <3>1. CASE a = Sync
      BY <3>1 DEF Outputs, Arrays, Sync
    <3>2. CASE a # Sync
      <4>1. Unscheduled(a) /\ a \in Arrays
        BY <2>1, <2>2, <3>2 DEF Schedule, EntryGood, Running, Entries
      <4> QED
        BY <4>1 DEF Siblings
    <3> QED
      BY <3>1, <3>2
  <2>5. \A x \in Arrays : Unscheduled(x) => event[x] = NoEvent
    BY <2>2 DEF Fresh, InBody
  <2>6. pc' \in InBody
    BY <2>2 DEF InBody
  <2> QED
    BY <1>0, <2>2, <2>3, <2>4, <2>5, <2>6 DEF Fresh
<1>2. CASE \/ WaitForInput \/ EvalArray \/ Throttle \/ WaitForOne
           \/ OneCompleted \/ CheckMemory
  <2>1. /\ pc \in InBody /\ pc' \in InBody /\ UNCHANGED <<status, evals>>
        /\ m'.cur = m.cur /\ m'.home = m.home /\ m'.async = m.async
        /\ \A y \in Arrays : event'[y] \in {event[y], NoEvent}
    BY <1>2, BodySteps
  <2>2. Outputs(m.cur)' = Outputs(m.cur) /\ StreamOf(m.cur)' = StreamOf(m.cur)
    BY <1>0, <2>1 DEF Outputs, StreamOf
  <2>3. ASSUME NEW x \in Arrays, x \in Outputs(m.cur) PROVE event'[x] = event[x]
    <3>1. CASE WaitForInput /\ event' # event
      <4>1. PICK y : event[y] \in signaled /\ event' = [event EXCEPT ![y] = NoEvent]
        BY <3>1 DEF WaitForInput
      <4>2. event[y][1] # evals
        BY <2>1, <4>1 DEF SignalsOnce, Running
      <4>3. event[x] = <<evals, StreamOf(m.cur)>> \/ event[x] = NoEvent
        BY <2>1, <2>3 DEF Fresh
      <4> QED
        BY <4>1, <4>2, <4>3 DEF Types
    <3>2. CASE ~WaitForInput
      BY <1>2, <3>2 DEF EvalArray, Throttle, WaitForOne, OneCompleted, CheckMemory, OnlyMain,
         arrayVars
    <3> QED
      BY <3>1, <3>2
  <2> QED
    BY <2>1, <2>2, <2>3, <1>0 DEF Fresh
<1>3. CASE Publish
  <2>1. /\ pc' = "next" /\ event' = event
        /\ \A x \in Arrays :
              status'[x] = IF x \in Outputs(m.cur) THEN "evaluated" ELSE status[x]
    BY <1>3, EntryPublished
  <2>2. pc' \notin InBody
    BY <2>1 DEF InBody
  <2>3. \A x \in Arrays : Unscheduled(x)' => Unscheduled(x) /\ x \notin Outputs(m.cur)
    BY <2>1 DEF Unscheduled
  <2> QED
    BY <2>1, <2>2, <2>3 DEF Fresh
<1>4. ASSUME pc \notin InBody, pc' \notin InBody,
             \A x \in Arrays : event'[x] \in {event[x], NoEvent}
      PROVE  Fresh'
  BY <1>0, <1>4 DEF Fresh
<1>5. CASE User \/ EndEval \/ EvalReturns \/ Awaited
  <2>1. pc \notin InBody /\ pc' \notin InBody
    BY <1>5 DEF User, EvalImpl, Await, Drop, EndEval, EvalReturns, Awaited, InBody
  <2>2. \A x \in Arrays : event'[x] \in {event[x], NoEvent}
    BY <1>5 DEF User, EvalImpl, Await, Drop, EndEval, EvalReturns, Awaited, OnlyMain, arrayVars,
       Types
  <2> QED
    BY <1>4, <2>1, <2>2
<1>6. CASE Quiescent \/ UNCHANGED vars \/ \E s \in Streams : RunStream(s)
  <2>1. UNCHANGED <<graph, status, event, pc, m, evals>>
    BY <1>6, Working DEF Quiescent, vars, arrayVars
  <2> QED
    BY <2>1 DEF Fresh, Unscheduled, Outputs, StreamOf
<1>7. ~EvalThrows
  BY DEF EvalThrows
<1> QED
  BY <1>1, <1>2, <1>3, <1>5, <1>6, <1>7 DEF Next, Main

-----------------------------------------------------------------------------
(* What waits guarantee *)

\* Whatever is added last to a stream is a mark of all the stream has seen.
LEMMA LastGuards ==
  ASSUME Types, Types', NEW s \in Streams, NEW k, NEW v, Sees(s, v)',
         NEW i \in DOMAIN queue'[s], i = Len(queue'[s]), k \in Marks(queue'[s][i])
  PROVE  Guards(k, v)'
<1> SUFFICES ASSUME NEW Q \in Cuts, Consistent(Q)', Passes(Q, k)' PROVE Has(Q, v)'
  BY DEF Guards, Cuts
<1>1. i <= Q[s]
  BY DEF Passes
<1>2. Q[s] \in Nat /\ Len(queue'[s]) \in Nat
  BY ConcatFacts DEF Cuts, Types
<1> QED
  BY <1>1, <1>2 DEF Sees

\* A stream that waits for a fence, all of whose updates so far it waits for, or
\* for an event, has seen what they guard.
LEMMA WaitSees ==
  ASSUME Types, Types', NEW s \in Streams, NEW k, NEW v, Guards(k, v)',
         NEW i \in DOMAIN queue'[s], i = Len(queue'[s]),
         \A r \in Streams : \A j \in DOMAIN queue'[r] :
           k \in Marks(queue'[r][j]) => Wakes(queue'[r][j], queue'[s][i])
  PROVE  Sees(s, v)'
<1> SUFFICES ASSUME NEW Q \in Cuts, Consistent(Q)', Q[s] >= Len(queue'[s]) PROVE Has(Q, v)'
  BY DEF Sees, Cuts
<1>1. Q[s] \in Nat /\ Len(queue'[s]) \in Nat
  BY ConcatFacts DEF Cuts, Types
<1>2. i <= Q[s]
  BY <1>1
<1>3. Passes(Q, k)'
  BY <1>2 DEF Passes, Consistent
<1> QED
  BY <1>3 DEF Guards

-----------------------------------------------------------------------------
(* The state the order of values rests on *)

Base ==
  /\ FenceInv /\ PlacedInv /\ EventInv
  /\ SignalsOnce /\ Leaves /\ Tasks /\ Once /\ Fresh

\* What there is in it, and what a step can do to it.
LEMMA BaseFacts ==
  ASSUME Base
  PROVE  /\ Types /\ Closing /\ Updates /\ Waits /\ Counts /\ Orders
         /\ Siblings /\ Schedule /\ Awaits /\ UsedOnly /\ Placement /\ Holds
         /\ CrossFenced /\ EventsGood /\ Callers
         /\ SignalsOnce /\ Leaves /\ Tasks /\ Once /\ Fresh
BY DEF Base, FenceInv, PlacedInv, EventInv, Orders

\* It holds before any call.
LEMMA BaseInit == Init => Base
<1> SUFFICES ASSUME Init PROVE Base
  OBVIOUS
<1>1. FenceInv /\ PlacedInv /\ EventInv /\ SignalsOnce /\ Fresh
  BY FenceInvInit, PlacedInvInit, EventInvInit, SignalsOnceInit, FreshInit
<1>2. Tasks /\ Once
  BY DEF Init, Tasks, Once
<1>3. Leaves
  BY DEF Init, Leaves, Unscheduled
<1> QED
  BY <1>1, <1>2, <1>3 DEF Base

\* Every step keeps it, as long as nothing throws.
LEMMA BaseStep ==
  ASSUME Faulty = {}, Base, Next \/ UNCHANGED vars
  PROVE  Base'
<1>1. FenceInv'
  BY FenceInvStep DEF Base
<1>2. PlacedInv'
  BY <1>1, PlacedInvStep DEF Base
<1>3. EventInv'
  BY <1>1, EventInvStep DEF Base
<1>4. Types' /\ \A v : Pend(v) => Placed(v)
  BY <1>1, BaseFacts, PendPlaced DEF FenceInv
<1>5. SignalsOnce' /\ Leaves' /\ Tasks' /\ Once' /\ Fresh'
  BY <1>4, BaseFacts, SignalsOnceStep, LeavesStep, TasksStep, OnceStep, FreshStep
<1> QED
  BY <1>1, <1>2, <1>3, <1>5 DEF Base

-----------------------------------------------------------------------------
(* Who waits for an array waits for its value *)

\* What is behind array z is behind value v: more work on z's stream, a wait for
\* its fence once z has been published, a wait for its event once its evaluation
\* is over.
After(v, z) ==
  /\ Sees(graph.stream[z], v)
  /\ z \in m.needsFence /\ ~Unscheduled(z) =>
       Guards(<<"fenceUpdate", FenceOf(graph.stream[z])>>, v)
  /\ event[z] # NoEvent /\ ~(pc \in Running /\ event[z][1] = evals) =>
       Guards(<<"eventSignal", event[z]>>, v)

\* Fences and events that can be waited for after a step could be before, except
\* for those the step itself makes.
LEMMA Waitable ==
  ASSUME Faulty = {}, Base, Next \/ UNCHANGED vars, NEW z \in Arrays
  PROVE  /\ z \in m'.needsFence /\ ~Unscheduled(z)' =>
              /\ evals' = evals /\ z \in m.needsFence
              /\ ~Unscheduled(z) \/ (Publish /\ z \in Outputs(m.cur))
         /\ event'[z] # NoEvent /\ ~(pc' \in Running /\ event'[z][1] = evals') =>
              /\ event'[z] = event[z]
              /\ pc \in Running /\ event[z][1] = evals => EndEval
<1> USE BaseFacts
<1>1. CASE NextEntry
  <2>1. /\ pc' = "inputs" /\ UNCHANGED <<status, evals>> /\ m'.needsFence = m.needsFence
        /\ \A x \in Arrays :
             event'[x] = IF m.async /\ x \in Outputs(m.tape[1])
                           THEN <<evals, StreamOf(m.tape[1])>> ELSE event[x]
    BY <1>1, EntryTaken
  <2> QED
    BY <2>1 DEF Running, InBody, Unscheduled
<1>2. CASE \/ WaitForInput \/ EvalArray \/ Throttle \/ WaitForOne
           \/ OneCompleted \/ CheckMemory
  <2>1. /\ pc \in InBody /\ pc' \in InBody /\ UNCHANGED <<status, evals>>
        /\ m'.needsFence = m.needsFence
        /\ \A y \in Arrays : event'[y] \in {event[y], NoEvent}
    BY <1>2, BodySteps
  <2> QED
    BY <2>1 DEF Running, Unscheduled
<1>3. CASE Publish
  <2>1. /\ pc \in InBody /\ pc' = "next" /\ UNCHANGED <<event, evals>>
        /\ m'.needsFence = m.needsFence
        /\ \A x \in Arrays :
              status'[x] = IF x \in Outputs(m.cur) THEN "evaluated" ELSE status[x]
    BY <1>3, EntryPublished
  <2> QED
    BY <1>3, <2>1 DEF Running, Unscheduled
<1>4. ASSUME NEW outs, NEW async, EvalImpl(async, outs)
      PROVE  /\ z \in m'.needsFence => Unscheduled(z)'
             /\ event' = event /\ pc \notin Running
  <2>1. \E home : \E t \in Tapes(outs) : m'.needsFence = NeedsFence(t, outs, home)
    <3>1. "needsFence" \in DOMAIN NoEval
      BY DEF NoEval
    <3> QED
      BY <1>4, <3>1 DEF EvalImpl, NoEval
  <2>2. m'.needsFence \subseteq Pending
    BY <2>1, TapesTyped
  <2> QED
    BY <1>4, <2>2 DEF EvalImpl, Pending, Unscheduled, arrayVars, Running, InBody
<1>5. CASE EndEval \/ EvalReturns \/ Awaited \/ \E a \in Arrays : Await(a)
  <2>0. /\ NoEval.needsFence = {} /\ [NoEval EXCEPT !.home = m.home].needsFence = {}
        /\ \A a : [NoEval EXCEPT !.cur = a].needsFence = {}
    BY DEF NoEval
  <2>1. m'.needsFence = {} \/ (m' = m /\ \E a \in Arrays : Await(a))
    BY <1>5, <2>0 DEF EndEval, EvalReturns, Awaited, Await
  <2>2. evals' = evals
    BY <1>5 DEF EndEval, EvalReturns, Awaited, Await, OnlyMain
  <2>3. /\ \A x \in Arrays : event'[x] \in {event[x], NoEvent}
        /\ pc \in Running => EndEval
    BY <1>5 DEF EndEval, EvalReturns, Awaited, Await, OnlyMain, Running, InBody, arrayVars,
       Types
  <2>4. z \in m'.needsFence /\ ~Unscheduled(z)' =>
          z \in m.needsFence /\ ~Unscheduled(z)
    <3>1. CASE \E a \in Arrays : Await(a) /\ status' # status
      <4>1. PICK a \in Arrays : /\ status[a] = "evaluated"
                                /\ status' = [status EXCEPT ![a] = "available"]
                                /\ m' = m
        BY <3>1 DEF Await
      <4> QED
        BY <4>1 DEF Unscheduled, Types
    <3>2. CASE m'.needsFence = {}
      BY <3>2
    <3>3. CASE status' = status /\ m' = m
      BY <3>3 DEF Unscheduled
    <3> QED
      BY <2>1, <3>1, <3>2, <3>3
  <2> QED
    BY <2>2, <2>3, <2>4
<1>6. CASE Quiescent \/ UNCHANGED vars \/ (\E s \in Streams : RunStream(s))
           \/ \E a \in Arrays : Drop(a)
  <2>1. UNCHANGED <<status, event, pc, m, evals>>
    BY <1>6, Working DEF Quiescent, vars, arrayVars, Drop
  <2>2. CASE pc \in Running /\ event[z][1] = evals
    BY <2>1, <2>2 DEF Unscheduled
  <2> QED
    BY <2>1, <2>2 DEF Unscheduled
<1>7. ~EvalThrows
  BY DEF EvalThrows
<1> QED
  BY <1>1, <1>2, <1>3, <1>4, <1>5, <1>6, <1>7 DEF Next, Main, User

\* The marks of a task tell its operation, and the buffers it holds.
LEMMA MarkFacts ==
  ASSUME NEW t, NEW a, NEW b
  PROVE  /\ <<a, b>> \in Marks(t) <=> t.op = a /\ t.obj = b
         /\ <<b>> \in Marks(t) <=> b \in t.holds
<1>1. \A c : <<a, b>> # <<c>>
  <2> SUFFICES ASSUME NEW c, <<a, b>> = <<c>> PROVE FALSE
    OBVIOUS
  <2>1. Len(<<a, b>>) = 2 /\ Len(<<c>>) = 1
    OBVIOUS
  <2> QED
    BY <2>1
<1>2. \A c : <<b>> = <<c>> => b = c
  OBVIOUS
<1>3. \A c, d : <<b>> # <<c, d>>
  <2> SUFFICES ASSUME NEW c, NEW d, <<b>> = <<c, d>> PROVE FALSE
    OBVIOUS
  <2>1. Len(<<b>>) = 1 /\ Len(<<c, d>>) = 2
    OBVIOUS
  <2> QED
    BY <2>1
<1>4. \A c, d : <<a, b>> = <<c, d>> <=> a = c /\ b = d
  OBVIOUS
<1>5. \A x : x \in Marks(t) <=> x = <<t.op, t.obj>> \/ \E c \in t.holds : x = <<c>>
  BY DEF Marks
<1> QED
  BY <1>1, <1>2, <1>3, <1>4, <1>5

\* What is behind an array stays there: where a fence or an event for it is made,
\* the update or the signal goes to the end of its stream.
LEMMA AfterKept ==
  ASSUME Faulty = {}, Base, Types', Next \/ UNCHANGED vars,
         NEW z \in Arrays, NEW v, ~Dispatching(v), After(v, z)
  PROVE  After(v, z)'
<1> USE BaseFacts
<1>0. PICK s \in Streams : s = graph.stream[z]
  BY DEF Types, IsGraph
<1>1. graph' = graph /\ s = graph'.stream[z]
  BY <1>0, BufferSteps
<1>2. Sees(s, v)'
  BY <1>0, OrderKept DEF After
<1>3. ASSUME z \in m'.needsFence, ~Unscheduled(z)', NEW k, k = <<"fenceUpdate", FenceOf(s)>>'
      PROVE  Guards(k, v)'
  <2>2. /\ evals' = evals /\ z \in m.needsFence
        /\ ~Unscheduled(z) \/ (Publish /\ z \in Outputs(m.cur))
    BY <1>3, Waitable
  <2>1. k = <<"fenceUpdate", FenceOf(s)>>
    BY <1>3, <2>2 DEF FenceOf
  <2>4. CASE ~Unscheduled(z)
    <3>1. Guards(k, v)
      BY <1>0, <2>1, <2>2, <2>4 DEF After
    <3> QED
      BY <3>1, OrderKept
  <2>5. CASE Publish /\ z \in Outputs(m.cur)
    <3>1. s = StreamOf(m.cur) /\ IsFiniteSet(Outputs(m.cur))
      BY <1>0, <2>5, TapeFacts, OutputsFacts DEF Types
    <3>2. PICK l \in Nat :
            /\ Fenced \in Nat /\ DOMAIN queue'[s] = 1 .. l + Fenced
            /\ \A i \in 1 .. Fenced :
                 queue'[s][l + i] = FenceUpdate(FenceOf(s), m.fenceCount[s] + i)
      BY <2>5, <3>1, PublishAdds
    <3>3. Fenced # 0
      <4>1. IsFiniteSet(Outputs(m.cur) \cap m.needsFence)
        BY <3>1, FS_Subset
      <4>2. z \in Outputs(m.cur) \cap m.needsFence
        BY <2>2, <2>5
      <4> QED
        BY <4>1, <4>2, FS_EmptySet DEF Fenced
    <3>4. PICK i \in DOMAIN queue'[s] : i = l + Fenced
      BY <3>2, <3>3
    <3>5. i = Len(queue'[s])
      <4>1. DOMAIN queue'[s] = 1 .. Len(queue'[s]) /\ Len(queue'[s]) \in Nat
        BY ConcatFacts DEF Types
      <4> QED
        BY <3>2, <3>4, <4>1
    <3>6. queue'[s][i].op = "fenceUpdate" /\ queue'[s][i].obj = FenceOf(s)
      BY <3>2, <3>3, <3>4, TaskFields
    <3>7. k \in Marks(queue'[s][i])
      BY <2>1, <3>6, MarkFacts
    <3> QED
      BY <1>2, <3>5, <3>7, LastGuards
  <2> QED
    BY <2>2, <2>4, <2>5
<1>4. ASSUME event'[z] # NoEvent, ~(pc' \in Running /\ event'[z][1] = evals'),
             NEW k, k = <<"eventSignal", event[z]>>'
      PROVE  Guards(k, v)'
  <2>2. /\ event'[z] = event[z] /\ k = <<"eventSignal", event[z]>>
        /\ pc \in Running /\ event[z][1] = evals => EndEval
    BY <1>4, Waitable
  <2>3. CASE ~(pc \in Running /\ event[z][1] = evals)
    <3>1. Guards(k, v)
      BY <1>4, <2>2, <2>3 DEF After
    <3> QED
      BY <3>1, OrderKept
  <2>4. CASE pc \in Running /\ event[z][1] = evals /\ EndEval
    <3>1. /\ event[z] = <<evals, s>> /\ m.async /\ s \in m.open
      <4>1. EventGood(z)
        BY DEF EventsGood
      <4>2. PICK e \in 1 .. evals :
              /\ event[z] = <<e, s>>
              /\ pc \in Running /\ e = evals => m.async /\ s \in m.open
        BY <1>0, <1>4, <2>2, <4>1 DEF EventGood
      <4>3. e = evals
        BY <2>4, <4>2
      <4> QED
        BY <2>4, <4>2, <4>3
    <3>2. /\ Len(queue[s]) \in Nat
          /\ DOMAIN queue'[s] = 1 .. Len(queue[s]) + 1
          /\ queue'[s][Len(queue[s]) + 1] = EventSignal(<<evals, s>>)
      BY <2>4, <3>1, Signals
    <3>3. PICK i \in DOMAIN queue'[s] : i = Len(queue[s]) + 1
      <4>1. Len(queue[s]) + 1 \in 1 .. Len(queue[s]) + 1
        BY <3>2
      <4> QED
        BY <3>2, <4>1
    <3>4. i = Len(queue'[s])
      <4>1. DOMAIN queue'[s] = 1 .. Len(queue'[s]) /\ Len(queue'[s]) \in Nat
        BY ConcatFacts DEF Types
      <4> QED
        BY <3>2, <3>3, <4>1
    <3>5. queue'[s][i].op = "eventSignal" /\ queue'[s][i].obj = event[z]
      BY <3>1, <3>2, <3>3, TaskFields
    <3>6. k \in Marks(queue'[s][i])
      BY <2>2, <3>5, MarkFacts
    <3> QED
      BY <1>2, <3>4, <3>6, LastGuards
  <2> QED
    BY <2>2, <2>3, <2>4
<1> QED
  BY <1>1, <1>2, <1>3, <1>4 DEF After

\* When its signal has run, the value behind an event has been computed.
LEMMA SignalMeansDone ==
  ASSUME Base, NEW z \in Arrays, NEW v, After(v, z), event[z] # NoEvent, event[z] \in signaled
  PROVE  ~Pend(v)
<1> USE BaseFacts
<1>1. PICK k : k = <<"eventSignal", event[z]>>
  OBVIOUS
<1>2. Guards(k, v)
  BY <1>1 DEF After, SignalsOnce
<1>3. \A s \in Streams : \A i \in DOMAIN queue[s] : k \notin Marks(queue[s][i])
  <2> SUFFICES ASSUME NEW s \in Streams, NEW i \in DOMAIN queue[s], k \in Marks(queue[s][i])
               PROVE  FALSE
    OBVIOUS
  <2>1. queue[s][i].op = "eventSignal" /\ queue[s][i].obj = event[z]
    BY <1>1, MarkFacts
  <2> QED
    BY <2>1 DEF SignalsOnce
<1> QED
  BY <1>2, <1>3, OrderFacts DEF Types

\* One task goes to the end of a queue.
LEMMA AddsOne ==
  ASSUME Types, NEW s \in Streams, NEW t, Enqueue(s, <<t>>)
  PROVE  /\ Len(queue[s]) \in Nat /\ DOMAIN queue[s] = 1 .. Len(queue[s])
         /\ DOMAIN queue'[s] = 1 .. Len(queue[s]) + 1
         /\ \A r \in Streams : r # s => queue'[r] = queue[r]
         /\ \A j \in 1 .. Len(queue[s]) : queue'[s][j] = queue[s][j]
         /\ queue'[s][Len(queue[s]) + 1] = t
<1>1. PICK ts : ts = <<t>>
  OBVIOUS
<1>2. IsSeq(ts) /\ Len(ts) = 1 /\ ts[1] = t
  BY <1>1, SingletonFacts
<1>3. Enqueue(s, ts)
  BY <1>1
<1>4. /\ Len(queue[s]) \in Nat /\ DOMAIN queue[s] = 1 .. Len(queue[s])
      /\ \A r \in Streams : r # s => queue'[r] = queue[r]
  BY <1>2, <1>3, Adds
<1>5. /\ DOMAIN queue'[s] = 1 .. Len(queue[s]) + Len(ts)
      /\ \A j \in 1 .. Len(queue[s]) : queue'[s][j] = queue[s][j]
  BY <1>2, <1>3, Adds
<1>6. \A j \in 1 .. Len(ts) : queue'[s][Len(queue[s]) + j] = ts[j]
  BY <1>2, <1>3, Adds, SMTT(30)
<1> QED
  BY <1>2, <1>4, <1>5, <1>6

\* The wait for an input that eval_impl enqueues, or leaves out, puts what the
\* entry's stream does next behind the value of the input.
LEMMA InputSeen ==
  ASSUME Faulty = {}, Base, Types', WaitForInput, NEW s, s = StreamOf(m.cur),
         NEW x, x = InputsOf(m.cur)[m.i], NEW v, ~Dispatching(v), After(v, x),
         x \notin m.needsFence /\ event[x] = NoEvent => Sees(s, v)
  PROVE  Sees(s, v)'
<1> USE BaseFacts
<1>1. /\ pc = "inputs" /\ pc \in InBody /\ pc \in Running /\ m.cur \in Entries /\ s \in Streams
      /\ m.i \in DOMAIN InputsOf(m.cur) /\ x \in ToSet(InputsOf(m.cur)) /\ x \in Arrays
  <2>1. m.cur \in Entries /\ m.i \in Nat \ {0} /\ s \in Streams
    BY TapeFacts, StreamOfTyped DEF Types, Locals
  <2>2. InputsOf(m.cur) \in Seq(Arrays)
    BY <2>1, InputsTyped
  <2>3. m.i \in 1 .. Len(InputsOf(m.cur)) /\ pc = "inputs"
    BY <2>1, <2>2 DEF WaitForInput
  <2> QED
    BY <2>1, <2>2, <2>3 DEF InBody, Running, ToSet
<1>2. PICK src \in Streams : src = graph.stream[x]
  BY <1>1 DEF Types, IsGraph
<1>3. Next
  BY DEF Next, Main
<1>4. Sees(s, v) => Sees(s, v)'
  BY <1>1, <1>3, OrderKept
<1>5. CASE x \in m.needsFence
  <2>1. PICK f, n, k : f = FenceOf(src) /\ n = m.fenceCount[src] /\ k = <<"fenceUpdate", f>>
    OBVIOUS
  <2>2. Enqueue(s, <<FenceWait(f, n)>>)
    BY <1>2, <1>5, <2>1 DEF WaitForInput
  <2>3. /\ Len(queue[s]) \in Nat /\ DOMAIN queue[s] = 1 .. Len(queue[s])
        /\ DOMAIN queue'[s] = 1 .. Len(queue[s]) + 1
        /\ \A r \in Streams : r # s => queue'[r] = queue[r]
        /\ \A j \in 1 .. Len(queue[s]) : queue'[s][j] = queue[s][j]
        /\ queue'[s][Len(queue[s]) + 1] = FenceWait(f, n)
    BY <1>1, <2>2, AddsOne
  <2>4. PICK i \in DOMAIN queue'[s] : i = Len(queue[s]) + 1
    <3>1. Len(queue[s]) + 1 \in 1 .. Len(queue[s]) + 1
      BY <2>3
    <3> QED
      BY <2>3, <3>1
  <2>5. i = Len(queue'[s])
    <3>1. DOMAIN queue'[s] = 1 .. Len(queue'[s]) /\ Len(queue'[s]) \in Nat
      BY <1>1, ConcatFacts DEF Types
    <3> QED
      BY <2>3, <2>4, <3>1
  <2>6. queue'[s][i].op = "fenceWait" /\ queue'[s][i].obj = f /\ queue'[s][i].n = n
    BY <2>3, <2>4, TaskFields
  <2>7. Guards(k, v)'
    <3>1. ~Unscheduled(x)
      BY <1>1 DEF Schedule, CurrentGood
    <3>2. Guards(k, v)
      BY <1>2, <1>5, <2>1, <3>1 DEF After
    <3> QED
      BY <1>3, <3>2, OrderKept
  <2>8. ASSUME NEW r \in Streams, NEW j \in DOMAIN queue'[r], k \in Marks(queue'[r][j])
        PROVE  Wakes(queue'[r][j], queue'[s][i])
    <3>1. queue'[r][j].op = "fenceUpdate" /\ queue'[r][j].obj = f
      BY <2>1, <2>8, MarkFacts
    <3>2. ~(r = s /\ j = i)
      BY <2>6, <3>1
    <3>3. j \in DOMAIN queue[r] /\ queue'[r][j] = queue[r][j]
      BY <2>3, <2>4, <3>2
    <3>4. GoodUpdate(r, queue[r][j])
      BY <3>1, <3>3 DEF Updates
    <3>5. PICK e \in 1 .. evals :
            /\ queue[r][j].obj = <<e, r>>
            /\ e = evals /\ pc \in Running => queue[r][j].n <= m.fenceCount[r]
      BY <3>4 DEF GoodUpdate
    <3>6. e = evals /\ r = src
      BY <2>1, <3>1, <3>3, <3>5 DEF FenceOf
    <3>7. queue'[r][j].n <= n
      BY <1>1, <2>1, <3>3, <3>5, <3>6
    <3> QED
      BY <2>6, <3>1, <3>7 DEF Wakes
  <2> QED
    BY <1>1, <2>5, <2>7, <2>8, WaitSees
<1>6. CASE x \notin m.needsFence /\ event[x] = NoEvent
  BY <1>4, <1>6
<1>7. CASE event[x] # NoEvent /\ event[x] \in signaled
  <2>1. ~Pend(v)
    BY <1>1, <1>7, SignalMeansDone
  <2> QED
    BY <1>4, <2>1, OrderFacts
<1>8. CASE x \notin m.needsFence /\ event[x] # NoEvent /\ event[x] \notin signaled
  <2>1. PICK e \in 1 .. evals : event[x] = <<e, src>>
    BY <1>1, <1>2, <1>8 DEF EventsGood, EventGood
  <2>2. CASE src = s
    <3>1. Sees(s, v)
      BY <1>2, <2>2 DEF After
    <3> QED
      BY <1>4, <3>1
  <2>3. CASE src # s
    <3>1. e # evals
      <4> SUFFICES ASSUME e = evals PROVE FALSE
        OBVIOUS
      <4>1. Mine(x)
        BY <1>8, <2>1 DEF Mine
      <4>2. FencedIn(m.cur)
        BY <1>1 DEF CrossFenced
      <4> QED
        BY <1>1, <1>2, <1>8, <2>3, <4>1, <4>2 DEF FencedIn
    <3>2. PICK f, k : f = event[x] /\ k = <<"eventSignal", f>>
      OBVIOUS
    <3>3. Guards(k, v)'
      <4>1. Guards(k, v)
        BY <1>8, <2>1, <3>1, <3>2 DEF After
      <4> QED
        BY <1>3, <4>1, OrderKept
    <3>4. Enqueue(s, <<EventWait(f)>>)
      BY <1>8, <2>1, <2>3, <3>2 DEF WaitForInput
    <3>5. /\ Len(queue[s]) \in Nat /\ DOMAIN queue[s] = 1 .. Len(queue[s])
          /\ DOMAIN queue'[s] = 1 .. Len(queue[s]) + 1
          /\ queue'[s][Len(queue[s]) + 1] = EventWait(f)
      BY <1>1, <3>4, AddsOne
    <3>6. PICK i \in DOMAIN queue'[s] : i = Len(queue[s]) + 1
      <4>1. Len(queue[s]) + 1 \in 1 .. Len(queue[s]) + 1
        BY <3>5
      <4> QED
        BY <3>5, <4>1
    <3>7. i = Len(queue'[s])
      <4>1. DOMAIN queue'[s] = 1 .. Len(queue'[s]) /\ Len(queue'[s]) \in Nat
        BY <1>1, ConcatFacts DEF Types
      <4> QED
        BY <3>5, <3>6, <4>1
    <3>8. queue'[s][i].op = "eventWait" /\ queue'[s][i].obj = f
      BY <3>5, <3>6, TaskFields
    <3>9. \A r \in Streams : \A j \in DOMAIN queue'[r] :
            k \in Marks(queue'[r][j]) => Wakes(queue'[r][j], queue'[s][i])
      <4>1. PICK w : w = queue'[s][i]
        OBVIOUS
      <4>2. w.op = "eventWait" /\ w.obj = f
        BY <3>8, <4>1
      <4>3. ASSUME NEW t, k \in Marks(t) PROVE Wakes(t, w)
        <5>1. t.op = "eventSignal" /\ t.obj = f
          BY <3>2, <4>3, MarkFacts
        <5> QED
          BY <4>2, <5>1 DEF Wakes
      <4> QED
        BY <4>1, <4>3
    <3> QED
      BY <1>1, <3>3, <3>7, <3>9, WaitSees
  <2> QED
    BY <2>2, <2>3
<1> QED
  BY <1>5, <1>6, <1>7, <1>8

\* A computation writes the outputs of its array.
LEMMA WritesOutputs ==
  ASSUME NEW t, NEW a, NEW p, Computes(t, a, p)
  PROVE  Vals(t) = Outputs(a)
<1>1. ASSUME NEW v \in Vals(t) PROVE v \in Outputs(a)
  <2>1. PICK q \in t.writes : v = q[2]
    BY DEF Vals
  <2>2. PICK o \in Outputs(a) : q = <<p[o], o>>
    BY <2>1 DEF Computes
  <2> QED
    BY <2>1, <2>2
<1>2. ASSUME NEW o \in Outputs(a) PROVE o \in Vals(t)
  <2>1. <<p[o], o>> \in t.writes /\ <<p[o], o>>[2] = o
    BY DEF Computes
  <2> QED
    BY <2>1 DEF Vals
<1> QED
  BY <1>1, <1>2

\* The outputs of an entry are the values of one task, the last but one on its
\* stream, and of no other.
LEMMA EntryTasks ==
  ASSUME Base, EvalArray, ~NoWork(m.cur), NEW s, s = StreamOf(m.cur)
  PROVE  /\ s \in Streams /\ Grows /\ \A r \in Streams \ {s} : New(r) = {}
         /\ \E k \in Nat :
              /\ DOMAIN queue[s] = 1 .. k /\ DOMAIN queue'[s] = 1 .. k + 2
              /\ Len(queue[s]) = k /\ Len(queue'[s]) = k + 2
              /\ IsHold(queue'[s][k + 2], HeldBuffers(m.cur, buf'))
              /\ \A o \in Outputs(m.cur) : \A r \in Streams : \A i \in DOMAIN queue'[r] :
                   o \in Vals(queue'[r][i]) <=> r = s /\ i = k + 1
<1> USE BaseFacts
<1>1. PICK a : a = m.cur
  OBVIOUS
<1>2. Next /\ s \in Streams
  BY TapeFacts, StreamOfTyped DEF Next, Main
<1>3. PICK k \in Nat : /\ DOMAIN queue[s] = 1 .. k /\ DOMAIN queue'[s] = 1 .. k + 2
                       /\ Computes(queue'[s][k + 1], a, buf')
                       /\ IsHold(queue'[s][k + 2], HeldBuffers(a, buf'))
  BY <1>1, EvalArrayAdds
<1>4. Grows /\ \A r \in Streams \ {s} : New(r) = {}
  BY EvalArrayAdds
<1>5. k + 1 \in DOMAIN queue'[s] /\ k + 1 \in New(s) /\ Vals(queue'[s][k + 1]) = Outputs(m.cur)
  BY <1>1, <1>3, WritesOutputs DEF New
<1>6. Len(queue[s]) = k /\ Len(queue'[s]) = k + 2
  <2>1. /\ DOMAIN queue[s] = 1 .. Len(queue[s]) /\ Len(queue[s]) \in Nat
        /\ IsSeq(queue'[s])
    BY <1>2, <1>4, ConcatFacts DEF Types, Grows
  <2>2. DOMAIN queue'[s] = 1 .. Len(queue'[s]) /\ Len(queue'[s]) \in Nat
    BY <2>1, ConcatFacts
  <2> QED
    BY <1>3, <2>1, <2>2
<1>7. ASSUME NEW o \in Outputs(m.cur) PROVE ~Pend(o)
  <2>1. Dispatching(o)
    BY <1>2, <1>5, <1>7 DEF Dispatching
  <2> QED
    BY <1>2, <2>1, Dispatched1, PendPlaced
<1>8. ASSUME NEW o \in Outputs(m.cur), NEW r \in Streams, NEW i \in DOMAIN queue'[r],
             o \in Vals(queue'[r][i])
      PROVE  r = s /\ i = k + 1
  <2>1. i \in New(r)
    BY <1>4, <1>7, <1>8, GrowsFacts DEF Pend
  <2>2. r = s /\ i \in {k + 1, k + 2}
    BY <1>3, <1>4, <2>1 DEF New
  <2> QED
    BY <1>3, <1>8, <2>2 DEF IsHold, Vals
<1> QED
  BY <1>1, <1>2, <1>3, <1>4, <1>5, <1>6, <1>8

\* What cpu::eval dispatches goes after everything its stream has seen, and
\* whatever goes there next after it; an entry's outputs are computed together.
LEMMA DispatchSees ==
  ASSUME Faulty = {}, Base, Types', EvalArray, ~NoWork(m.cur),
         NEW s, s = StreamOf(m.cur), NEW o \in Outputs(m.cur)
  PROVE  /\ Sees(s, o)'
         /\ \A v : Sees(s, v) /\ ~Dispatching(v) => Prior(v, o)'
         /\ \A p \in Outputs(m.cur) : Prior(p, o)'
<1> USE BaseFacts
<1>2. Next /\ s \in Streams /\ Grows /\ \A r \in Streams \ {s} : New(r) = {}
  BY EntryTasks DEF Next, Main
<1>3. PICK k \in Nat :
        /\ DOMAIN queue[s] = 1 .. k /\ DOMAIN queue'[s] = 1 .. k + 2
        /\ Len(queue[s]) = k /\ Len(queue'[s]) = k + 2
        /\ \A p \in Outputs(m.cur) : \A r \in Streams : \A i \in DOMAIN queue'[r] :
             p \in Vals(queue'[r][i]) <=> r = s /\ i = k + 1
  BY EntryTasks
<1>5. k + 1 \in DOMAIN queue'[s]
  BY <1>3
<1>9. ASSUME NEW Q \in Cuts, Q[s] >= Len(queue'[s]) PROVE Has(Q, o)'
  <2>1. k + 1 <= Q[s]
    BY <1>2, <1>3, <1>9 DEF Cuts
  <2> QED
    BY <1>3, <2>1 DEF Has
<1>10. ASSUME NEW v, Sees(s, v), ~Dispatching(v), NEW Q \in Cuts, Consistent(Q)', Has(Q, o)'
       PROVE  Has(Q, v)'
  <2>1. k + 1 <= Q[s]
    BY <1>2, <1>3, <1>5, <1>10 DEF Has
  <2>2. Q[s] >= Len(queue[s])
    BY <1>2, <1>3, <2>1 DEF Cuts
  <2>3. Has(Q, v)
    BY <1>2, <1>10, <2>2, CutGrows DEF Sees
  <2> QED
    BY <1>2, <1>10, <2>3, CutGrows
<1>11. ASSUME NEW p \in Outputs(m.cur), NEW Q \in Cuts, Has(Q, o)' PROVE Has(Q, p)'
  <2>1. k + 1 <= Q[s]
    BY <1>2, <1>3, <1>5, <1>11 DEF Has
  <2> QED
    BY <1>3, <2>1 DEF Has
<1> QED
  BY <1>9, <1>10, <1>11 DEF Sees, Prior, Cuts

\* Entry a of the tape, or in hand, has still to look at its input z.
ToCome(a, z) ==
  \/ \E k \in DOMAIN m.tape : m.tape[k] = a /\ z \in ToSet(InputsOf(a))
  \/ pc = "inputs" /\ a = m.cur /\ \E k \in DOMAIN InputsOf(a) : k >= m.i /\ InputsOf(a)[k] = z

\* When stream s has waited for z, as far as it has to, it has seen v.
Reaches(v, z, s) ==
  /\ Placed(z) /\ After(v, z)
  /\ z \notin m.needsFence /\ event[z] = NoEvent => Sees(s, v)

\* What the rest of the evaluation will bring the Synchronizer's stream to see.
Leads(v) ==
  \/ pc = "inputs" /\ Sees(StreamOf(m.cur), v)
  \/ \E a \in Entries, z \in Arrays : ToCome(a, z) /\ Reaches(v, z, StreamOf(a))
  \/ m.tape = <<>> /\ pc # "inputs" /\ Sees(m.home, v)

\* Behind an array is its value.
AfterPlaced == \A z \in Arrays : Placed(z) => After(Val(z), z)

\* The stream of the entry in hand has seen the inputs looked at so far; an input
\* still to come can be waited for, or there is no need to.
Waited ==
  pc = "inputs" => \A k \in DOMAIN InputsOf(m.cur) :
                     k < m.i => Sees(StreamOf(m.cur), Val(InputsOf(m.cur)[k]))
Fed ==
  pc \in Running => \A a \in Entries, z \in Arrays :
                      ToCome(a, z) /\ Placed(z) => Reaches(Val(z), z, StreamOf(a))

\* An array without an event has its value, or eval will wait for it.
Quiet ==
  \A y \in Arrays : Placed(y) /\ event[y] = NoEvent =>
    \/ ~Pend(Val(y))
    \/ pc \in Running /\ ~m.async /\ Leads(Val(y))
    \/ pc = "sync" /\ Guards(<<"eventSignal", <<evals, m.home>>>>, Val(y))

\* A computation runs after those of its inputs.
ReadsPrior ==
  \A a \in Arrays : Placed(a) /\ IsValue(a) => \A x \in ToSet(graph.in[a]) : Prior(Val(x), a)

Behind == AfterPlaced /\ Waited /\ Fed /\ Quiet /\ ReadsPrior

\* What is placed stays, and no step dispatches its value again; only cpu::eval
\* places arrays.
LEMMA PlacedKept ==
  ASSUME Base, Next \/ UNCHANGED vars, NEW y \in Arrays
  PROVE  /\ Val(y)' = Val(y) /\ Val(y) \in Arrays /\ graph' = graph
         /\ Placed(y) => /\ Placed(y)' /\ ~Dispatching(Val(y))
                         /\ Placed(Val(y)) /\ buf[Val(y)] = buf[y] /\ buf'[y] = buf[y]
         /\ Placed(y)' /\ ~Placed(y) =>
              /\ EvalArray /\ y \in Outputs(m.cur) /\ m.cur \in Arrays
              /\ graph.stream[y] = StreamOf(m.cur)
<1> USE BaseFacts
<1>1. graph' = graph /\ (EvalArray \/ buf' = buf)
  BY BufferSteps
<1>2. Val(y)' = Val(y) /\ Val(y) \in Arrays
  BY <1>1, ValFacts DEF Val, Types
<1>3. ASSUME Placed(y) PROVE /\ Placed(y)' /\ ~Dispatching(Val(y)) /\ buf'[y] = buf[y]
                             /\ Placed(Val(y)) /\ buf[Val(y)] = buf[y]
  <2>1. Placed(Val(y)) /\ buf[Val(y)] = buf[y]
    BY <1>3, ValPlaced
  <2>2. Placed(y)' /\ buf'[y] = buf[y]
    BY <1>1, <1>3, Places DEF Placed
  <2>3. ~Dispatching(Val(y))
    BY <2>1, Dispatched1
  <2> QED
    BY <2>1, <2>2, <2>3
<1>4. ASSUME Placed(y)', ~Placed(y)
      PROVE  /\ EvalArray /\ y \in Outputs(m.cur) /\ m.cur \in Arrays
             /\ graph.stream[y] = StreamOf(m.cur)
  <2>1. EvalArray
    BY <1>1, <1>4 DEF Placed
  <2>2. y \in Outputs(m.cur)
    BY <1>4, <2>1, Places
  <2> QED
    BY <2>1, <2>2, TapeFacts, OutputsFacts DEF Types
<1> QED
  BY <1>1, <1>2, <1>3, <1>4

\* What eval_impl finds when it dispatches an array.
LEMMA EntryFacts ==
  ASSUME Base, EvalArray, m.cur \in Arrays
  PROVE  /\ pc = "inputs" /\ pc' = "throttle" /\ pc \in Running /\ pc' \in Running
         /\ UNCHANGED <<graph, status, event, m, evals>>
         /\ StreamOf(m.cur) \in Streams /\ StreamOf(m.cur)' = StreamOf(m.cur)
         /\ Outputs(m.cur)' = Outputs(m.cur) /\ InputsOf(m.cur) = graph.in[m.cur]
         /\ \A k \in DOMAIN graph.in[m.cur] : k < m.i
         /\ m.cur \in Outputs(m.cur) /\ m.cur # Sync
         /\ \A o \in Outputs(m.cur) :
              /\ o \in Arrays /\ Unscheduled(o) /\ ~Placed(o) /\ Placed(o)'
              /\ graph.stream[o] = StreamOf(m.cur)
              /\ graph.in[o] = graph.in[m.cur] /\ graph.kind[o] = graph.kind[m.cur]
              /\ event[o] = NoEvent \/ event[o][1] = evals
         /\ \A x \in ToSet(graph.in[m.cur]) : x \in Arrays /\ Placed(x)
<1> USE BaseFacts
<1>1. /\ pc = "inputs" /\ pc' = "throttle" /\ m.i > Len(InputsOf(m.cur))
      /\ UNCHANGED <<graph, status, event, m, evals>>
  BY DEF EvalArray, arrayVars
<1>2. m.cur # Sync /\ InputsOf(m.cur) = graph.in[m.cur] /\ StreamOf(m.cur) \in Streams
  BY GroupFacts, StreamOfTyped DEF Types, Entries
<1>3. StreamOf(m.cur)' = StreamOf(m.cur) /\ Outputs(m.cur)' = Outputs(m.cur)
  BY <1>1 DEF StreamOf, Outputs
<1>4. \A k \in DOMAIN graph.in[m.cur] : k < m.i
  <2>1. Len(graph.in[m.cur]) \in Nat /\ DOMAIN graph.in[m.cur] = 1 .. Len(graph.in[m.cur])
    BY InputFacts DEF Types
  <2>2. m.i \in Nat
    BY DEF Types, Locals
  <2> QED
    BY <1>1, <1>2, <2>1, <2>2
<1>5. Placeable(m.cur)
  BY <1>1, <1>2, EntryReady
<1>6. ASSUME NEW o \in Outputs(m.cur)
      PROVE  /\ o \in Arrays /\ Unscheduled(o) /\ ~Placed(o) /\ Placed(o)'
             /\ graph.stream[o] = StreamOf(m.cur)
             /\ graph.in[o] = graph.in[m.cur] /\ graph.kind[o] = graph.kind[m.cur]
             /\ event[o] = NoEvent \/ event[o][1] = evals
  <2>1. /\ o \in Arrays /\ graph.stream[o] = StreamOf(m.cur)
        /\ graph.in[o] = graph.in[m.cur] /\ graph.kind[o] = graph.kind[m.cur]
    BY GroupFacts DEF Types
  <2>2. Unscheduled(o) /\ ~Placed(o)
    BY <1>5 DEF Placeable, Siblings
  <2>3. event[o] = NoEvent \/ event[o][1] = evals
    BY <1>1, <2>1 DEF Fresh, InBody
  <2>4. Placed(o)'
    BY <2>1, Places
  <2> QED
    BY <2>1, <2>2, <2>3, <2>4
<1>7. \A x \in ToSet(graph.in[m.cur]) : x \in Arrays /\ Placed(x)
  BY <1>2, Places
<1>8. pc \in Running /\ pc' \in Running
  BY <1>1 DEF Running, InBody
<1>9. m.cur \in Outputs(m.cur)
  BY GroupFacts DEF Types
<1> QED
  BY <1>1, <1>2, <1>3, <1>4, <1>6, <1>7, <1>8, <1>9

\* What the stream of an entry has seen is behind the entry's outputs.
LEMMA EntryAfter ==
  ASSUME Base, EvalArray, m.cur \in Arrays, NEW s, s = StreamOf(m.cur),
         NEW v, Sees(s, v)', NEW o \in Outputs(m.cur)
  PROVE  After(v, o)'
<1>1. /\ UNCHANGED <<graph, status, event, m, evals>> /\ pc' \in Running
      /\ Unscheduled(o) /\ graph.stream[o] = StreamOf(m.cur)
      /\ event[o] = NoEvent \/ event[o][1] = evals
  BY EntryFacts
<1>2. Unscheduled(o)' /\ s = graph'.stream[o]
  BY <1>1 DEF Unscheduled
<1>3. event'[o] = NoEvent \/ event'[o][1] = evals'
  BY <1>1
<1> QED
  BY <1>1, <1>2, <1>3 DEF After

\* The stream of an entry sees the values of its outputs.
LEMMA EntrySees ==
  ASSUME Faulty = {}, Base, Types', Waited, EvalArray, m.cur \in Arrays,
         NEW s, s = StreamOf(m.cur)
  PROVE  /\ \A x \in ToSet(graph.in[m.cur]) : \A v : v = Val(x) => Sees(s, v) /\ Sees(s, v)'
         /\ \A o \in Outputs(m.cur) : \A v : v = Val(o) => Sees(s, v)'
<1> USE BaseFacts
<1>0. Next
  BY DEF Next, Main
<1>1. /\ pc = "inputs" /\ InputsOf(m.cur) = graph.in[m.cur] /\ s \in Streams
      /\ \A k \in DOMAIN graph.in[m.cur] : k < m.i
      /\ \A x \in ToSet(graph.in[m.cur]) : x \in Arrays /\ Placed(x)
  BY EntryFacts
<1>2. ASSUME NEW x \in ToSet(graph.in[m.cur]), NEW v, v = Val(x) PROVE Sees(s, v) /\ Sees(s, v)'
  <2>1. PICK k \in DOMAIN graph.in[m.cur] : graph.in[m.cur][k] = x
    BY DEF ToSet
  <2>2. Sees(s, v)
    BY <1>1, <1>2, <2>1 DEF Waited
  <2>3. ~Dispatching(v)
    BY <1>0, <1>1, <1>2, PlacedKept
  <2> QED
    BY <1>0, <1>1, <2>2, <2>3, OrderKept
<1>3. ASSUME NEW o \in Outputs(m.cur), NEW v, v = Val(o) PROVE Sees(s, v)'
  <2>1. o \in Arrays /\ graph.in[o] = graph.in[m.cur] /\ graph.kind[o] = graph.kind[m.cur]
        /\ m.cur # Sync
    BY EntryFacts
  <2>2. CASE NoWork(m.cur)
    <3>1. graph.kind[o] = "views"
      BY <2>1, <2>2 DEF NoWork
    <3>2. Val(o) = Val(graph.in[o][1]) /\ graph.in[o][1] \in ToSet(graph.in[m.cur])
      BY <2>1, <3>1, ValFacts, InputFacts DEF Types
    <3> QED
      BY <1>2, <1>3, <3>2
  <2>3. CASE ~NoWork(m.cur)
    <3>1. Val(o) = o
      BY <2>1, <2>3, ValFacts DEF NoWork, Types
    <3> QED
      BY <1>3, <2>3, <3>1, DispatchSees
  <2> QED
    BY <2>2, <2>3
<1> QED
  BY <1>2, <1>3

\* Every step keeps the values behind their arrays.
LEMMA AfterPlacedStep ==
  ASSUME Faulty = {}, Base, Types', AfterPlaced, Waited, Next \/ UNCHANGED vars
  PROVE  AfterPlaced'
<1> SUFFICES ASSUME NEW z \in Arrays, Placed(z)' PROVE After(Val(z), z)'
  BY DEF AfterPlaced
<1>0. PICK v : v = Val(z)
  OBVIOUS
<1>1. v = Val(z)' /\ v \in Arrays
  BY <1>0, PlacedKept
<1>2. CASE Placed(z)
  <2>1. ~Dispatching(v) /\ After(v, z)
    BY <1>0, <1>2, PlacedKept DEF AfterPlaced
  <2>2. After(v, z)'
    BY <2>1, AfterKept
  <2> QED
    BY <1>1, <2>2
<1>3. CASE ~Placed(z)
  <2>1. EvalArray /\ z \in Outputs(m.cur) /\ m.cur \in Arrays
    BY <1>3, PlacedKept
  <2>2. PICK s : s = StreamOf(m.cur)
    OBVIOUS
  <2>3. Sees(s, v)'
    BY <1>0, <2>1, <2>2, EntrySees
  <2>4. After(v, z)'
    BY <2>1, <2>2, <2>3, EntryAfter
  <2> QED
    BY <1>1, <2>4
<1> QED
  BY <1>2, <1>3

\* Every step keeps computations after those of their inputs.
LEMMA ReadsPriorStep ==
  ASSUME Faulty = {}, Base, Types', Waited, ReadsPrior, Next \/ UNCHANGED vars
  PROVE  ReadsPrior'
<1> USE BaseFacts
<1> SUFFICES ASSUME NEW a \in Arrays, Placed(a)', IsValue(a)', NEW x, x \in ToSet(graph.in[a])'
             PROVE  Prior(Val(x), a)'
  BY DEF ReadsPrior
<1>1. graph' = graph
  BY PlacedKept
<1>2. IsValue(a) /\ x \in ToSet(graph.in[a]) /\ x \in Arrays
  BY <1>1, InputFacts DEF IsValue, Types
<1>3. PICK v : v = Val(x)
  OBVIOUS
<1>4. v = Val(x)'
  BY <1>2, <1>3, PlacedKept
<1>5. CASE Placed(a)
  <2>1. Prior(v, a) /\ Placed(x)
    BY <1>2, <1>3, <1>5 DEF ReadsPrior, Placement
  <2>2. ~Dispatching(v)
    BY <1>2, <1>3, <2>1, PlacedKept
  <2>3. Prior(v, a)'
    BY <2>1, <2>2, OrderKept
  <2> QED
    BY <1>4, <2>3
<1>6. CASE ~Placed(a)
  <2>1. EvalArray /\ a \in Outputs(m.cur) /\ m.cur \in Arrays
    BY <1>6, PlacedKept
  <2>2. /\ graph.in[a] = graph.in[m.cur] /\ graph.kind[a] = graph.kind[m.cur] /\ m.cur # Sync
        /\ \A y \in ToSet(graph.in[m.cur]) : y \in Arrays /\ Placed(y)
    BY <2>1, EntryFacts
  <2>3. PICK s : s = StreamOf(m.cur)
    OBVIOUS
  <2>4. Sees(s, v) /\ ~Dispatching(v)
    BY <1>2, <1>3, <2>1, <2>2, <2>3, EntrySees, PlacedKept
  <2>5. ~NoWork(m.cur)
    BY <1>2, <2>2 DEF NoWork, IsValue
  <2>6. Prior(v, a)'
    BY <2>1, <2>3, <2>4, <2>5, DispatchSees
  <2> QED
    BY <1>4, <2>6
<1> QED
  BY <1>5, <1>6

\* Only events that are signaled are let go.
LEMMA EventCleared ==
  ASSUME Base, Next \/ UNCHANGED vars, NEW z \in Arrays, event[z] # NoEvent, event'[z] = NoEvent
  PROVE  event[z] \in signaled
<1> USE BaseFacts
<1>1. CASE NextEntry
  <2>1. event'[z] = event[z] \/ \E s : event'[z] = <<evals, s>>
    BY <1>1, EntryTaken
  <2> QED
    BY <2>1 DEF NoEvent
<1>2. CASE WaitForInput
  <2>1. event' = event \/ \E x : event[x] \in signaled /\ event' = [event EXCEPT ![x] = NoEvent]
    BY <1>2 DEF WaitForInput
  <2> QED
    BY <2>1 DEF Types
<1>3. CASE Awaited
  BY <1>3 DEF Awaited, Types
<1>4. CASE ~NextEntry /\ ~WaitForInput /\ ~Awaited /\ Next
  <2>1. event' = event
    BY <1>4, Working DEF Next, User, Main, EvalImpl, Await, Drop, EvalArray, EvalThrows,
       Throttle, WaitForOne, OneCompleted, CheckMemory, Publish, EndEval, EvalReturns,
       OnlyMain, Quiescent, vars, arrayVars
  <2> QED
    BY <2>1
<1>5. CASE UNCHANGED vars
  BY <1>5 DEF vars, arrayVars
<1> QED
  BY <1>1, <1>2, <1>3, <1>4, <1>5

\* Inside an evaluation entries only look at their inputs, one after another.
LEMMA ToComeSteps ==
  ASSUME Faulty = {}, Base, Next \/ UNCHANGED vars, pc \in Running, pc' \in Running,
         NEW a \in Entries, NEW z
  PROVE  /\ evals' = evals /\ m'.needsFence = m.needsFence
         /\ m'.async = m.async /\ m'.home = m.home
         /\ StreamOf(a) \in Streams /\ StreamOf(a)' = StreamOf(a)
         /\ ToCome(a, z)' => ToCome(a, z)
         /\ ToCome(a, z) => \/ ToCome(a, z)'
                            \/ WaitForInput /\ a = m.cur /\ z = InputsOf(m.cur)[m.i]
<1> USE BaseFacts
<1>0. graph' = graph /\ StreamOf(a) \in Streams
  BY BufferSteps, StreamOfTyped
<1>1. ASSUME m'.home = m.home PROVE StreamOf(a)' = StreamOf(a)
  BY <1>0, <1>1 DEF StreamOf
<1>2. ASSUME m'.outs = m.outs PROVE InputsOf(a)' = InputsOf(a)
  BY <1>0, <1>2 DEF InputsOf
<1>3. CASE NextEntry
  <2>1. /\ pc = "next" /\ pc' = "inputs" /\ 1 \in DOMAIN m.tape /\ m'.cur = m.tape[1]
        /\ \A k \in DOMAIN m'.tape : k + 1 \in DOMAIN m.tape /\ m'.tape[k] = m.tape[k + 1]
        /\ \A k \in DOMAIN m.tape : k # 1 => k - 1 \in DOMAIN m'.tape /\ m'.tape[k - 1] = m.tape[k]
        /\ m'.outs = m.outs /\ m'.needsFence = m.needsFence
        /\ m'.home = m.home /\ m'.async = m.async /\ evals' = evals
    BY <1>3, EntryTaken
  <2>2. m'.i = 1
    BY <1>3 DEF NextEntry, Types, Locals
  <2>3. InputsOf(a)' = InputsOf(a)
    BY <1>2, <2>1
  <2>4. InputsOf(a) \in Seq(Arrays)
    BY InputsTyped
  <2>5. \A k \in DOMAIN InputsOf(a) : k >= 1 /\ InputsOf(a)[k] \in ToSet(InputsOf(a))
    BY <2>4 DEF ToSet
  <2>6. ToSet(InputsOf(a)) = {InputsOf(a)[k] : k \in DOMAIN InputsOf(a)}
    BY DEF ToSet
  <2>7. ToCome(a, z)' => ToCome(a, z)
    BY <2>1, <2>3, <2>5 DEF ToCome
  <2>8. ToCome(a, z) => ToCome(a, z)'
    <3> SUFFICES ASSUME NEW k \in DOMAIN m.tape, m.tape[k] = a, z \in ToSet(InputsOf(a))
                 PROVE  ToCome(a, z)'
      BY <2>1 DEF ToCome
    <3>1. CASE k = 1
      <4>1. PICK j \in DOMAIN InputsOf(a) : InputsOf(a)[j] = z
        BY <2>6
      <4>2. j >= m'.i
        BY <2>2, <2>5
      <4> QED
        BY <2>1, <2>3, <3>1, <4>1, <4>2 DEF ToCome
    <3>2. CASE k # 1
      BY <2>1, <2>3, <3>2 DEF ToCome
    <3> QED
      BY <3>1, <3>2
  <2> QED
    BY <1>0, <1>1, <2>1, <2>7, <2>8
<1>4. CASE \/ WaitForInput \/ EvalArray \/ Throttle \/ WaitForOne
           \/ OneCompleted \/ CheckMemory
  <2>1. /\ m'.tape = m.tape /\ m'.cur = m.cur /\ m'.outs = m.outs /\ evals' = evals
        /\ m'.needsFence = m.needsFence /\ m'.home = m.home /\ m'.async = m.async
    BY <1>4, BodySteps
  <2>2. InputsOf(a)' = InputsOf(a)
    BY <1>2, <2>1
  <2>3. InputsOf(a) \in Seq(Arrays) /\ m.i \in Nat
    BY InputsTyped DEF Types, Locals
  <2>4. /\ Len(InputsOf(a)) \in Nat /\ DOMAIN InputsOf(a) = 1 .. Len(InputsOf(a))
        /\ \A k \in DOMAIN InputsOf(a) : k \in Nat
    BY <2>3
  <2>5. CASE WaitForInput
    <3>1. pc = "inputs" /\ pc' = "inputs" /\ m'.i = m.i + 1
      BY <2>5 DEF WaitForInput, Types, Locals
    <3>2. ToCome(a, z)' => ToCome(a, z)
      BY <2>1, <2>2, <2>3, <2>4, <3>1 DEF ToCome
    <3>3. ToCome(a, z) /\ ~(a = m.cur /\ z = InputsOf(m.cur)[m.i]) => ToCome(a, z)'
      <4> SUFFICES ASSUME a = m.cur, z # InputsOf(m.cur)[m.i],
                          NEW k \in DOMAIN InputsOf(a), k >= m.i, InputsOf(a)[k] = z
                   PROVE  ToCome(a, z)'
        BY <2>1, <2>2, <3>1 DEF ToCome
      <4>1. k >= m'.i
        BY <2>3, <2>4, <3>1
      <4> QED
        BY <2>1, <2>2, <3>1, <4>1 DEF ToCome
    <3> QED
      BY <1>0, <1>1, <2>1, <2>5, <3>2, <3>3
  <2>6. CASE EvalArray
    <3>1. pc = "inputs" /\ pc' = "throttle" /\ m.i > Len(InputsOf(m.cur))
      BY <2>6 DEF EvalArray
    <3>2. \A k \in DOMAIN InputsOf(a) : a = m.cur => ~(k >= m.i)
      BY <2>3, <2>4, <3>1
    <3> QED
      BY <1>0, <1>1, <2>1, <2>2, <3>1, <3>2 DEF ToCome
  <2>7. CASE Throttle \/ WaitForOne \/ OneCompleted \/ CheckMemory
    <3>1. pc # "inputs" /\ pc' # "inputs"
      BY <2>7 DEF Throttle, WaitForOne, OneCompleted, CheckMemory
    <3> QED
      BY <1>0, <1>1, <2>1, <2>2, <3>1 DEF ToCome
  <2> QED
    BY <1>4, <2>5, <2>6, <2>7
<1>5. CASE Publish
  <2>1. /\ pc \in InBody /\ pc' = "next" /\ pc = "publish" /\ m'.tape = m.tape
        /\ m'.needsFence = m.needsFence /\ m'.home = m.home /\ m'.async = m.async
        /\ evals' = evals
    BY <1>5, EntryPublished DEF Publish
  <2>2. m.tape # <<>> => m.cur # Sync
    BY <2>1 DEF Schedule, CurrentGood
  <2>3. m.cur # Sync => m'.outs = m.outs
    BY <1>5 DEF Publish, Types, Locals
  <2>4. \A k \in DOMAIN m.tape : InputsOf(a)' = InputsOf(a)
    <3> SUFFICES ASSUME NEW k \in DOMAIN m.tape PROVE InputsOf(a)' = InputsOf(a)
      OBVIOUS
    <3>1. m.tape # <<>>
      BY TapeFacts
    <3> QED
      BY <1>2, <2>2, <2>3, <3>1
  <2> QED
    BY <1>0, <1>1, <2>1, <2>4 DEF ToCome
<1>6. CASE Quiescent \/ UNCHANGED vars \/ \E s \in Streams : RunStream(s)
  <2>1. UNCHANGED <<pc, m, evals>>
    BY <1>6, Working DEF Quiescent, vars
  <2> QED
    BY <1>0, <1>1, <1>2, <2>1 DEF ToCome
<1>7. CASE User \/ EvalThrows \/ EndEval \/ EvalReturns \/ Awaited
  BY <1>7 DEF User, EvalImpl, Await, Drop, EvalThrows, EndEval, EvalReturns, Awaited, Running, InBody
<1> QED
  BY <1>3, <1>4, <1>5, <1>6, <1>7 DEF Next, Main

\* What an entry can wait for stays so: an event that is let go has been signaled.
LEMMA ReachesKept ==
  ASSUME Faulty = {}, Base, Types', Next \/ UNCHANGED vars, pc \in Running, pc' \in Running,
         NEW v, ~Dispatching(v), NEW z \in Arrays, NEW s \in Streams, Reaches(v, z, s)
  PROVE  Reaches(v, z, s)'
<1> USE BaseFacts
<1>1. Placed(z)' /\ After(v, z)'
  BY PlacedKept, AfterKept DEF Reaches
<1>2. m'.needsFence = m.needsFence
  BY ToComeSteps DEF Entries
<1>3. ASSUME z \notin m'.needsFence, event'[z] = NoEvent PROVE Sees(s, v)'
  <2>1. Sees(s, v)
    <3>1. CASE event[z] = NoEvent
      BY <1>2, <1>3, <3>1 DEF Reaches
    <3>2. CASE event[z] # NoEvent
      BY <1>3, <3>2, EventCleared, SignalMeansDone, OrderFacts DEF Reaches
    <3> QED
      BY <3>1, <3>2
  <2> QED
    BY <2>1, OrderKept
<1> QED
  BY <1>1, <1>3 DEF Reaches

\* Every step keeps what the entry in hand has seen: the next input it looks at
\* can be waited for.
LEMMA WaitedStep ==
  ASSUME Faulty = {}, Base, Types', Waited, Fed, Next \/ UNCHANGED vars
  PROVE  Waited'
<1> USE BaseFacts
<1> SUFFICES ASSUME pc' = "inputs", NEW k, k \in DOMAIN (InputsOf(m.cur)'), k < m'.i
             PROVE  Sees(StreamOf(m.cur), Val(InputsOf(m.cur)[k]))'
  BY DEF Waited
<1>1. CASE NextEntry
  <2>1. PICK a : a = m.tape[1]
    OBVIOUS
  <2>2. a \in Entries /\ m'.cur = a /\ m'.outs = m.outs /\ graph' = graph
    BY <1>1, <2>1, EntryTaken
  <2>3. m'.i = 1
    BY <1>1 DEF NextEntry, Types, Locals
  <2>4. InputsOf(m.cur)' = InputsOf(a)
    BY <2>2 DEF InputsOf
  <2>5. InputsOf(a) \in Seq(Arrays)
    BY <2>2, InputsTyped
  <2> QED
    BY <2>3, <2>4, <2>5
<1>2. CASE pc = "inputs" /\ m'.cur = m.cur /\ m'.outs = m.outs /\ m'.home = m.home
           /\ graph' = graph /\ (m'.i = m.i \/ (WaitForInput /\ m'.i = m.i + 1))
  <2>1. InputsOf(m.cur)' = InputsOf(m.cur) /\ StreamOf(m.cur)' = StreamOf(m.cur)
    BY <1>2 DEF InputsOf, StreamOf
  <2>2. m.cur \in Entries /\ InputsOf(m.cur) \in Seq(Arrays) /\ m.i \in Nat
    BY InputsTyped DEF Types, Locals
  <2>3. PICK s : s = StreamOf(m.cur)
    OBVIOUS
  <2>4. PICK x : x = InputsOf(m.cur)[k]
    OBVIOUS
  <2>5. k \in DOMAIN InputsOf(m.cur) /\ k \in Nat /\ x \in Arrays /\ x \in ToSet(InputsOf(m.cur))
    BY <2>1, <2>2, <2>4 DEF ToSet
  <2>6. Placed(x)
    BY <1>2, <2>5 DEF Schedule, CurrentGood, InBody, Placement
  <2>7. PICK v : v = Val(x)
    OBVIOUS
  <2>8. v = Val(x)' /\ ~Dispatching(v) /\ s \in Streams
    BY <2>2, <2>3, <2>5, <2>6, <2>7, PlacedKept, StreamOfTyped
  <2>9. Sees(s, v)'
    <3>1. CASE k < m.i
      <4>1. Sees(s, v)
        BY <1>2, <2>3, <2>4, <2>5, <2>7, <3>1 DEF Waited
      <4> QED
        BY <2>8, <4>1, OrderKept
    <3>2. CASE WaitForInput /\ k = m.i
      <4>1. ToCome(m.cur, x)
        BY <1>2, <2>2, <2>4, <2>5, <3>2 DEF ToCome
      <4>2. Reaches(v, x, s)
        BY <1>2, <2>2, <2>3, <2>5, <2>6, <2>7, <4>1 DEF Fed, Running, InBody
      <4> QED
        BY <2>3, <2>4, <2>8, <3>2, <4>2, InputSeen DEF Reaches
    <3> QED
      BY <1>2, <2>2, <2>5, <3>1, <3>2
  <2>10. s = StreamOf(m.cur)' /\ v = Val(InputsOf(m.cur)[k])'
    BY <2>1, <2>3, <2>4, <2>8
  <2> QED
    BY <2>9, <2>10
<1>3. CASE WaitForInput
  <2>1. m'.cur = m.cur /\ m'.outs = m.outs /\ m'.home = m.home /\ graph' = graph
    BY <1>3, BodySteps
  <2>2. pc = "inputs" /\ m'.i = m.i + 1
    BY <1>3 DEF WaitForInput, Types, Locals
  <2> QED
    BY <1>2, <1>3, <2>1, <2>2
<1>4. CASE Quiescent \/ UNCHANGED vars \/ \E s \in Streams : RunStream(s)
  <2>1. UNCHANGED <<graph, pc, m>>
    BY <1>4, Working DEF Quiescent, vars
  <2> QED
    BY <1>2, <2>1
<1>5. CASE \/ User \/ EvalArray \/ EvalThrows \/ Throttle \/ WaitForOne \/ OneCompleted
           \/ CheckMemory \/ Publish \/ EndEval \/ EvalReturns \/ Awaited
  BY <1>5 DEF User, EvalImpl, Await, Drop, EvalArray, EvalThrows, Throttle, WaitForOne,
     OneCompleted, CheckMemory, Publish, EndEval, EvalReturns, Awaited
<1> QED
  BY <1>1, <1>3, <1>4, <1>5 DEF Next, Main

\* Every step keeps the inputs still to come ready to be waited for: in a new
\* evaluation what has no event needs no wait, and an entry's outputs are on its
\* stream or have a fence.
LEMMA FedStep ==
  ASSUME Faulty = {}, Base, Types', AfterPlaced, Waited, Fed, Quiet, Next \/ UNCHANGED vars
  PROVE  Fed'
<1> USE BaseFacts
<1> SUFFICES ASSUME pc' \in Running, NEW a \in Entries, NEW z \in Arrays,
                    ToCome(a, z)', Placed(z)'
             PROVE  Reaches(Val(z), z, StreamOf(a))'
  BY DEF Fed
<1>1. PICK v : v = Val(z)
  OBVIOUS
<1>2. PICK s : s = StreamOf(a)'
  OBVIOUS
<1>3. v = Val(z)' /\ graph' = graph
  BY <1>1, PlacedKept
<1>4. s \in Streams
  BY <1>2, <1>3, GroupFacts DEF StreamOf, Types, Locals, Entries, IsGraph
<1>5. SUFFICES Reaches(v, z, s)'
  BY <1>2, <1>3
<1>6. CASE Placed(z)
  <2>0. ~Dispatching(v)
    BY <1>1, <1>6, PlacedKept
  <2>1. CASE pc \in Running
    <3>1. ToCome(a, z) /\ s = StreamOf(a)
      BY <1>2, <2>1, ToComeSteps
    <3>2. Reaches(v, z, s)
      BY <1>1, <1>6, <2>1, <3>1 DEF Fed
    <3> QED
      BY <1>4, <2>0, <2>1, <3>2, ReachesKept
  <2>2. CASE pc \notin Running
    <3>1. pc = "idle" /\ event' = event
      <4>1. CASE User
        BY <2>2, <4>1 DEF User, EvalImpl, Await, Drop, arrayVars, Running, InBody
      <4>2. CASE Main
        BY <2>2, <4>2 DEF Main, NextEntry, WaitForInput, EvalArray, EvalThrows, Throttle,
           WaitForOne, OneCompleted, CheckMemory, Publish, EndEval, EvalReturns, Awaited,
           Running, InBody
      <4>3. CASE Quiescent \/ UNCHANGED vars \/ \E r \in Streams : RunStream(r)
        <5>1. UNCHANGED pc
          BY <4>3, Working DEF Quiescent, vars
        <5> QED
          BY <2>2, <5>1
      <4> QED
        BY <4>1, <4>2, <4>3 DEF Next
    <3>2. Placed(z)' /\ After(v, z)'
      BY <1>1, <1>6, <2>0, AfterKept DEF AfterPlaced
    <3>3. ASSUME event'[z] = NoEvent PROVE Sees(s, v)'
      <4>1. ~Pend(v)
        BY <1>1, <1>6, <3>1, <3>3 DEF Quiet, Running, InBody
      <4>2. Sees(s, v)
        BY <4>1, OrderFacts
      <4> QED
        BY <1>4, <2>0, <4>2, OrderKept
    <3> QED
      BY <3>2, <3>3 DEF Reaches
  <2> QED
    BY <2>1, <2>2
<1>7. CASE ~Placed(z)
  <2>1. EvalArray /\ z \in Outputs(m.cur) /\ m.cur \in Arrays /\ graph.stream[z] = StreamOf(m.cur)
    BY <1>7, PlacedKept
  <2>2. pc \in Running /\ m' = m /\ Unscheduled(z) /\ Placed(z)' /\ event' = event
    BY <2>1, EntryFacts
  <2>3. ToCome(a, z) /\ s = StreamOf(a)
    BY <1>2, <2>2, ToComeSteps
  <2>4. PICK t : t = StreamOf(m.cur)
    OBVIOUS
  <2>5. Sees(t, v)'
    BY <1>1, <2>1, <2>4, EntrySees
  <2>6. After(v, z)'
    BY <2>1, <2>4, <2>5, EntryAfter
  <2>7. FencedIn(a) /\ z \in ToSet(InputsOf(a))
    BY <2>2, <2>3 DEF ToCome, CrossFenced, InBody, ToSet
  <2>8. z \notin m'.needsFence => s = t
    BY <2>1, <2>2, <2>3, <2>4, <2>7 DEF FencedIn, Mine
  <2> QED
    BY <2>2, <2>5, <2>6, <2>8 DEF Reaches
<1> QED
  BY <1>6, <1>7

\* What the stream of an entry has seen, its consumer further on the tape will
\* bring on towards the Synchronizer.
LEMMA EntryLeads ==
  ASSUME Faulty = {}, Base, Types', EvalArray, m.cur \in Arrays, NEW s, s = StreamOf(m.cur),
         NEW v, Sees(s, v)'
  PROVE  Leads(v)'
<1> USE BaseFacts
<1>1. PICK z : z = m.cur
  OBVIOUS
<1>2. /\ pc = "inputs" /\ pc' = "throttle" /\ pc \in Running /\ pc' \in Running
      /\ UNCHANGED <<graph, event, m>>
      /\ z \in Outputs(m.cur) /\ z # Sync /\ Unscheduled(z) /\ Placed(z)'
      /\ graph.stream[z] = s
  BY <1>1, EntryFacts
<1>3. PICK k \in DOMAIN m.tape : z \in ToSet(InputsOf(m.tape[k]))
  BY <1>1, <1>2 DEF Schedule, CurrentGood, InBody
<1>4. PICK a \in Entries : a = m.tape[k]
  BY TapeFacts
<1>5. InputsOf(a)' = InputsOf(a) /\ StreamOf(a)' = StreamOf(a)
  BY <1>2 DEF InputsOf, StreamOf
<1>6. ToCome(a, z)'
  BY <1>2, <1>3, <1>4, <1>5 DEF ToCome
<1>7. After(v, z)'
  BY <1>2, EntryAfter
<1>8. PICK t : t = StreamOf(a)
  OBVIOUS
<1>9. z \notin m.needsFence => t = s
  BY <1>2, <1>3, <1>4, <1>8 DEF CrossFenced, FencedIn, Mine
<1>10. Reaches(v, z, t)'
  BY <1>2, <1>7, <1>9 DEF Reaches
<1>11. t = StreamOf(a)'
  BY <1>5, <1>8
<1> QED
  BY <1>1, <1>6, <1>10, <1>11 DEF Leads

\* What the Synchronizer's stream will be brought to see it will be after any
\* step of the evaluation.
LEMMA LeadsKept ==
  ASSUME Faulty = {}, Base, Types', Next \/ UNCHANGED vars, pc \in Running, pc' \in Running,
         NEW v, ~Dispatching(v), Leads(v)
  PROVE  Leads(v)'
<1> USE BaseFacts
<1>0. /\ m.cur \in Entries /\ m.home \in Streams /\ m'.home = m.home /\ graph' = graph
  <2>1. m.cur \in Entries /\ m.home \in Streams
    BY DEF Types, Locals
  <2> QED
    BY <2>1, ToComeSteps, BufferSteps
<1>1. CASE pc = "inputs" /\ Sees(StreamOf(m.cur), v)
  <2>1. PICK s \in Streams : s = StreamOf(m.cur)
    BY <1>0, StreamOfTyped
  <2>2. Sees(s, v)'
    BY <1>1, <2>1, OrderKept
  <2>3. CASE WaitForInput \/ Quiescent \/ UNCHANGED vars \/ \E r \in Streams : RunStream(r)
    <3>1. pc' = "inputs" /\ m'.cur = m.cur
      <4>1. CASE WaitForInput
        BY <4>1, BodySteps DEF WaitForInput
      <4>2. CASE Quiescent \/ UNCHANGED vars \/ \E r \in Streams : RunStream(r)
        BY <1>1, <4>2, Working DEF Quiescent, vars
      <4> QED
        BY <2>3, <4>1, <4>2
    <3>2. s = StreamOf(m.cur)'
      BY <1>0, <2>1, <3>1 DEF StreamOf
    <3> QED
      BY <2>2, <3>1, <3>2 DEF Leads
  <2>4. CASE EvalArray
    <3>1. CASE m.cur \in Arrays
      BY <2>1, <2>2, <2>4, <3>1, EntryLeads
    <3>2. CASE m.cur = Sync
      <4>1. pc' = "throttle" /\ m' = m
        BY <2>4 DEF EvalArray
      <4>2. m.tape = <<>>
        BY <1>1, <3>2 DEF Schedule, CurrentGood, InBody
      <4>3. s = m'.home
        BY <2>1, <3>2, <4>1 DEF StreamOf
      <4> QED
        BY <2>2, <4>1, <4>2, <4>3 DEF Leads
    <3> QED
      BY <1>0, <3>1, <3>2 DEF Entries
  <2>5. CASE \/ User \/ NextEntry \/ EvalThrows \/ Throttle \/ WaitForOne \/ OneCompleted
             \/ CheckMemory \/ Publish \/ EndEval \/ EvalReturns \/ Awaited
    BY <1>1, <2>5 DEF User, EvalImpl, Await, Drop, NextEntry, EvalThrows, Throttle, WaitForOne,
       OneCompleted, CheckMemory, Publish, EndEval, EvalReturns, Awaited
  <2> QED
    BY <2>3, <2>4, <2>5 DEF Next, Main
<1>2. ASSUME NEW a \in Entries, NEW z \in Arrays, ToCome(a, z), Reaches(v, z, StreamOf(a))
      PROVE  Leads(v)'
  <2>1. PICK s \in Streams : s = StreamOf(a)
    BY StreamOfTyped
  <2>2. s = StreamOf(a)'
    BY <2>1, ToComeSteps
  <2>3. CASE ToCome(a, z)'
    <3>1. Reaches(v, z, s)'
      BY <1>2, <2>1, ReachesKept
    <3> QED
      BY <2>2, <2>3, <3>1 DEF Leads
  <2>4. CASE WaitForInput /\ a = m.cur /\ z = InputsOf(m.cur)[m.i]
    <3>1. Sees(s, v)'
      BY <1>2, <2>1, <2>4, InputSeen DEF Reaches
    <3>2. pc' = "inputs" /\ m'.cur = m.cur
      BY <2>4, BodySteps DEF WaitForInput
    <3>3. s = StreamOf(m.cur)'
      BY <2>2, <2>4, <3>2
    <3> QED
      BY <3>1, <3>2, <3>3 DEF Leads
  <2> QED
    BY <1>2, <2>3, <2>4, ToComeSteps
<1>3. CASE m.tape = <<>> /\ pc # "inputs" /\ Sees(m.home, v)
  <2>1. PICK s \in Streams : s = m.home
    BY <1>0
  <2>2. Sees(s, v)'
    BY <1>3, <2>1, OrderKept
  <2>3. m'.tape = m.tape /\ pc' # "inputs"
    <3>1. CASE \/ EvalArray \/ Throttle \/ WaitForOne \/ OneCompleted \/ CheckMemory
      BY <3>1, BodySteps DEF EvalArray, Throttle, WaitForOne, OneCompleted, CheckMemory
    <3>2. CASE Publish
      BY <3>2, EntryPublished
    <3>3. CASE Quiescent \/ UNCHANGED vars \/ \E r \in Streams : RunStream(r)
      BY <1>3, <3>3, Working DEF Quiescent, vars
    <3>4. CASE \/ User \/ NextEntry \/ WaitForInput \/ EvalThrows \/ EndEval
               \/ EvalReturns \/ Awaited
      BY <1>3, <3>4 DEF User, EvalImpl, Await, Drop, NextEntry, WaitForInput, EvalThrows,
         EndEval, EvalReturns, Awaited, Running, InBody
    <3> QED
      BY <3>1, <3>2, <3>3, <3>4 DEF Next, Main
  <2> QED
    BY <1>0, <1>3, <2>1, <2>2, <2>3 DEF Leads
<1> QED
  BY <1>1, <1>2, <1>3 DEF Leads

\* What an eval that ends waits for: the signal on the Synchronizer's stream is
\* behind what that stream has seen.
LEMMA EndGuards ==
  ASSUME Faulty = {}, Base, Types', EndEval, ~m.async, NEW v, ~Dispatching(v), Leads(v)
  PROVE  pc' = "sync" /\ Guards(<<"eventSignal", <<evals, m.home>>>>, v)'
<1> USE BaseFacts
<1>0. Next
  BY DEF Next, Main
<1>1. /\ pc = "next" /\ m.tape = <<>> /\ pc' = "sync" /\ m'.home = m.home /\ evals' = evals
      /\ pc \in Running
  BY NoEvalTyped DEF EndEval, Running, InBody, Locals
<1>2. DOMAIN m.tape = {}
  BY <1>1, TapeFacts
<1>3. PICK h \in Streams : h = m.home
  BY DEF Types, Locals
<1>4. Sees(h, v)
  BY <1>1, <1>2, <1>3 DEF Leads, ToCome
<1>5. Sees(h, v)'
  BY <1>0, <1>4, OrderKept
<1>6. h \in m.open
  BY <1>1, <1>2, <1>3 DEF Callers
<1>7. /\ Len(queue[h]) \in Nat /\ DOMAIN queue'[h] = 1 .. Len(queue[h]) + 1
      /\ queue'[h][Len(queue[h]) + 1] = EventSignal(<<evals, h>>) /\ IsSeq(queue'[h])
  BY <1>3, <1>6, Signals
<1>8. PICK j : j = Len(queue[h]) + 1
  OBVIOUS
<1>9. j \in DOMAIN queue'[h] /\ j = Len(queue'[h])
  BY <1>7, <1>8 DEF IsSeq
<1>10. PICK k : k = <<"eventSignal", <<evals, h>>>>
  OBVIOUS
<1>11. k \in Marks(queue'[h][j])
  BY <1>7, <1>8, <1>10, TaskFields, MarkFacts
<1>12. Guards(k, v)'
  BY <1>5, <1>9, <1>11, LastGuards
<1>13. k = <<"eventSignal", <<evals, m.home>>>>'
  BY <1>1, <1>3, <1>10
<1> QED
  BY <1>1, <1>12, <1>13

\* When eval returns, what its signal was behind has been computed.
LEMMA ReturnMeansDone ==
  ASSUME Base, EvalReturns, NEW v, Guards(<<"eventSignal", <<evals, m.home>>>>, v)
  PROVE  ~Pend(v)
<1> USE BaseFacts
<1>1. PICK k : k = <<"eventSignal", <<evals, m.home>>>>
  OBVIOUS
<1>2. \A s \in Streams : \A i \in DOMAIN queue[s] : k \notin Marks(queue[s][i])
  <2> SUFFICES ASSUME NEW s \in Streams, NEW i \in DOMAIN queue[s], k \in Marks(queue[s][i])
               PROVE  FALSE
    OBVIOUS
  <2>1. queue[s][i].op = "eventSignal" /\ queue[s][i].obj = <<evals, m.home>>
    BY <1>1, MarkFacts
  <2>2. <<evals, m.home>> \in signaled
    BY DEF EvalReturns
  <2> QED
    BY <2>1, <2>2 DEF SignalsOnce
<1>3. \A s \in Streams : IsSeq(queue[s])
  BY DEF Types
<1> QED
  BY <1>1, <1>2, <1>3, OrderFacts

\* Every step keeps the arrays without an event computed, or waited for by eval.
LEMMA QuietStep ==
  ASSUME Faulty = {}, Base, Types', AfterPlaced, Waited, Quiet, Next \/ UNCHANGED vars
  PROVE  Quiet'
<1> USE BaseFacts
<1> SUFFICES ASSUME NEW y \in Arrays, Placed(y)', event'[y] = NoEvent
             PROVE  \/ ~Pend(Val(y))'
                    \/ pc' \in Running /\ ~m'.async /\ Leads(Val(y))'
                    \/ pc' = "sync" /\ Guards(<<"eventSignal", <<evals, m.home>>>>, Val(y))'
  BY DEF Quiet
<1>1. PICK v : v = Val(y)
  OBVIOUS
<1>2. v = Val(y)'
  BY <1>1, PlacedKept
<1>3. SUFFICES \/ ~Pend(v)'
               \/ pc' \in Running /\ ~m'.async /\ Leads(v)'
               \/ pc' = "sync" /\ Guards(<<"eventSignal", <<evals, m.home>>>>, v)'
  BY <1>2
<1>4. CASE ~Placed(y)
  <2>1. EvalArray /\ y \in Outputs(m.cur) /\ m.cur \in Arrays
    BY <1>4, PlacedKept
  <2>2. pc = "inputs" /\ pc' \in Running /\ m' = m /\ event' = event
    BY <2>1, EntryFacts
  <2>3. ~m'.async
    BY <1>4, <2>1, <2>2 DEF Fresh, InBody, NoEvent
  <2>4. PICK s : s = StreamOf(m.cur)
    OBVIOUS
  <2>5. Sees(s, v)'
    BY <1>1, <2>1, <2>4, EntrySees
  <2> QED
    BY <2>1, <2>2, <2>3, <2>4, <2>5, EntryLeads
<1>5. CASE Placed(y)
  <2>1. ~Dispatching(v)
    BY <1>1, <1>5, PlacedKept
  <2>2. ASSUME ~Pend(v) PROVE ~Pend(v)'
    BY <2>1, <2>2, OrderKept
  <2>3. CASE event[y] # NoEvent
    <3>1. After(v, y) /\ event[y] \in signaled
      BY <1>1, <1>5, <2>3, EventCleared DEF AfterPlaced
    <3> QED
      BY <2>2, <2>3, <3>1, SignalMeansDone
  <2>4. CASE event[y] = NoEvent /\ pc \in Running /\ ~m.async /\ Leads(v)
    <3>1. CASE pc' \in Running
      BY <2>1, <2>4, <3>1, LeadsKept, ToComeSteps DEF Entries
    <3>2. CASE EndEval
      BY <2>1, <2>4, <3>2, EndGuards
    <3>3. CASE pc' \notin Running /\ ~EndEval
      <4>1. CASE User
        BY <2>4, <4>1 DEF User, EvalImpl, Await, Drop, Running, InBody
      <4>2. CASE Main
        BY <2>4, <3>3, <4>2 DEF Main, NextEntry, WaitForInput, EvalArray, EvalThrows, Throttle,
           WaitForOne, OneCompleted, CheckMemory, Publish, EvalReturns, Awaited,
           Running, InBody
      <4>3. CASE Quiescent \/ UNCHANGED vars \/ \E r \in Streams : RunStream(r)
        BY <2>4, <3>3, <4>3, Working DEF Quiescent, vars
      <4> QED
        BY <4>1, <4>2, <4>3 DEF Next
    <3> QED
      BY <3>1, <3>2, <3>3
  <2>5. CASE pc = "sync" /\ Guards(<<"eventSignal", <<evals, m.home>>>>, v)
    <3>1. CASE EvalReturns
      BY <2>2, <2>5, <3>1, ReturnMeansDone
    <3>2. CASE ~EvalReturns
      <4>1. UNCHANGED <<pc, m, evals>>
        <5>1. CASE User \/ Main
          BY <2>5, <3>2, <5>1 DEF User, EvalImpl, Await, Drop, Main, NextEntry, WaitForInput,
             EvalArray, EvalThrows, Throttle, WaitForOne, OneCompleted, CheckMemory,
             Publish, EndEval, Awaited
        <5>2. CASE Quiescent \/ UNCHANGED vars \/ \E r \in Streams : RunStream(r)
          BY <5>2, Working DEF Quiescent, vars
        <5> QED
          BY <5>1, <5>2 DEF Next
      <4>2. PICK k : k = <<"eventSignal", <<evals, m.home>>>>
        OBVIOUS
      <4>3. Guards(k, v)'
        BY <2>1, <2>5, <4>2, OrderKept
      <4>4. k = <<"eventSignal", <<evals, m.home>>>>'
        BY <4>1, <4>2
      <4> QED
        BY <2>5, <4>1, <4>3, <4>4
    <3> QED
      BY <3>1, <3>2
  <2> QED
    BY <1>1, <1>5, <2>2, <2>3, <2>4, <2>5 DEF Quiet
<1> QED
  BY <1>4, <1>5

\* Before any call nothing is pending.
LEMMA BehindInit == Init => Behind
<1> SUFFICES ASSUME Init PROVE Behind
  OBVIOUS
<1>1. \A v : ~Pend(v)
  BY DEF Init, Pend
<1>2. \A v : (\A s : Sees(s, v)) /\ (\A k : Guards(k, v)) /\ (\A w : Prior(v, w))
  BY <1>1, OrderFacts
<1>3. pc = "idle"
  BY DEF Init
<1> QED
  BY <1>1, <1>2, <1>3 DEF Behind, AfterPlaced, After, Waited, Fed, Quiet, ReadsPrior, Running, InBody

\* Every step keeps who waits for an array behind its value.
LEMMA BehindStep ==
  ASSUME Faulty = {}, Base, Types', Behind, Next \/ UNCHANGED vars
  PROVE  Behind'
BY AfterPlacedStep, WaitedStep, FedStep, QuietStep, ReadsPriorStep DEF Behind

-----------------------------------------------------------------------------
(* Computations *)

\* A worker that runs a computation takes its values off the pending ones: no
\* other task has them.
LEMMA ComputeRuns ==
  ASSUME Base, NEW s \in Streams, RunCompute(s)
  PROVE  /\ 1 \in DOMAIN queue[s] /\ Head(queue[s]) = queue[s][1] /\ queue[s][1].op = "compute"
         /\ UNCHANGED <<graph, buf, pc, m, status, evals, held, event>>
         /\ computed' = computed \cup Vals(queue[s][1])
         /\ \A v : Pend(v)' <=> Pend(v) /\ v \notin Vals(queue[s][1])
<1> USE BaseFacts
<1>1. queue[s] # <<>> /\ PopTask(s) /\ Head(queue[s]).op = "compute" /\ RunStream(s)
  BY DEF RunCompute, Runnable, RunStream
<1>2. /\ \A r \in Streams : r # s => queue'[r] = queue[r]
      /\ Len(queue[s]) \in Nat \ {0} /\ DOMAIN queue[s] = 1 .. Len(queue[s])
      /\ DOMAIN queue'[s] = 1 .. Len(queue[s]) - 1 /\ Head(queue[s]) = queue[s][1]
  BY <1>1, Pops
<1>3. queue' # queue
  <2>1. Len(queue[s]) \in DOMAIN queue[s] /\ Len(queue[s]) \notin DOMAIN queue'[s]
    BY <1>2
  <2> QED
    BY <2>1
<1>4. /\ 1 \in DOMAIN queue[s]
      /\ \A i \in DOMAIN queue'[s] : /\ i \in Nat \ {0} /\ i + 1 \in DOMAIN queue[s]
                                     /\ queue'[s][i] = queue[s][i + 1]
      /\ \A i \in DOMAIN queue[s] : i # 1 =>
           i \in Nat /\ i - 1 \in DOMAIN queue'[s] /\ queue'[s][i - 1] = queue[s][i]
  BY <1>1, <1>3, Moves
<1>5. ASSUME NEW v, Pend(v)' PROVE Pend(v) /\ v \notin Vals(queue[s][1])
  <2>1. PICK r \in Streams : \E j \in DOMAIN queue'[r] : v \in Vals(queue'[r][j])
    BY <1>5 DEF Pend
  <2>2. PICK j \in DOMAIN queue'[r] : v \in Vals(queue'[r][j])
    BY <2>1
  <2>3. CASE r = s
    <3>1. j \in Nat \ {0} /\ j + 1 \in DOMAIN queue[s] /\ v \in Vals(queue[s][j + 1])
      BY <1>4, <2>2, <2>3
    <3>2. j + 1 # 1
      BY <3>1
    <3> QED
      BY <1>4, <3>1, <3>2 DEF Pend, Once
  <2>4. CASE r # s
    BY <1>2, <1>4, <2>2, <2>4 DEF Pend, Once
  <2> QED
    BY <2>3, <2>4
<1>6. ASSUME NEW v, Pend(v), v \notin Vals(queue[s][1]) PROVE Pend(v)'
  <2>1. PICK r \in Streams : \E i \in DOMAIN queue[r] : v \in Vals(queue[r][i])
    BY <1>6 DEF Pend
  <2>2. PICK i \in DOMAIN queue[r] : v \in Vals(queue[r][i])
    BY <2>1
  <2>3. CASE r = s
    <3>1. i # 1
      BY <1>6, <2>2, <2>3
    <3>2. i - 1 \in DOMAIN queue'[r] /\ v \in Vals(queue'[r][i - 1])
      BY <1>4, <2>2, <2>3, <3>1
    <3> QED
      BY <3>2 DEF Pend
  <2>4. CASE r # s
    BY <1>2, <2>2, <2>4 DEF Pend
  <2> QED
    BY <2>3, <2>4
<1>7. computed' = computed \cup Vals(queue[s][1])
  BY <1>2 DEF RunCompute, Vals
<1> QED
  BY <1>1, <1>2, <1>4, <1>5, <1>6, <1>7 DEF RunCompute, arrayVars

\* Nothing but its computation ends that a value is pending.
LEMMA PendSteps ==
  ASSUME Base, Next \/ UNCHANGED vars
  PROVE  /\ \A v : Pend(v)' => Pend(v) \/ Dispatching(v)
         /\ \A v : Dispatching(v) => Pend(v)'
         /\ \A v : Pend(v) /\ ~Pend(v)' =>
              \E s \in Streams : RunCompute(s) /\ v \in Vals(queue[s][1])
<1> USE BaseFacts
<1>1. ASSUME NEW v, Pend(v), ~Pend(v)'
      PROVE  \E s \in Streams : RunCompute(s) /\ v \in Vals(queue[s][1])
  <2>1. PICK s \in Streams : \E i \in DOMAIN queue[s] : v \in Vals(queue[s][i])
    BY <1>1 DEF Pend
  <2>2. PICK i \in DOMAIN queue[s] : v \in Vals(queue[s][i])
    BY <2>1
  <2>3. ~Grows
    BY <1>1, <2>2, GrowsFacts DEF Pend
  <2>4. PICK r \in Streams : RunStream(r)
    BY <2>3, Growth DEF Next
  <2>5. queue' # queue
    BY <2>3, NothingAdded
  <2>6. /\ queue[r] # <<>> /\ PopTask(r) /\ 1 \in DOMAIN queue[r] /\ Head(queue[r]) = queue[r][1]
        /\ \A t \in Streams : t # r => queue'[t] = queue[t]
        /\ \A j \in DOMAIN queue[r] : j # 1 =>
             j \in Nat /\ j - 1 \in DOMAIN queue'[r] /\ queue'[r][j - 1] = queue[r][j]
    BY <2>4, <2>5, Moves
  <2>7. s = r /\ i = 1
    BY <1>1, <2>2, <2>6 DEF Pend
  <2>8. TaskGood(r, 1)
    BY <2>6 DEF Tasks
  <2>9. queue[r][1].op = "compute"
    BY <2>2, <2>7, <2>8 DEF TaskGood, Vals
  <2>10. RunCompute(r)
    BY <2>4, <2>6, <2>9 DEF RunStream, RunHold, ReleaseBuffers, RunFenceWait, RunFenceUpdate,
       RunEventWait, RunEventSignal, Runnable, Closing
  <2> QED
    BY <2>2, <2>7, <2>10
<1>2. \A v : Dispatching(v) => Pend(v)'
  BY DEF Dispatching, Pend, New
<1> QED
  BY <1>1, <1>2, OrderKept

\* When a computation is at the head of its queue, whatever comes before one of
\* its values has been computed.
LEMMA HeadDone ==
  ASSUME Base, NEW s \in Streams, 1 \in DOMAIN queue[s], queue[s][1].op = "compute",
         NEW v \in Vals(queue[s][1]), NEW w, w \notin Vals(queue[s][1]), Prior(w, v)
  PROVE  ~Pend(w)
<1> USE BaseFacts
<1> DEFINE Q == [r \in Streams |-> IF r = s THEN 1 ELSE 0]
<1>1. Q \in Cuts /\ Q[s] = 1 /\ \A r \in Streams : r # s => Q[r] = 0
  BY DEF Cuts
<1>2. \A r \in Streams : \A i \in DOMAIN queue[r] : i \in Nat /\ i >= 1
  <2> SUFFICES ASSUME NEW r \in Streams, NEW i \in DOMAIN queue[r] PROVE i \in Nat /\ i >= 1
    OBVIOUS
  <2>1. Len(queue[r]) \in Nat /\ DOMAIN queue[r] = 1 .. Len(queue[r])
    BY ConcatFacts DEF Types
  <2> QED
    BY <2>1
<1>3. \A r \in Streams : \A i \in DOMAIN queue[r] : i <= Q[r] <=> r = s /\ i = 1
  <2> SUFFICES ASSUME NEW r \in Streams, NEW i \in DOMAIN queue[r]
               PROVE  i <= Q[r] <=> r = s /\ i = 1
    OBVIOUS
  <2>1. i \in Nat /\ i >= 1
    BY <1>2
  <2> QED
    BY <1>1, <2>1
<1> HIDE DEF Q
<1>4. Consistent(Q)
  BY <1>3 DEF Consistent, Wakes
<1>5. Has(Q, v)
  BY <1>3 DEF Has, Once
<1>6. Has(Q, w)
  BY <1>1, <1>4, <1>5 DEF Prior
<1> QED
  BY <1>3, <1>6 DEF Has, Pend

\* What has been computed, out of everything that was dispatched.
ComputedInv == computed = {v \in Arrays : Placed(v) /\ IsValue(v) /\ ~Pend(v)}

\* The values of a computation in a queue are the outputs of one primitive.
LEMMA ValsFacts ==
  ASSUME Base, NEW s \in Streams, NEW i \in DOMAIN queue[s], queue[s][i].op = "compute"
  PROVE  \E a \in Arrays :
           /\ Vals(queue[s][i]) = Outputs(a) /\ a \in Outputs(a) /\ Computes(queue[s][i], a, buf)
           /\ graph.stream[a] = s
           /\ i + 1 \in DOMAIN queue[s] /\ IsHold(queue[s][i + 1], HeldBuffers(a, buf))
           /\ \A o \in Outputs(a) :
                /\ o \in Arrays /\ Placed(o) /\ IsValue(o) /\ Pend(o)
                /\ graph.in[o] = graph.in[a] /\ Outputs(o) = Outputs(a)
<1> USE BaseFacts
<1>1. PICK a \in Arrays :
        /\ Placed(a) /\ ~NoWork(a) /\ graph.kind[a] # "leaf" /\ graph.stream[a] = s
        /\ Computes(queue[s][i], a, buf)
        /\ i + 1 \in DOMAIN queue[s] /\ IsHold(queue[s][i + 1], HeldBuffers(a, buf))
  BY DEF Tasks, TaskGood
<1>2. Vals(queue[s][i]) = Outputs(a)
  BY <1>1, WritesOutputs
<1>3. ASSUME NEW o \in Outputs(a)
      PROVE  /\ o \in Arrays /\ Placed(o) /\ IsValue(o) /\ Pend(o)
             /\ graph.in[o] = graph.in[a] /\ Outputs(o) = Outputs(a)
  <2>1. o \in Arrays /\ graph.in[o] = graph.in[a] /\ Outputs(o) = Outputs(a)
        /\ graph.kind[o] = graph.kind[a]
    BY GroupFacts DEF Types
  <2>2. Placed(o)
    BY <1>1, PlacedTogether
  <2>3. IsValue(o)
    BY <1>1, <2>1, InputFacts DEF NoWork, IsValue, Types
  <2>4. Pend(o)
    BY <1>2 DEF Pend
  <2> QED
    BY <2>1, <2>2, <2>3, <2>4
<1>4. a \in Outputs(a)
  BY GroupFacts DEF Types
<1> QED
  BY <1>1, <1>2, <1>3, <1>4

\* Before any call only leaves are placed, which nobody computes.
LEMMA ComputedInit == Init => ComputedInv
BY DEF Init, ComputedInv, Placed, IsValue, NoBuf

\* The outputs of an entry with work are pending once they have been dispatched.
LEMMA EntryPends ==
  ASSUME Base, EvalArray, NEW o \in Outputs(m.cur), o \in Arrays, IsValue(o)
  PROVE  Dispatching(o)
<1> USE BaseFacts
<1>1. m.cur \in Arrays
  BY GroupFacts DEF Types, Locals, Entries, Outputs, Sync, Arrays
<1>2. ~NoWork(m.cur)
  BY <1>1, GroupFacts DEF NoWork, IsValue, Types
<1>3. PICK s : s = StreamOf(m.cur)
  OBVIOUS
<1>4. PICK k \in Nat : /\ DOMAIN queue[s] = 1 .. k /\ DOMAIN queue'[s] = 1 .. k + 2
                       /\ Computes(queue'[s][k + 1], m.cur, buf')
  BY <1>2, <1>3, EvalArrayAdds
<1>5. s \in Streams
  BY <1>3, EvalArrayAdds
<1>6. k + 1 \in New(s)
  BY <1>4 DEF New
<1>7. o \in Vals(queue'[s][k + 1])
  BY <1>4, WritesOutputs
<1> QED
  BY <1>5, <1>6, <1>7 DEF Dispatching

\* Every step keeps it: what runs was placed and pending, and is not again.
LEMMA ComputedStep ==
  ASSUME Base, ComputedInv, Next \/ UNCHANGED vars
  PROVE  ComputedInv'
<1> USE BaseFacts
<1>0. graph' = graph
  BY BufferSteps
<1>1. CASE \E s \in Streams : RunCompute(s)
  <2>1. PICK s \in Streams : RunCompute(s)
    BY <1>1
  <2>2. /\ 1 \in DOMAIN queue[s] /\ queue[s][1].op = "compute" /\ UNCHANGED <<graph, buf>>
        /\ computed' = computed \cup Vals(queue[s][1])
        /\ \A v : Pend(v)' <=> Pend(v) /\ v \notin Vals(queue[s][1])
    BY <2>1, ComputeRuns
  <2>3. PICK a \in Arrays :
          /\ Vals(queue[s][1]) = Outputs(a)
          /\ \A o \in Outputs(a) : o \in Arrays /\ Placed(o) /\ IsValue(o) /\ Pend(o)
    BY <2>2, ValsFacts
  <2>4. \A v : Placed(v)' = Placed(v) /\ IsValue(v)' = IsValue(v)
    BY <2>2 DEF Placed, IsValue
  <2> QED
    BY <2>2, <2>3, <2>4 DEF ComputedInv
<1>2. CASE ~ \E s \in Streams : RunCompute(s)
  <2>1. computed' = computed
    BY <1>2 DEF Next, User, EvalImpl, Await, Drop, Main, NextEntry, WaitForInput,
       EvalArray, EvalThrows, Throttle, WaitForOne, OneCompleted, CheckMemory, Publish,
       EndEval, EvalReturns, Awaited, OnlyMain, Quiescent, vars, RunStream, RunHold,
       ReleaseBuffers, RunFenceWait, RunFenceUpdate, RunEventWait, RunEventSignal
  <2>2. \A v : Pend(v)' <=> Pend(v) \/ Dispatching(v)
    BY <1>2, PendSteps
  <2>3. ASSUME NEW v \in Arrays
        PROVE  Placed(v)' /\ IsValue(v)' /\ ~Pend(v)' <=> Placed(v) /\ IsValue(v) /\ ~Pend(v)
    <3>1. IsValue(v)' = IsValue(v)
      BY <1>0 DEF IsValue
    <3>2. CASE Placed(v)
      BY <2>2, <3>1, <3>2, PlacedKept, Dispatched1
    <3>3. CASE ~Placed(v)
      BY <2>2, <3>1, <3>3, PlacedKept, EntryPends
    <3> QED
      BY <3>2, <3>3
  <2> QED
    BY <2>1, <2>3 DEF ComputedInv
<1> QED
  BY <1>1, <1>2

-----------------------------------------------------------------------------
(* What is alive *)

\* No tape is left when no evaluation runs.
Between == pc \notin Running => m.tape = <<>> /\ (pc # "await" => m.cur = Sync)

\* When eval_impl or wait returns, and when eval starts to wait, the locals are clear.
LEMMA LocalsCleared ==
  ASSUME EvalThrows \/ EndEval \/ EvalReturns \/ Awaited
  PROVE  held' = held /\ m'.tape = <<>> /\ m'.outs = <<>> /\ m'.cur = Sync
<1>1. CASE m' = NoEval
  BY <1>1 DEF EvalThrows, EndEval, EvalReturns, Awaited, NoEval, OnlyMain
<1>2. CASE m' = [NoEval EXCEPT !.home = m.home]
  BY <1>2 DEF EvalThrows, EndEval, EvalReturns, Awaited, NoEval, OnlyMain
<1> QED
  BY <1>1, <1>2 DEF EvalThrows, EndEval, EvalReturns, Awaited

\* There is none before any call.
LEMMA BetweenInit == Init => Between
BY DEF Init, Between, NoEval

\* Every call leaves none.
LEMMA BetweenStep ==
  ASSUME Types, Closing, Between, Next \/ UNCHANGED vars
  PROVE  Between'
<1>1. CASE Quiescent \/ UNCHANGED vars \/ \E s \in Streams : RunStream(s)
  <2>1. UNCHANGED <<pc, m>>
    BY <1>1, Working DEF Quiescent, vars
  <2> QED
    BY <2>1 DEF Between
<1>2. CASE User
  BY <1>2 DEF User, EvalImpl, Await, Drop, Between, NoEval, Running, InBody
<1>3. CASE EvalThrows \/ EndEval \/ EvalReturns \/ Awaited
  BY <1>3, LocalsCleared DEF Between
<1>4. CASE \/ NextEntry \/ WaitForInput \/ EvalArray \/ Throttle \/ WaitForOne
           \/ OneCompleted \/ CheckMemory \/ Publish
  BY <1>4 DEF NextEntry, WaitForInput, EvalArray, Throttle, WaitForOne, OneCompleted,
     CheckMemory, Publish, Between, Running, InBody
<1> QED
  BY <1>1, <1>2, <1>3, <1>4 DEF Next, Main

\* A tape holds nothing that the outputs asked for do not keep alive.
LEMMA TapeLive ==
  ASSUME Types, Siblings, NEW outs, ToSet(outs) \subseteq held, NEW t \in Tapes(outs)
  PROVE  \A x \in ToSet(t) : x \in Live
<1>1. t \in BoundedSeq(Needed(graph, Pending, outs), N)
  BY DEF Tapes
<1>2. ToSet(t) \subseteq Needed(graph, Pending, outs)
  <2>1. t \in Seq(Needed(graph, Pending, outs))
    BY <1>1, SeqDef, EvalGraphAssumption DEF BoundedSeq, SeqOf
  <2> QED
    BY <2>1 DEF ToSet
<1>3. Pending \subseteq Arrays
  BY DEF Pending
<1>4. Live \in SUBSET Arrays
  BY LiveFacts
<1>5. ASSUME NEW x \in Arrays, NEW y \in GroupOf(graph, Pending, x),
             y \in ToSet(outs) \/ \E c \in Live \cap Pending : y \in ToSet(graph.in[c])
      PROVE  x \in Live
  <2>1. y \in Group(x)
    BY <1>5, GroupFacts DEF GroupOf, Group, Pending, Unscheduled, Types
  <2>2. y \in Handles \/ \E c \in Live \cap Pending : y \in ToSet(graph.in[c])
    BY <1>5 DEF Handles
  <2> QED
    BY <2>1, <2>2, LiveFacts
<1>6. Reach(graph, Pending, ToSet(outs)) \subseteq Live
  <2>1. PICK V \in SUBSET Arrays : V = Live
    BY <1>4
  <2>2. \A x \in Arrays : \A y \in GroupOf(graph, Pending, x) :
          y \in ToSet(outs) \/ (\E c \in V \cap Pending : y \in ToSet(graph.in[c])) => x \in V
    BY <1>5, <2>1
  <2>3. IsGraph(graph)
    BY DEF Types
  <2>4. Reach(graph, Pending, ToSet(outs)) \subseteq V
    BY <1>3, <2>2, <2>3, ReachFacts
  <2> QED
    BY <2>1, <2>4
<1> QED
  BY <1>2, <1>6 DEF Needed

\* No step brings an array back to life.
LEMMA LiveStep ==
  ASSUME Base, Types', Next \/ UNCHANGED vars
  PROVE  Live' \subseteq Live
<1> USE BaseFacts
<1>1. graph' = graph /\ Pending' \subseteq Pending
  BY BufferSteps, LeavesStep DEF Pending
<1>2. \A x \in Handles \cap Arrays : x \in Live
  BY LiveBy
<1>3. Sync \notin Arrays
  BY DEF Sync, Arrays
<1>4. ASSUME NEW x \in Handles' \cap Arrays PROVE x \in Handles \/ x \in Live
  <2>1. CASE User
    <3>1. ASSUME NEW outs \in Seq(Arrays), NEW async \in BOOLEAN, ToSet(outs) \subseteq held,
                 EvalImpl(async, outs)
          PROVE  x \in Handles \/ x \in Live
      <4>1. PICK t \in Tapes(outs) : m'.tape = Append(t, Sync)
        BY <3>1 DEF EvalImpl, NoEval
      <4>2. held' = held /\ m'.outs = outs /\ m'.cur = Sync
        BY <3>1 DEF EvalImpl, NoEval
      <4>3. t \in Seq(Arrays)
        BY <4>1, TapesTyped
      <4>4. IsSeq(t)
        BY <4>3 DEF IsSeq
      <4>5. ToSet(m'.tape) \subseteq ToSet(t) \cup {Sync}
        BY <4>1, <4>4, AppendFacts DEF ToSet
      <4>6. \A y \in ToSet(t) : y \in Live
        BY <3>1, <4>1, TapeLive
      <4> QED
        BY <1>3, <1>4, <3>1, <4>2, <4>5, <4>6 DEF Handles
    <3>2. ASSUME NEW a \in Arrays, Await(a) PROVE x \in Handles
      <4>1. held' = held /\ a \in held /\ (m' = m \/ m' = [NoEval EXCEPT !.cur = a])
        BY <3>2 DEF Await
      <4>2. CASE m' = m
        BY <1>4, <4>1, <4>2 DEF Handles
      <4>3. CASE m' = [NoEval EXCEPT !.cur = a]
        <5>1. m'.tape = <<>> /\ m'.outs = <<>> /\ m'.cur = a
          BY <4>3 DEF NoEval
        <5> QED
          BY <1>4, <4>1, <5>1 DEF Handles, ToSet
      <4> QED
        BY <4>1, <4>2, <4>3
    <3>3. ASSUME NEW a \in Arrays, Drop(a) PROVE x \in Handles
      BY <1>4, <3>3 DEF Drop, Handles
    <3> QED
      BY <2>1, <3>1, <3>2, <3>3, UserStarts
  <2>2. CASE NextEntry
    <3>1. /\ held' = held /\ m'.outs = m.outs /\ 1 \in DOMAIN m.tape /\ m'.cur = m.tape[1]
          /\ \A k \in DOMAIN m'.tape : k + 1 \in DOMAIN m.tape /\ m'.tape[k] = m.tape[k + 1]
      BY <2>2, EntryTaken
    <3>2. ToSet(m'.tape) \subseteq ToSet(m.tape) /\ m'.cur \in ToSet(m.tape)
      BY <3>1 DEF ToSet
    <3> QED
      BY <1>4, <3>1, <3>2 DEF Handles
  <2>3. CASE Publish
    <3>1. held' = held /\ m'.tape = m.tape /\ m'.outs \in {<<>>, m.outs} /\ m'.cur = Sync
      BY <2>3, EntryPublished DEF Publish, Types, Locals
    <3>2. ToSet(m'.outs) \subseteq ToSet(m.outs)
      BY <3>1 DEF ToSet
    <3> QED
      BY <1>3, <1>4, <3>1, <3>2 DEF Handles
  <2>4. CASE \/ WaitForInput \/ EvalArray \/ Throttle \/ WaitForOne
             \/ OneCompleted \/ CheckMemory
    <3>1. held' = held /\ m'.tape = m.tape /\ m'.outs = m.outs /\ m'.cur = m.cur
      BY <2>4, BodySteps
    <3> QED
      BY <1>4, <3>1 DEF Handles
  <2>5. CASE EvalThrows \/ EndEval \/ EvalReturns \/ Awaited
    <3>1. held' = held /\ m'.tape = <<>> /\ m'.outs = <<>> /\ m'.cur = Sync
      BY <2>5, LocalsCleared
    <3> QED
      BY <1>3, <1>4, <3>1 DEF Handles, ToSet
  <2>6. CASE Quiescent \/ UNCHANGED vars \/ \E s \in Streams : RunStream(s)
    <3>1. UNCHANGED <<held, m>>
      BY <2>6, Working DEF Quiescent, vars
    <3> QED
      BY <1>4, <3>1 DEF Handles
  <2> QED
    BY <2>1, <2>2, <2>3, <2>4, <2>5, <2>6 DEF Next, Main
<1> QED
  BY <1>1, <1>2, <1>4, LiveShrinks

-----------------------------------------------------------------------------
(* What is in the buffers *)

\* The arrays that have, or will have, a value of their own in a buffer.
Owns(w) == w \in Arrays /\ Placed(w) /\ graph.kind[w] # "views"
\* The entry in hand has been given the buffer of its input x.
GivenAway(x) ==
  /\ pc \in Dispatched /\ m.cur # Sync /\ x \in ToSet(graph.in[m.cur])
  /\ graph.kind[m.cur] # "views" /\ \E o \in Outputs(m.cur) : buf[o] = buf[x]
\* Nothing will refer to x once the entry in hand has let go of its inputs.
Doomed(x) ==
  /\ x \notin held /\ x \notin ToSet(m.outs)
  /\ \A c \in Live \cap Pending : x \in ToSet(graph.in[c]) => c \in Outputs(m.cur)
DonorsDoomed == \A x \in Arrays : GivenAway(x) => Doomed(x)
\* The value of x is the last that is computed in its buffer, and is there once
\* it has been.
Current(x) ==
  /\ \A w : Owns(w) /\ buf[w] = buf[x] => Prior(w, Val(x))
  /\ ~Pend(Val(x)) => content[buf[x]] = Val(x)
LiveCurrent == \A x \in Live : Placed(x) /\ ~GivenAway(x) => Current(x)
\* Between its computation and the last that reads it, nothing else is computed
\* in the buffer of a value.
ReadsKept ==
  \A a \in Arrays : Placed(a) /\ IsValue(a) =>
    \A x \in ToSet(graph.in[a]) :
      /\ \A w : Owns(w) /\ buf[w] = buf[x] => Prior(w, Val(x)) \/ Prior(a, w)
      /\ Pend(a) /\ ~Pend(Val(x)) => content[buf[x]] = Val(x)
\* The arrays that some entry of the tape has still to consume.
Future ==
  {z \in Arrays :
     \/ \E k \in DOMAIN m.tape : z \in ToSet(InputsOf(m.tape[k]))
     \/ pc = "inputs" /\ z \in ToSet(InputsOf(m.cur))}
\* A buffer with a pending computation is held by a task behind it, or is an
\* array's that eval_impl has still to deal with.
Owned ==
  \A w : Owns(w) => \/ Guards(<<buf[w]>>, w)
                    \/ \E y \in Future : Placed(y) /\ buf[y] = buf[w]
\* The outputs of one primitive are in different buffers.
Distinct ==
  \A a \in Arrays : Placed(a) /\ IsValue(a) =>
    \A x, y \in Outputs(a) : x # y => buf[x] # buf[y]
\* What is available has no event, or one that is signaled.
Settles ==
  \A x \in Arrays : status[x] = "available" => event[x] = NoEvent \/ event[x] \in signaled

\* What comes before a value that has been computed has been too.
LEMMA PriorDone ==
  ASSUME Types, NEW w, NEW v, Prior(w, v), ~Pend(v)
  PROVE  ~Pend(w)
<1> DEFINE Q == [s \in Streams |-> 0]
<1>1. Q \in Cuts /\ \A s \in Streams : Q[s] = 0
  BY DEF Cuts
<1>2. \A s \in Streams : \A i \in DOMAIN queue[s] : ~(i <= Q[s])
  <2> SUFFICES ASSUME NEW s \in Streams, NEW i \in DOMAIN queue[s] PROVE ~(i <= 0)
    BY <1>1
  <2>1. Len(queue[s]) \in Nat /\ DOMAIN queue[s] = 1 .. Len(queue[s])
    BY ConcatFacts DEF Types
  <2> QED
    BY <2>1
<1> HIDE DEF Q
<1>3. Consistent(Q)
  BY <1>2 DEF Consistent
<1>4. Has(Q, w)
  BY <1>1, <1>3, OrderFacts DEF Prior
<1> QED
  BY <1>2, <1>4 DEF Has, Pend

\* The values of one primitive are computed together.
LEMMA Together ==
  ASSUME Base, NEW a \in Arrays, NEW o \in Outputs(a)
  PROVE  Prior(o, a)
<1> SUFFICES ASSUME NEW Q \in Cuts, Has(Q, a), NEW s \in Streams, NEW i \in DOMAIN queue[s],
                    o \in Vals(queue[s][i])
             PROVE  i <= Q[s]
  BY DEF Prior, Has
<1> USE BaseFacts
<1>1. TaskGood(s, i)
  BY DEF Tasks
<1>2. queue[s][i].op = "compute"
  BY <1>1 DEF TaskGood, Vals
<1>3. a \in Vals(queue[s][i])
  <2>1. PICK c \in Arrays :
          /\ Vals(queue[s][i]) = Outputs(c)
          /\ \A p \in Outputs(c) : Outputs(p) = Outputs(c)
    BY <1>2, ValsFacts
  <2>2. Outputs(o) = Outputs(a) /\ a \in Outputs(a)
    BY GroupFacts DEF Types
  <2> QED
    BY <2>1, <2>2
<1> QED
  BY <1>3 DEF Has

\* A computation that is pending is followed by a task that holds its buffers,
\* except for the one it is named after.
LEMMA NotHeld ==
  ASSUME Base, NEW a \in Arrays, IsValue(a), Pend(a), NEW b,
         \A s \in Streams : \A i \in DOMAIN queue[s] : b \notin queue[s][i].holds,
         b = buf[a] \/ \E y \in ToSet(graph.in[a]) : buf[y] = b
  PROVE  \E c \in Outputs(a) : Owns(c) /\ Pend(c) /\ buf[c] = b
<1> USE BaseFacts
<1>1. PICK s \in Streams : \E i \in DOMAIN queue[s] : a \in Vals(queue[s][i])
  BY DEF Pend
<1>2. PICK i \in DOMAIN queue[s] : a \in Vals(queue[s][i])
  BY <1>1
<1>3. TaskGood(s, i)
  BY DEF Tasks
<1>4. queue[s][i].op = "compute"
  BY <1>2, <1>3 DEF TaskGood, Vals
<1>5. PICK c \in Arrays :
        /\ a \in Outputs(c) /\ c \in Outputs(c)
        /\ i + 1 \in DOMAIN queue[s] /\ IsHold(queue[s][i + 1], HeldBuffers(c, buf))
        /\ \A o \in Outputs(c) :
             /\ o \in Arrays /\ Placed(o) /\ IsValue(o) /\ Pend(o)
             /\ graph.in[o] = graph.in[c] /\ Outputs(o) = Outputs(c)
  BY <1>2, <1>4, ValsFacts
<1>6. b \notin HeldBuffers(c, buf)
  BY <1>5 DEF IsHold
<1>7. c # Sync /\ InputsOf(c) = graph.in[c] /\ graph.in[a] = graph.in[c]
  BY <1>5, GroupFacts DEF Types
<1>8. Owns(c) /\ Pend(c) /\ c \in Outputs(a)
  BY <1>5 DEF Owns, IsValue
<1>9. a = c \/ buf[c] = b
  <2>1. CASE b = buf[a]
    BY <1>5, <1>6, <1>7, <2>1 DEF HeldBuffers
  <2>2. CASE \E y \in ToSet(graph.in[a]) : buf[y] = b
    BY <1>6, <1>7, <2>2 DEF HeldBuffers
  <2> QED
    BY <2>1, <2>2
<1>10. buf[c] = b
  <2>1. CASE b = buf[a]
    BY <1>9, <2>1
  <2>2. CASE \E y \in ToSet(graph.in[a]) : buf[y] = b
    BY <1>6, <1>7, <2>2 DEF HeldBuffers
  <2> QED
    BY <2>1, <2>2
<1> QED
  BY <1>8, <1>10

\* What is still to be consumed is alive.
LEMMA FutureLive ==
  ASSUME Base, Between
  PROVE  Future \subseteq Live
<1> USE BaseFacts
<1>1. \A x \in Handles \cap Arrays : x \in Live
  BY LiveBy
<1>2. ASSUME NEW a \in Entries, a \in Handles, a # Sync => Unscheduled(a), NEW z \in Arrays,
             z \in ToSet(InputsOf(a))
      PROVE  z \in Live
  <2>1. CASE a = Sync
    BY <1>1, <1>2, <2>1 DEF InputsOf, Handles
  <2>2. CASE a # Sync
    <3>1. a \in Live \cap Pending /\ InputsOf(a) = graph.in[a]
      BY <1>1, <1>2, <2>2, GroupFacts DEF Pending, Entries, Types
    <3> QED
      BY <1>2, <3>1, LiveBy
  <2> QED
    BY <2>1, <2>2
<1>3. ASSUME NEW k \in DOMAIN m.tape, NEW z \in Arrays, z \in ToSet(InputsOf(m.tape[k]))
      PROVE  z \in Live
  <2>1. m.tape[k] \in Entries /\ m.tape[k] \in Handles
    BY TapeFacts DEF Handles, ToSet
  <2>2. pc \in Running
    BY TapeFacts DEF Between
  <2>3. m.tape[k] # Sync => Unscheduled(m.tape[k])
    BY <2>2 DEF Schedule, EntryGood
  <2> QED
    BY <1>2, <1>3, <2>1, <2>3
<1>4. ASSUME pc = "inputs", NEW z \in Arrays, z \in ToSet(InputsOf(m.cur))
      PROVE  z \in Live
  <2>1. m.cur \in Entries /\ m.cur \in Handles
    BY TapeFacts DEF Handles
  <2>2. m.cur # Sync => Unscheduled(m.cur)
    BY <1>4 DEF Schedule, CurrentGood, InBody
  <2> QED
    BY <1>2, <1>4, <2>1, <2>2
<1> QED
  BY <1>3, <1>4 DEF Future

-----------------------------------------------------------------------------
(* What eval_cpu takes buffers from *)

\* The buffers an entry with work writes into: no task holds them, and no live
\* array is in them but an input that only this entry refers to.
LEMMA EntryPlaces ==
  ASSUME Base, EvalArray, ~NoWork(m.cur), m.cur \in Arrays,
         NEW o \in Outputs(m.cur), NEW b, b = buf'[o]
  PROVE  /\ \A s \in Streams : \A i \in DOMAIN queue[s] : b \notin queue[s][i].holds
         /\ \A p \in Outputs(m.cur) : p # o => buf'[p] # b
         /\ b # NoBuf
         /\ \/ \A x \in Live : buf[x] # b
            \/ \E d \in ToSet(graph.in[m.cur]) :
                 /\ d \in Live /\ buf[d] = b /\ d \notin held /\ d \notin ToSet(m.outs)
                 /\ \A x \in Live : buf[x] = b => x = d
                 /\ \A c \in Live \cap Pending : d \in ToSet(graph.in[c]) => c = m.cur
<1> USE BaseFacts
<1>1. PICK a \in Arrays : a = m.cur
  OBVIOUS
<1>2. pc = "inputs" /\ a # Sync
  BY <1>1 DEF EvalArray, NoWork
<1>3. Placeable(a) /\ a \in Live
  BY <1>1, <1>2, EntryReady
<1>4. a \in Live \cap Pending /\ graph.kind[a] # "views"
  BY <1>1, <1>3 DEF Placeable, Pending, NoWork
<1>5. b = Place(a)[o]
  BY <1>1, <1>2, Places
<1>6. /\ b \in Buffers
      /\ \/ Free(b)
         \/ \E i \in DOMAIN graph.in[a] : Donatable(graph.in[a][i]) /\ b = buf[graph.in[a][i]]
      /\ \A p \in Outputs(a) : p # o => Place(a)[p] # b
  BY <1>1, <1>3, <1>4, <1>5, PlaceFacts
<1>7. \A p \in Outputs(m.cur) : p # o => buf'[p] # b
  BY <1>1, <1>2, <1>6, Places
<1>8. b # NoBuf
  BY <1>6 DEF Buffers, NoBuf
<1>9. CASE Free(b)
  BY <1>7, <1>8, <1>9, FreeFacts
<1>10. ASSUME NEW i \in DOMAIN graph.in[a], Donatable(graph.in[a][i]), b = buf[graph.in[a][i]]
       PROVE  /\ \A s \in Streams : \A k \in DOMAIN queue[s] : b \notin queue[s][k].holds
              /\ \E d \in ToSet(graph.in[m.cur]) :
                   /\ d \in Live /\ buf[d] = b /\ d \notin held /\ d \notin ToSet(m.outs)
                   /\ \A x \in Live : buf[x] = b => x = d
                   /\ \A c \in Live \cap Pending : d \in ToSet(graph.in[c]) => c = m.cur
  <2>1. PICK d : d = graph.in[a][i]
    OBVIOUS
  <2>2. d \in ToSet(graph.in[a])
    BY <2>1 DEF ToSet
  <2>3. /\ d \in Live /\ d \notin held /\ d \notin ToSet(m.outs)
        /\ \A c \in Live \cap Pending : \A j \in DOMAIN graph.in[c] : graph.in[c][j] = d => c = a
        /\ \A y \in Live : buf[y] = buf[d] => y = d
        /\ \A s \in Streams : \A k \in DOMAIN queue[s] : buf[d] \notin queue[s][k].holds
    BY <1>4, <1>10, <2>1, DonatableFacts
  <2>4. \A c \in Live \cap Pending : d \in ToSet(graph.in[c]) => c = a
    BY <2>3 DEF ToSet
  <2> QED
    BY <1>1, <1>10, <2>1, <2>2, <2>3, <2>4
<1> QED
  BY <1>6, <1>7, <1>8, <1>9, <1>10

\* Whatever was computed in the buffer before comes before the entry's output.
LEMMA Overwritten ==
  ASSUME Faulty = {}, Base, Types', Between, Waited, LiveCurrent, Owned, EvalArray,
         ~NoWork(m.cur), m.cur \in Arrays, NEW o \in Outputs(m.cur),
         NEW w, Owns(w), buf[w] = buf'[o]
  PROVE  Prior(w, o)'
<1> USE BaseFacts
<1>0. Next
  BY DEF Next, Main
<1>1. PICK b : b = buf'[o]
  OBVIOUS
<1>2. /\ \A s \in Streams : \A i \in DOMAIN queue[s] : b \notin queue[s][i].holds
      /\ \/ \A x \in Live : buf[x] # b
         \/ \E d \in ToSet(graph.in[m.cur]) : d \in Live /\ buf[d] = b
  BY <1>1, EntryPlaces
<1>3. ~Dispatching(w) /\ w \in Arrays /\ buf[w] = b
  <2>1. w \in Arrays /\ Placed(w) /\ Val(w) = w
    BY ValFacts DEF Owns, Types
  <2> QED
    BY <1>0, <1>1, <2>1, PlacedKept
<1>4. CASE \A x \in Live : buf[x] # b
  <2>1. Guards(<<b>>, w)
    BY <1>3, <1>4, FutureLive DEF Owned
  <2>2. \A s \in Streams : \A i \in DOMAIN queue[s] : <<b>> \notin Marks(queue[s][i])
    BY <1>2, MarkFacts
  <2>3. PICK k : k = <<b>>
    OBVIOUS
  <2>4. \A s \in Streams : IsSeq(queue[s])
    BY DEF Types
  <2>5. ~Pend(w)
    BY <2>1, <2>2, <2>3, <2>4, OrderFacts
  <2>6. Prior(w, o)
    BY <2>5, OrderFacts
  <2> QED
    BY <1>0, <1>3, <2>6, OrderKept
<1>5. ASSUME NEW d \in ToSet(graph.in[m.cur]), d \in Live, buf[d] = b PROVE Prior(w, o)'
  <2>1. PICK v : v = Val(d)
    OBVIOUS
  <2>2. PICK s : s = StreamOf(m.cur)
    OBVIOUS
  <2>3. d \in Arrays /\ Placed(d) /\ pc = "inputs"
    BY EntryFacts
  <2>4. ~GivenAway(d)
    BY <2>3 DEF GivenAway, Dispatched
  <2>5. Prior(w, v)
    BY <1>3, <1>5, <2>1, <2>3, <2>4 DEF LiveCurrent, Current
  <2>6. Sees(s, v)
    BY <2>1, <2>2, EntrySees
  <2>7. Sees(s, w)
    BY <2>5, <2>6, OrderFacts
  <2> QED
    BY <1>3, <2>2, <2>7, DispatchSees
<1> QED
  BY <1>2, <1>4, <1>5

\* Whatever read the buffer before is run before the entry's output is computed.
LEMMA ReadersDone ==
  ASSUME Faulty = {}, Base, Types', Between, Waited, LiveCurrent, Owned, EvalArray,
         ~NoWork(m.cur), m.cur \in Arrays, NEW o \in Outputs(m.cur),
         NEW a \in Arrays, Placed(a), IsValue(a),
         NEW y \in ToSet(graph.in[a]), buf[y] = buf'[o]
  PROVE  Prior(a, o)'
<1> USE BaseFacts
<1>0. Next
  BY DEF Next, Main
<1>1. PICK b : b = buf'[o]
  OBVIOUS
<1>2. ~Dispatching(a)
  <2>1. Val(a) = a
    BY ValFacts DEF IsValue, Types
  <2> QED
    BY <1>0, <2>1, PlacedKept
<1>3. CASE ~Pend(a)
  <2>1. Prior(a, o)
    BY <1>3, OrderFacts
  <2> QED
    BY <1>0, <1>2, <2>1, OrderKept
<1>4. CASE Pend(a)
  <2>1. \A s \in Streams : \A i \in DOMAIN queue[s] : b \notin queue[s][i].holds
    BY <1>1, EntryPlaces
  <2>2. PICK c \in Outputs(a) : Owns(c) /\ buf[c] = b
    BY <1>1, <1>4, <2>1, NotHeld
  <2>3. Prior(c, o)'
    BY <1>1, <2>2, Overwritten
  <2>4. a \in Outputs(c) /\ c \in Arrays
    BY GroupFacts DEF Types
  <2>5. Prior(a, c)
    BY <2>4, Together
  <2>6. Prior(a, c)'
    BY <1>0, <1>2, <2>5, OrderKept
  <2> QED
    BY <2>3, <2>6 DEF Prior
<1> QED
  BY <1>3, <1>4

\* A computation leaves its values in their buffers, and other buffers alone.
LEMMA Contents ==
  ASSUME Base, Distinct, NEW s \in Streams, RunCompute(s), NEW x \in Arrays, Placed(x)
  PROVE  /\ Val(x) \in Vals(queue[s][1]) => content'[buf[x]] = Val(x)
         /\ (\A o \in Vals(queue[s][1]) : buf[o] # buf[x]) =>
              content'[buf[x]] = content[buf[x]]
<1> USE BaseFacts
<1>1. 1 \in DOMAIN queue[s] /\ Head(queue[s]) = queue[s][1] /\ queue[s][1].op = "compute"
  BY ComputeRuns
<1>2. PICK a \in Arrays :
        /\ Vals(queue[s][1]) = Outputs(a) /\ a \in Outputs(a) /\ Computes(queue[s][1], a, buf)
        /\ \A o \in Outputs(a) : o \in Arrays /\ Placed(o) /\ IsValue(o)
  BY <1>1, ValsFacts
<1>3. PICK b : b = buf[x]
  OBVIOUS
<1>4. b \in Buffers
  BY <1>3 DEF Placement, Placed
<1>5. PICK w : w = queue[s][1].writes
  OBVIOUS
<1>6. w = {<<buf[o], o>> : o \in Outputs(a)}
  BY <1>2, <1>5 DEF Computes
<1>7. content'[b] = IF \E p \in w : p[1] = b THEN (CHOOSE p \in w : p[1] = b)[2] ELSE content[b]
  BY <1>1, <1>4, <1>5 DEF RunCompute
<1>8. ASSUME Val(x) \in Outputs(a) PROVE content'[b] = Val(x)
  <2>1. PICK v : v = Val(x)
    OBVIOUS
  <2>2. buf[v] = b /\ <<buf[v], v>> \in w /\ <<buf[v], v>>[1] = b
    BY <1>3, <1>6, <1>8, <2>1, ValPlaced
  <2>3. PICK q : q = CHOOSE p \in w : p[1] = b
    OBVIOUS
  <2>4. q \in w /\ q[1] = b
    BY <2>2, <2>3
  <2>5. PICK o \in Outputs(a) : q = <<buf[o], o>>
    BY <1>6, <2>4
  <2>6. o = v
    BY <1>2, <1>8, <2>1, <2>2, <2>4, <2>5 DEF Distinct
  <2>7. q[2] = o
    BY <2>5
  <2>8. content'[b] = q[2]
    <3>1. \E p \in w : p[1] = b
      BY <2>4
    <3> QED
      BY <1>7, <2>3, <3>1, Zenon
  <2> QED
    BY <2>1, <2>6, <2>7, <2>8
<1>9. ASSUME \A o \in Outputs(a) : buf[o] # b PROVE content'[b] = content[b]
  <2>1. \A p \in w : p[1] # b
    BY <1>6, <1>9
  <2> QED
    BY <1>7, <2>1
<1> QED
  BY <1>2, <1>3, <1>8, <1>9

\* Nothing else writes into buffers.
LEMMA ContentsKept ==
  ASSUME Next \/ UNCHANGED vars, ~ \E s \in Streams : RunCompute(s)
  PROVE  content' = content
BY DEF Next, User, EvalImpl, Await, Drop, Main, NextEntry, WaitForInput,
   EvalArray, EvalThrows, Throttle, WaitForOne, OneCompleted, CheckMemory, Publish,
   EndEval, EvalReturns, Awaited, OnlyMain, Quiescent, vars, RunStream, RunHold,
   ReleaseBuffers, RunFenceWait, RunFenceUpdate, RunEventWait, RunEventSignal

\* What is current stays so, as long as nothing new is placed in its buffer.
LEMMA CurrentStep ==
  ASSUME Base, Distinct, Next \/ UNCHANGED vars, NEW x \in Arrays, Placed(x), Current(x),
         \A o \in Arrays : ~Placed(o) /\ Placed(o)' /\ graph.kind[o] # "views" => buf'[o] # buf[x]
  PROVE  Current(x)'
<1> USE BaseFacts
<1>1. PICK v : v = Val(x)
  OBVIOUS
<1>2. /\ v = Val(x)' /\ graph' = graph /\ buf'[x] = buf[x] /\ ~Dispatching(v) /\ v \in Arrays
  BY <1>1, PlacedKept
<1>3. ASSUME NEW w, Owns(w)', buf'[w] = buf'[x] PROVE Prior(w, v)'
  <2>1. w \in Arrays /\ graph.kind[w] # "views" /\ Placed(w)'
    BY <1>2, <1>3 DEF Owns
  <2>2. Placed(w)
    BY <1>2, <1>3, <2>1
  <2>3. Val(w) = w
    BY <2>1, ValFacts DEF Types
  <2>4. buf'[w] = buf[w] /\ ~Dispatching(w)
    BY <2>1, <2>2, <2>3, PlacedKept
  <2>5. Prior(w, v)
    BY <1>1, <1>2, <1>3, <2>1, <2>2, <2>4 DEF Current, Owns
  <2> QED
    BY <2>4, <2>5, OrderKept
<1>4. ASSUME ~Pend(v)' PROVE content'[buf[x]] = v
  <2>1. CASE Pend(v)
    BY <1>1, <1>4, <2>1, PendSteps, Contents
  <2>2. CASE ~Pend(v)
    <3>1. content[buf[x]] = v
      BY <1>1, <2>2 DEF Current
    <3>2. ASSUME NEW s \in Streams, RunCompute(s) PROVE content'[buf[x]] = content[buf[x]]
      <4> SUFFICES ASSUME NEW o \in Vals(queue[s][1]), buf[o] = buf[x] PROVE FALSE
        BY <3>2, Contents
      <4>1. 1 \in DOMAIN queue[s] /\ queue[s][1].op = "compute"
        BY <3>2, ComputeRuns
      <4>2. o \in Arrays /\ Placed(o) /\ IsValue(o) /\ Pend(o)
        BY <4>1, ValsFacts
      <4>3. Prior(o, v)
        BY <1>1, <4>2 DEF Current, Owns, IsValue
      <4> QED
        BY <2>2, <4>2, <4>3, PriorDone
    <3> QED
      BY <3>1, <3>2, ContentsKept
  <2> QED
    BY <2>1, <2>2
<1> QED
  BY <1>2, <1>3, <1>4 DEF Current

\* A view of a current array is current; what an entry computes is the last
\* to be computed in its buffer.
LEMMA NewCurrent ==
  ASSUME Faulty = {}, Base, Types', Between, Waited, LiveCurrent, Owned, Distinct, EvalArray,
         m.cur \in Arrays, NEW o \in Outputs(m.cur)
  PROVE  Current(o)'
<1> USE BaseFacts
<1>0. Next
  BY DEF Next, Main
<1>1. /\ pc = "inputs" /\ graph' = graph /\ m.cur # Sync
      /\ o \in Arrays /\ ~Placed(o) /\ Placed(o)' /\ graph.in[o] = graph.in[m.cur]
      /\ graph.kind[o] = graph.kind[m.cur]
      /\ \A x \in ToSet(graph.in[m.cur]) : x \in Arrays /\ Placed(x)
  BY EntryFacts
<1>2. CASE NoWork(m.cur)
  <2>1. PICK d : d = graph.in[o][1]
    OBVIOUS
  <2>2. graph.kind[o] = "views" /\ graph.kind[m.cur] = "views"
    BY <1>1, <1>2 DEF NoWork
  <2>3. d \in ToSet(graph.in[m.cur]) /\ Val(o) = Val(d)
    BY <1>1, <2>1, <2>2, ValFacts, InputFacts DEF Types
  <2>4. m.cur \in Live \cap Pending /\ ~GivenAway(d)
    BY <1>1, EntryReady DEF Placeable, Pending, GivenAway, Dispatched
  <2>5. Current(d) /\ Placed(d) /\ d \in Arrays
    BY <1>1, <2>3, <2>4, LiveBy DEF LiveCurrent
  <2>6. ASSUME NEW p \in Arrays, ~Placed(p), Placed(p)' PROVE graph.kind[p] = "views"
    BY <1>0, <2>2, <2>6, PlacedKept, EntryFacts
  <2>7. Current(d)'
    BY <1>0, <2>5, <2>6, CurrentStep
  <2>8. Placement'
    BY <1>0, PlacementStep
  <2>9. buf'[o] = buf'[d]
    BY <1>1, <2>1, <2>2, <2>8 DEF Placement
  <2>10. PICK v : v = Val(d)
    OBVIOUS
  <2>11. v = Val(d)' /\ v = Val(o)'
    BY <1>0, <1>1, <2>3, <2>5, <2>10, PlacedKept
  <2> QED
    BY <2>7, <2>9, <2>11 DEF Current
<1>3. CASE ~NoWork(m.cur)
  <2>1. graph.kind[o] # "views" /\ IsValue(o)
    <3>1. graph.kind[o] # "views" /\ Unscheduled(o)
      BY <1>1, <1>3, EntryFacts DEF NoWork
    <3> QED
      BY <1>1, <3>1, InputFacts DEF Leaves, IsValue, Types
  <2>2. Val(o) = o /\ Val(o)' = Val(o)
    BY <1>0, <1>1, <2>1, ValFacts, PlacedKept DEF Types
  <2>3. Pend(o)'
    BY <1>0, <1>1, <2>1, EntryPends, PendSteps
  <2>4. PICK s : s = StreamOf(m.cur)
    OBVIOUS
  <2>5. ASSUME NEW w, Owns(w)', buf'[w] = buf'[o] PROVE Prior(w, o)'
    <3>1. w \in Arrays /\ graph.kind[w] # "views" /\ Placed(w)'
      BY <1>1, <2>5 DEF Owns
    <3>2. CASE Placed(w)
      <4>1. buf[w] = buf'[o] /\ Owns(w)
        BY <1>0, <2>5, <3>1, <3>2, PlacedKept DEF Owns
      <4> QED
        BY <1>3, <4>1, Overwritten
    <3>3. CASE ~Placed(w)
      <4>1. w \in Outputs(m.cur)
        BY <1>0, <3>1, <3>3, PlacedKept
      <4>2. w = o
        BY <1>3, <2>5, <4>1, EntryPlaces
      <4> QED
        BY <1>3, <2>4, <4>2, DispatchSees
    <3> QED
      BY <3>2, <3>3
  <2> QED
    BY <2>2, <2>3, <2>5 DEF Current
<1> QED
  BY <1>2, <1>3

\* From its dispatch to its publication nothing changes about an entry.
LEMMA DispatchedSteps ==
  ASSUME Base, Next \/ UNCHANGED vars
  PROVE  /\ pc' \in Dispatched => EvalArray \/ (pc \in Dispatched /\ m'.cur = m.cur
                                                /\ m'.outs = m.outs /\ held' = held)
         /\ pc \in Dispatched => Publish \/ (pc' \in Dispatched /\ m'.cur = m.cur
                                             /\ m'.outs = m.outs /\ held' = held)
<1> USE BaseFacts
<1>1. CASE Throttle \/ WaitForOne \/ OneCompleted \/ CheckMemory
  <2>1. m'.cur = m.cur /\ m'.outs = m.outs /\ held' = held
    BY <1>1, BodySteps
  <2>2. pc \in Dispatched /\ pc' \in Dispatched
    BY <1>1 DEF Throttle, WaitForOne, OneCompleted, CheckMemory, Dispatched
  <2> QED
    BY <2>1, <2>2
<1>2. CASE Quiescent \/ UNCHANGED vars \/ \E s \in Streams : RunStream(s)
  BY <1>2, Working DEF Quiescent, vars
<1>3. CASE \/ User \/ NextEntry \/ WaitForInput \/ EvalArray \/ EvalThrows \/ Publish
           \/ EndEval \/ EvalReturns \/ Awaited
  BY <1>3 DEF User, EvalImpl, Await, Drop, NextEntry, WaitForInput, EvalArray, EvalThrows,
     Publish, EndEval, EvalReturns, Awaited, Dispatched
<1> QED
  BY <1>1, <1>2, <1>3 DEF Next, Main

\* An input whose buffer was given away is dead once its entry is published.
LEMMA DonorsGone ==
  ASSUME Base, Types', DonorsDoomed, Next \/ UNCHANGED vars, NEW x \in Arrays, GivenAway(x),
         x \in Live'
  PROVE  GivenAway(x)'
<1> USE BaseFacts
<1>0. graph' = graph /\ pc \in Dispatched /\ m.cur # Sync /\ x \in ToSet(graph.in[m.cur])
  BY BufferSteps DEF GivenAway
<1>1. CASE ~Publish
  <2>1. pc' \in Dispatched /\ m'.cur = m.cur
    BY <1>0, <1>1, DispatchedSteps
  <2>2. buf' = buf
    BY <1>0, BufferSteps DEF EvalArray, Dispatched
  <2>3. Outputs(m.cur)' = Outputs(m.cur)
    BY <1>0, <2>1 DEF Outputs
  <2> QED
    BY <1>0, <2>1, <2>2, <2>3 DEF GivenAway
<1>2. CASE Publish
  <2>1. /\ m'.tape = m.tape /\ m'.outs \in {<<>>, m.outs} /\ held' = held /\ m'.cur = Sync
        /\ \A y \in Arrays : status'[y] = IF y \in Outputs(m.cur) THEN "evaluated" ELSE status[y]
    BY <1>2, EntryPublished DEF Publish, Types, Locals
  <2>2. pc \in InBody /\ m.cur \in Entries
    BY <1>0, TapeFacts DEF Dispatched, InBody
  <2>3. InputsOf(m.cur) = graph.in[m.cur] /\ m.cur \in Arrays
    BY <1>0, <2>2 DEF InputsOf, Entries
  <2>4. ~Unscheduled(x)
    BY <1>0, <2>2, <2>3 DEF Schedule, CurrentGood
  <2>5. ~Unscheduled(x)'
    BY <2>4, LeavesStep
  <2>6. Group(x)' = {x}
    BY <2>5 DEF Group
  <2>7. Doomed(x)
    BY DEF DonorsDoomed
  <2>8. x \notin Handles'
    <3>1. x \notin ToSet(m.tape)
      <4> SUFFICES ASSUME NEW k \in DOMAIN m.tape, m.tape[k] = x PROVE FALSE
        BY DEF ToSet
      <4>1. EntryGood(k) /\ x # Sync
        BY <2>2 DEF Schedule, Running, Sync, Arrays
      <4> QED
        BY <2>4, <4>1 DEF EntryGood
    <3>2. x \notin ToSet(m'.outs)
      BY <2>1, <2>7 DEF Doomed, ToSet
    <3> QED
      BY <2>1, <2>7, <3>1, <3>2 DEF Handles, Doomed, Sync, Arrays
  <2>9. ASSUME NEW c \in Live' \cap Pending', x \in ToSet(graph.in[c]) PROVE FALSE
    <3>1. c \in Live \cap Pending
      BY <2>9, LiveStep, LeavesStep DEF Pending
    <3>2. c \in Outputs(m.cur)
      BY <2>7, <2>9, <3>1 DEF Doomed
    <3>3. c \in Arrays /\ status'[c] = "unscheduled"
      BY <2>9 DEF Pending, Unscheduled
    <3> QED
      BY <2>1, <3>2, <3>3
  <2>10. \E y \in Group(x)' : y \in Handles' \/ \E c \in Live' \cap Pending' : y \in ToSet(graph'.in[c])
    <3>1. PICK V : V = Live'
      OBVIOUS
    <3> QED
      BY <3>1, LiveWhy
  <2> QED
    BY <1>0, <2>6, <2>8, <2>9, <2>10
<1> QED
  BY <1>1, <1>2

\* Only an entry that nothing else will refer to has its buffer given away.
LEMMA DonorsStep ==
  ASSUME Base, Types', DonorsDoomed, Next \/ UNCHANGED vars
  PROVE  DonorsDoomed'
<1> USE BaseFacts
<1> SUFFICES ASSUME NEW x \in Arrays, GivenAway(x)'
             PROVE  Doomed(x)'
  BY DEF DonorsDoomed
<1>1. PICK V : V = Live'
  OBVIOUS
<1>2. V \subseteq Live /\ graph' = graph
  BY <1>1, LiveStep, BufferSteps
<1>3. \A c \in Pending' : c \in Pending
  BY LeavesStep DEF Pending
<1>4. CASE EvalArray
  <2>1. m' = m /\ held' = held
    BY <1>4, EvalArrayAdds
  <2>2. m.cur \in Arrays
    BY <2>1, TapeFacts DEF GivenAway, Entries
  <2>3. x \in ToSet(graph.in[m.cur]) /\ ~NoWork(m.cur) /\ Outputs(m.cur)' = Outputs(m.cur)
    BY <1>2, <1>4, <2>1, <2>2, EntryFacts DEF GivenAway, NoWork
  <2>4. PICK o \in Outputs(m.cur) : buf'[o] = buf'[x]
    BY <2>1, <2>3 DEF GivenAway
  <2>5. PICK b : b = buf'[o]
    OBVIOUS
  <2>6. buf[x] = b
    BY <1>4, <2>2, <2>3, <2>4, <2>5, EntryFacts, PlacedKept
  <2>7. x \in Live
    BY <1>4, <2>2, <2>3, EntryReady, EntryFacts, LiveBy DEF Placeable, Pending
  <2>8. /\ x \notin held /\ x \notin ToSet(m.outs)
        /\ \A c \in Live \cap Pending : x \in ToSet(graph.in[c]) => c = m.cur
    BY <1>4, <2>2, <2>3, <2>5, <2>6, <2>7, EntryPlaces
  <2>9. m.cur \in Outputs(m.cur)
    BY <1>4, <2>2, EntryFacts
  <2> QED
    BY <1>1, <1>2, <1>3, <2>1, <2>3, <2>8, <2>9 DEF Doomed
<1>5. CASE ~EvalArray
  <2>1. pc \in Dispatched /\ m'.cur = m.cur /\ m'.outs = m.outs /\ held' = held
    BY <1>5, DispatchedSteps DEF GivenAway
  <2>2. buf' = buf
    BY <1>5, BufferSteps
  <2>3. m.cur # Sync => Outputs(m.cur)' = Outputs(m.cur)
    BY <1>2, <2>1 DEF Outputs
  <2>4. GivenAway(x)
    BY <1>2, <2>1, <2>2, <2>3 DEF GivenAway
  <2>5. Doomed(x)
    BY <2>4 DEF DonorsDoomed
  <2>6. m.cur # Sync
    BY <2>4 DEF GivenAway
  <2> QED
    BY <1>1, <1>2, <1>3, <2>1, <2>3, <2>5, <2>6 DEF Doomed
<1> QED
  BY <1>4, <1>5

\* Every step keeps the values of live arrays in their buffers.
LEMMA LiveCurrentStep ==
  ASSUME Faulty = {}, Base, Types', Between, Waited, DonorsDoomed, LiveCurrent, Owned, Distinct,
         Next \/ UNCHANGED vars
  PROVE  LiveCurrent'
<1> USE BaseFacts
<1> SUFFICES ASSUME NEW x \in Live', Placed(x)', ~GivenAway(x)'
             PROVE  Current(x)'
  BY DEF LiveCurrent
<1>1. x \in Live /\ x \in Arrays /\ graph' = graph
  BY LiveStep, LiveFacts, BufferSteps
<1>2. CASE ~Placed(x)
  BY <1>1, <1>2, PlacedKept, NewCurrent
<1>3. CASE Placed(x)
  <2>1. ~GivenAway(x)
    BY <1>1, DonorsGone
  <2>2. Current(x)
    BY <1>1, <1>3, <2>1 DEF LiveCurrent
  <2>3. ASSUME NEW o \in Arrays, ~Placed(o), Placed(o)', graph.kind[o] # "views",
               buf'[o] = buf[x]
        PROVE  FALSE
    <3>1. EvalArray /\ o \in Outputs(m.cur) /\ m.cur \in Arrays
      BY <2>3, PlacedKept
    <3>2. /\ graph.kind[m.cur] # "views" /\ m.cur # Sync /\ m' = m /\ pc' = "throttle"
          /\ Outputs(m.cur)' = Outputs(m.cur)
      BY <2>3, <3>1, EntryFacts
    <3>3. ~NoWork(m.cur)
      BY <3>2 DEF NoWork
    <3>4. PICK b : b = buf'[o]
      OBVIOUS
    <3>5. x \in ToSet(graph.in[m.cur])
      BY <1>1, <2>3, <3>1, <3>3, <3>4, EntryPlaces
    <3>6. buf'[x] = buf'[o]
      BY <1>1, <1>3, <2>3, PlacedKept
    <3> QED
      BY <1>1, <3>1, <3>2, <3>5, <3>6 DEF GivenAway, Dispatched
  <2> QED
    BY <1>1, <1>3, <2>2, <2>3, CurrentStep
<1> QED
  BY <1>2, <1>3

\* Every step keeps the outputs of a primitive apart.
LEMMA DistinctStep ==
  ASSUME Base, Types', Distinct, Next \/ UNCHANGED vars
  PROVE  Distinct'
<1> USE BaseFacts
<1>0. graph' = graph
  BY BufferSteps
<1> SUFFICES ASSUME NEW a \in Arrays, Placed(a)', IsValue(a),
                    NEW x \in Outputs(a), NEW y \in Outputs(a), x # y
             PROVE  buf'[x] # buf'[y]
  BY <1>0 DEF Distinct, IsValue, Outputs, Sync, Arrays
<1>1. CASE Placed(a)
  <2>1. x \in Arrays /\ y \in Arrays /\ Placed(x) /\ Placed(y)
    BY <1>1, PlacedTogether
  <2>2. buf'[x] = buf[x] /\ buf'[y] = buf[y]
    BY <2>1, PlacedKept
  <2> QED
    BY <1>1, <2>2 DEF Distinct
<1>2. CASE ~Placed(a)
  <2>1. EvalArray /\ a \in Outputs(m.cur) /\ m.cur \in Arrays
    BY <1>2, PlacedKept
  <2>2. Outputs(a) = Outputs(m.cur) /\ graph.kind[a] = graph.kind[m.cur]
    BY <2>1, GroupFacts DEF Types
  <2>3. ~NoWork(m.cur)
    BY <2>1, <2>2, EntryFacts DEF NoWork, IsValue
  <2>4. PICK b : b = buf'[x]
    OBVIOUS
  <2> QED
    BY <2>1, <2>2, <2>3, <2>4, EntryPlaces
<1> QED
  BY <1>1, <1>2

\* Every step keeps the events of available arrays signaled: an array that is
\* scheduled anew was not available.
LEMMA SettlesStep ==
  ASSUME Base, Settles, Next \/ UNCHANGED vars
  PROVE  Settles'
<1> USE BaseFacts
<1> SUFFICES ASSUME NEW x \in Arrays, status'[x] = "available", event'[x] # NoEvent
             PROVE  event'[x] \in signaled'
  BY DEF Settles
<1>1. CASE \E s \in Streams : RunStream(s)
  <2>1. PICK s \in Streams : RunStream(s)
    BY <1>1
  <2>2. event' = event /\ status' = status /\ signaled \subseteq signaled'
    BY <2>1, Working
  <2> QED
    BY <2>2 DEF Settles
<1>2. CASE NextEntry
  <2>1. PICK a : a = Head(m.tape)
    OBVIOUS
  <2>2. /\ m.tape # <<>> /\ pc = "next" /\ status' = status /\ signaled' = signaled
        /\ event'[x] = IF m.async /\ x \in Outputs(a) THEN <<evals, StreamOf(a)>> ELSE event[x]
    BY <1>2, <2>1 DEF NextEntry
  <2>3. x \notin Outputs(a)
    <3> SUFFICES ASSUME x \in Outputs(a) PROVE FALSE
      OBVIOUS
    <3>1. 1 \in DOMAIN m.tape /\ a = m.tape[1]
      BY <2>1, <2>2, TapeFacts
    <3>2. EntryGood(1) /\ a \in Entries
      BY <2>2, <3>1, TapeFacts DEF Schedule, Running
    <3>3. a # Sync /\ a \in Arrays
      BY <3>2 DEF Outputs, Entries, Sync, Arrays
    <3>4. Unscheduled(a)
      BY <3>1, <3>2, <3>3 DEF EntryGood
    <3>5. Unscheduled(x)
      BY <3>3, <3>4 DEF Siblings
    <3> QED
      BY <2>2, <3>5 DEF Unscheduled
  <2> QED
    BY <2>2, <2>3 DEF Settles
<1>3. CASE User
  <2>1. event' = event /\ signaled' = signaled
    BY <1>3 DEF User, EvalImpl, Await, Drop, arrayVars
  <2>2. status[x] = "available" \/ Available(x)
    <3>1. CASE \E a \in Arrays : Await(a)
      <4>1. PICK a \in Arrays : Await(a)
        BY <3>1
      <4> QED
        BY <4>1 DEF Await, Types
    <3>2. CASE ~ \E a \in Arrays : Await(a)
      BY <1>3, <3>2 DEF User, EvalImpl, Drop, arrayVars
    <3> QED
      BY <3>1, <3>2
  <2> QED
    BY <2>1, <2>2 DEF Available, Settles
<1>4. CASE \/ WaitForInput \/ EvalArray \/ EvalThrows \/ Throttle \/ WaitForOne \/ OneCompleted
           \/ CheckMemory \/ Publish \/ EndEval \/ EvalReturns \/ Awaited \/ Quiescent
           \/ UNCHANGED vars
  <2>1. signaled' = signaled
    BY <1>4 DEF WaitForInput, EvalArray, EvalThrows, Throttle, WaitForOne, OneCompleted,
       CheckMemory, Publish, EndEval, EvalReturns, Awaited, OnlyMain, Quiescent, vars
  <2>2. CASE Awaited
    BY <2>2 DEF Awaited, Types, Settles
  <2>3. CASE WaitForInput
    BY <2>1, <2>3 DEF WaitForInput, Types, Settles
  <2>4. CASE Publish
    <3>1. event' = event /\ status[x] = "available"
      BY <2>4 DEF Publish
    <3> QED
      BY <2>1, <3>1 DEF Settles
  <2>5. CASE ~Awaited /\ ~WaitForInput /\ ~Publish
    <3>1. event' = event /\ status' = status
      BY <1>4, <2>5 DEF EvalArray, EvalThrows, Throttle, WaitForOne, OneCompleted,
         CheckMemory, EndEval, EvalReturns, OnlyMain, Quiescent, vars, arrayVars
    <3> QED
      BY <2>1, <3>1 DEF Settles
  <2> QED
    BY <2>2, <2>3, <2>4, <2>5
<1> QED
  BY <1>1, <1>2, <1>3, <1>4 DEF Next, Main

\* Entries are consumed one after another, when they are dispatched.
LEMMA FutureStep ==
  ASSUME Faulty = {}, Base, Types', Between, Next \/ UNCHANGED vars,
         NEW y \in Future, y \notin Future'
  PROVE  EvalArray /\ y \in ToSet(InputsOf(m.cur))
<1> USE BaseFacts
<1>0. y \in Arrays /\ graph' = graph
  BY BufferSteps DEF Future
<1>1. pc \in Running
  <2>1. pc = "inputs" => pc \in Running
    BY DEF Running, InBody
  <2> QED
    BY <2>1 DEF Future, Between
<1>2. CASE \/ Quiescent \/ UNCHANGED vars \/ \E s \in Streams : RunStream(s)
           \/ Throttle \/ WaitForOne \/ OneCompleted \/ CheckMemory \/ WaitForInput
  <2>1. m'.tape = m.tape /\ m'.cur = m.cur /\ m'.outs = m.outs /\ pc = "inputs" => pc' = "inputs"
    <3>1. CASE Quiescent \/ UNCHANGED vars \/ \E s \in Streams : RunStream(s)
      BY <3>1, Working DEF Quiescent, vars
    <3>2. CASE Throttle \/ WaitForOne \/ OneCompleted \/ CheckMemory
      BY <3>2, BodySteps DEF Throttle, WaitForOne, OneCompleted, CheckMemory
    <3>3. CASE WaitForInput
      BY <3>3 DEF WaitForInput, Types, Locals
    <3> QED
      BY <1>2, <3>1, <3>2, <3>3
  <2>2. m'.tape = m.tape /\ m'.cur = m.cur /\ m'.outs = m.outs
    <3>1. CASE Quiescent \/ UNCHANGED vars \/ \E s \in Streams : RunStream(s)
      BY <3>1, Working DEF Quiescent, vars
    <3>2. CASE Throttle \/ WaitForOne \/ OneCompleted \/ CheckMemory
      BY <3>2, BodySteps
    <3>3. CASE WaitForInput
      BY <3>3 DEF WaitForInput, Types, Locals
    <3> QED
      BY <1>2, <3>1, <3>2, <3>3
  <2>3. \A a : InputsOf(a)' = InputsOf(a)
    BY <1>0, <2>2 DEF InputsOf
  <2> QED
    BY <2>1, <2>2, <2>3 DEF Future
<1>3. CASE NextEntry
  <2>1. /\ m.tape # <<>> /\ pc = "next" /\ pc' = "inputs" /\ m'.cur = Head(m.tape)
        /\ m'.tape = Tail(m.tape) /\ m'.outs = m.outs
    BY <1>3 DEF NextEntry, Types, Locals
  <2>2. PICK k \in DOMAIN m.tape : y \in ToSet(InputsOf(m.tape[k]))
    BY <2>1 DEF Future
  <2>3. \A a : InputsOf(a)' = InputsOf(a)
    BY <1>0, <2>1 DEF InputsOf
  <2>4. CASE k = 1
    <3>1. m'.cur = m.tape[k]
      BY <2>1, <2>4, TapeFacts
    <3> QED
      BY <1>0, <2>1, <2>2, <2>3, <3>1 DEF Future
  <2>5. CASE k # 1
    <3>1. k - 1 \in DOMAIN m'.tape /\ m'.tape[k - 1] = m.tape[k]
      BY <2>1, <2>2, <2>5, TapeFacts
    <3> QED
      BY <1>0, <2>2, <2>3, <3>1 DEF Future
  <2> QED
    BY <2>4, <2>5
<1>4. CASE EvalArray
  <2>1. m' = m /\ pc = "inputs"
    BY <1>4, EvalArrayAdds
  <2>2. \A a : InputsOf(a)' = InputsOf(a)
    BY <1>0, <2>1 DEF InputsOf
  <2> QED
    BY <1>4, <2>1, <2>2 DEF Future
<1>5. CASE Publish
  <2>1. pc = "publish" /\ pc \in InBody
    BY <1>5 DEF Publish, InBody
  <2>2. m'.tape = m.tape /\ m'.outs = IF m.cur = Sync THEN <<>> ELSE m.outs
    BY <1>5 DEF Publish, Types, Locals
  <2>3. PICK k \in DOMAIN m.tape : y \in ToSet(InputsOf(m.tape[k]))
    BY <2>1 DEF Future
  <2>4. m.cur # Sync
    BY <2>1, <2>3, TapeFacts DEF Schedule, CurrentGood
  <2>5. \A a : InputsOf(a)' = InputsOf(a)
    BY <1>0, <2>2, <2>4 DEF InputsOf
  <2> QED
    BY <1>0, <2>2, <2>3, <2>5 DEF Future
<1>6. CASE User \/ EndEval \/ EvalReturns \/ Awaited
  <2>1. m.tape = <<>> \/ pc \notin Running
    BY <1>6 DEF User, EvalImpl, Await, Drop, EndEval, EvalReturns, Awaited, Running, InBody
  <2>2. pc # "inputs"
    BY <1>6 DEF User, EvalImpl, Await, Drop, EndEval, EvalReturns, Awaited
  <2> QED
    BY <1>1, <2>1, <2>2, TapeFacts DEF Future
<1>7. CASE EvalThrows
  BY <1>7 DEF EvalThrows
<1> QED
  BY <1>2, <1>3, <1>4, <1>5, <1>6, <1>7 DEF Next, Main

\* The last task cpu::eval dispatches holds the entry's buffers.
LEMMA LastHolds ==
  ASSUME Base, Types', EvalArray, NEW s, s = StreamOf(m.cur)
  PROVE  s \in Streams /\ \E i \in DOMAIN queue'[s] :
           i = Len(queue'[s]) /\ IsHold(queue'[s][i], HeldBuffers(m.cur, buf'))
<1> USE BaseFacts
<1>1. PICK a : a = m.cur
  OBVIOUS
<1>2. s \in Streams
  BY <1>1, EvalArrayAdds
<1>3. DOMAIN queue'[s] = 1 .. Len(queue'[s]) /\ Len(queue'[s]) \in Nat
  BY <1>2, ConcatFacts DEF Types
<1>4. PICK k \in Nat :
        IF NoWork(a) THEN /\ DOMAIN queue'[s] = 1 .. k + 1
                          /\ IsHold(queue'[s][k + 1], HeldBuffers(a, buf'))
                     ELSE /\ DOMAIN queue'[s] = 1 .. k + 2
                          /\ IsHold(queue'[s][k + 2], HeldBuffers(a, buf'))
  BY <1>1, EvalArrayAdds
<1>5. CASE NoWork(a)
  BY <1>1, <1>2, <1>3, <1>4, <1>5
<1>6. CASE ~NoWork(a)
  BY <1>1, <1>2, <1>3, <1>4, <1>6
<1> QED
  BY <1>5, <1>6

\* Every step keeps the buffers that are being computed owned: an entry's own
\* buffer by its consumer further on the tape, the others by the task behind it.
LEMMA OwnedStep ==
  ASSUME Faulty = {}, Base, Types', Between, Waited, LiveCurrent, Owned, Next \/ UNCHANGED vars
  PROVE  Owned'
<1> USE BaseFacts
<1> SUFFICES ASSUME NEW w, Owns(w)', NEW b, b = buf'[w], ~Guards(<<b>>, w)'
             PROVE  \E y \in Future' : Placed(y)' /\ buf'[y] = b
  BY DEF Owned
<1>0. w \in Arrays /\ Placed(w)' /\ graph.kind[w] # "views" /\ graph' = graph /\ Val(w) = w
  BY BufferSteps, ValFacts DEF Owns, Types
<1>1. PICK s : s = StreamOf(m.cur)
  OBVIOUS
\* The task that holds the buffers of an entry guards what its stream has seen.
<1>2. ASSUME EvalArray, Sees(s, w)', b \in HeldBuffers(m.cur, buf') PROVE FALSE
  <2>1. PICK i \in DOMAIN queue'[s] :
          i = Len(queue'[s]) /\ IsHold(queue'[s][i], HeldBuffers(m.cur, buf'))
    BY <1>1, <1>2, LastHolds
  <2>2. <<b>> \in Marks(queue'[s][i])
    BY <1>2, <2>1 DEF IsHold, Marks
  <2>3. s \in Streams
    BY <1>1, <1>2, LastHolds
  <2> QED
    BY <1>2, <2>1, <2>2, <2>3, LastGuards
\* The entry in hand has a consumer.
<1>3. ASSUME EvalArray, m.cur \in Arrays, b = buf'[m.cur]
      PROVE  \E y \in Future' : Placed(y)' /\ buf'[y] = b
  <2>1. m' = m /\ Placed(m.cur)'
    BY <1>3, EntryFacts
  <2>2. pc \in InBody /\ m.cur # Sync
    BY <1>3, EntryFacts DEF InBody
  <2>3. PICK k \in DOMAIN m.tape : m.cur \in ToSet(InputsOf(m.tape[k]))
    BY <2>2 DEF Schedule, CurrentGood
  <2>4. InputsOf(m.tape[k])' = InputsOf(m.tape[k])
    BY <1>0, <2>1 DEF InputsOf
  <2>5. m.cur \in Future'
    BY <1>3, <2>1, <2>3, <2>4 DEF Future
  <2> QED
    BY <1>3, <2>1, <2>5
<1>4. CASE ~Placed(w)
  <2>1. EvalArray /\ w \in Outputs(m.cur) /\ m.cur \in Arrays
    BY <1>0, <1>4, PlacedKept
  <2>2. CASE w = m.cur
    BY <1>3, <2>1, <2>2
  <2>3. CASE w # m.cur
    <3>1. ~NoWork(m.cur) /\ m.cur \in Outputs(m.cur) /\ m.cur # Sync
      BY <1>0, <2>1, EntryFacts DEF NoWork
    <3>2. buf'[m.cur] # b
      BY <2>1, <2>3, <3>1, EntryPlaces
    <3>3. b \in HeldBuffers(m.cur, buf')
      BY <2>1, <2>3, <3>1, <3>2 DEF HeldBuffers
    <3>4. Sees(s, w)'
      BY <1>1, <2>1, <3>1, DispatchSees
    <3> QED
      BY <1>2, <2>1, <3>3, <3>4
  <2> QED
    BY <2>2, <2>3
<1>5. CASE Placed(w)
  <2>1. buf[w] = b /\ Owns(w) /\ ~Dispatching(w)
    BY <1>0, <1>5, PlacedKept DEF Owns
  <2>2. ~Guards(<<b>>, w)
    BY <2>1, OrderKept
  <2>3. PICK y \in Future : Placed(y) /\ buf[y] = b
    BY <2>1, <2>2 DEF Owned
  <2>4. y \in Arrays
    BY DEF Future
  <2>5. Placed(y)' /\ buf'[y] = b
    BY <2>3, <2>4, PlacedKept
  <2>6. CASE y \in Future'
    BY <2>5, <2>6
  <2>7. CASE y \notin Future'
    <3>1. EvalArray /\ y \in ToSet(InputsOf(m.cur))
      BY <2>7, FutureStep
    <3>2. pc = "inputs" /\ m.i > Len(InputsOf(m.cur))
      BY <3>1, EvalArrayAdds
    <3>3. PICK k \in DOMAIN InputsOf(m.cur) : InputsOf(m.cur)[k] = y
      BY <3>1 DEF ToSet
    <3>4. k < m.i
      <4>1. InputsOf(m.cur) \in Seq(Arrays) /\ m.i \in Nat
        BY TapeFacts, InputsTyped DEF Types, Locals
      <4> QED
        BY <3>2, <3>3, <4>1
    <3>5. PICK v : v = Val(y)
      OBVIOUS
    <3>6. Sees(s, v)
      BY <1>1, <3>2, <3>3, <3>4, <3>5 DEF Waited
    <3>7. Current(y)
      BY <2>3, <3>2, FutureLive DEF LiveCurrent, GivenAway, Dispatched
    <3>8. Prior(w, v)
      BY <2>1, <2>3, <3>5, <3>7 DEF Current
    <3>9. Sees(s, w)'
      <4>1. Sees(s, w)
        BY <3>6, <3>8, OrderFacts
      <4>2. s \in Streams
        BY <1>1, <3>1, LastHolds
      <4> QED
        BY <2>1, <4>1, <4>2, OrderKept
    <3>10. CASE m.cur = Sync
      <4>1. b \in HeldBuffers(m.cur, buf')
        BY <2>5, <3>1, <3>10 DEF HeldBuffers
      <4> QED
        BY <1>2, <3>1, <3>9, <4>1
    <3>11. CASE m.cur # Sync
      <4>1. m.cur \in Arrays
        BY <3>11, TapeFacts DEF Entries
      <4>2. CASE b = buf'[m.cur]
        BY <1>3, <3>1, <4>1, <4>2
      <4>3. CASE b # buf'[m.cur]
        <5>1. b \in HeldBuffers(m.cur, buf')
          BY <2>5, <3>1, <3>11, <4>3 DEF HeldBuffers
        <5> QED
          BY <1>2, <3>1, <3>9, <5>1
      <4> QED
        BY <4>2, <4>3
    <3> QED
      BY <3>10, <3>11
  <2> QED
    BY <2>6, <2>7
<1> QED
  BY <1>4, <1>5

\* Every step keeps what pending computations will read.
LEMMA ReadsKeptStep ==
  ASSUME Faulty = {}, Base, Types', Between, Waited, LiveCurrent, Owned, Distinct, ReadsKept,
         Next \/ UNCHANGED vars
  PROVE  ReadsKept'
<1> USE BaseFacts
<1>0. graph' = graph
  BY BufferSteps
<1> SUFFICES ASSUME NEW a \in Arrays, Placed(a)', IsValue(a), NEW x \in ToSet(graph.in[a])
             PROVE  /\ \A w : Owns(w)' /\ buf'[w] = buf'[x] => Prior(w, Val(x))' \/ Prior(a, w)'
                    /\ Pend(a)' /\ ~Pend(Val(x))' => content'[buf'[x]] = Val(x)'
  BY <1>0 DEF ReadsKept, IsValue
<1>1. x \in Arrays /\ Placed(x) /\ Val(a) = a
  <2>1. x \in Arrays /\ Val(a) = a
    BY InputFacts, ValFacts DEF Types, IsValue
  <2>2. CASE Placed(a)
    BY <2>1, <2>2 DEF Placement
  <2>3. CASE ~Placed(a)
    BY <2>1, <2>3, PlacedKept, EntryFacts
  <2> QED
    BY <2>1, <2>2, <2>3
<1>2. PICK v : v = Val(x)
  OBVIOUS
<1>3. v = Val(x)' /\ ~Dispatching(v) /\ buf'[x] = buf[x] /\ v \in Arrays
  BY <1>1, <1>2, PlacedKept
<1>4. PICK b : b = buf[x]
  OBVIOUS
\* An input of the entry in hand is as it should be.
<1>5. ASSUME ~Placed(a) PROVE EvalArray /\ a \in Outputs(m.cur) /\ Current(x)
  <2>1. EvalArray /\ a \in Outputs(m.cur) /\ m.cur \in Arrays
    BY <1>5, PlacedKept
  <2>2. x \in ToSet(graph.in[m.cur]) /\ pc = "inputs" /\ m.cur # Sync
    BY <2>1, EntryFacts
  <2>3. x \in Live
    BY <2>2, EntryReady, LiveBy DEF Placeable, Pending
  <2>4. ~GivenAway(x)
    BY <2>2 DEF GivenAway, Dispatched
  <2> QED
    BY <1>1, <2>1, <2>3, <2>4 DEF LiveCurrent
<1>6. ASSUME NEW w, Owns(w)', buf'[w] = b PROVE Prior(w, v)' \/ Prior(a, w)'
  <2>1. w \in Arrays /\ Placed(w)' /\ graph.kind[w] # "views" /\ Val(w) = w
    BY <1>0, <1>6, ValFacts DEF Owns, Types
  <2>2. CASE Placed(w)
    <3>1. Owns(w) /\ buf[w] = b /\ ~Dispatching(w)
      BY <1>6, <2>1, <2>2, PlacedKept DEF Owns
    <3>2. CASE Placed(a)
      <4>1. Prior(w, v) \/ Prior(a, w)
        BY <1>2, <1>4, <3>1, <3>2 DEF ReadsKept
      <4>2. ~Dispatching(a)
        BY <1>1, <3>2, PlacedKept
      <4> QED
        BY <3>1, <4>1, <4>2, OrderKept
    <3>3. CASE ~Placed(a)
      <4>1. Prior(w, v)
        BY <1>2, <1>4, <1>5, <3>1, <3>3 DEF Current
      <4> QED
        BY <3>1, <4>1, OrderKept
    <3> QED
      BY <3>2, <3>3
  <2>3. CASE ~Placed(w)
    <3>1. EvalArray /\ w \in Outputs(m.cur) /\ m.cur \in Arrays
      BY <2>1, <2>3, PlacedKept
    <3>2. ~NoWork(m.cur)
      BY <2>1, <3>1, EntryFacts DEF NoWork
    <3>3. CASE Placed(a)
      BY <1>4, <1>6, <3>1, <3>2, <3>3, ReadersDone
    <3>4. CASE ~Placed(a)
      <4>1. a \in Outputs(m.cur)
        BY <1>5, <3>4
      <4>2. PICK s : s = StreamOf(m.cur)
        OBVIOUS
      <4> QED
        BY <3>1, <3>2, <4>1, <4>2, DispatchSees
    <3> QED
      BY <3>3, <3>4
  <2> QED
    BY <2>2, <2>3
<1>7. ASSUME Pend(a)', ~Pend(v)' PROVE content'[b] = v
  <2>1. CASE ~Placed(a)
    <3>1. content' = content /\ pc' # pc
      BY <1>5, <2>1 DEF EvalArray
    <3>2. ~Pend(v)
      BY <1>7, <3>1, PendSteps, ComputeRuns
    <3> QED
      BY <1>2, <1>4, <1>5, <2>1, <3>1, <3>2 DEF Current
  <2>2. CASE Placed(a)
    <3>1. Pend(a)
      BY <1>1, <1>7, <2>2, PlacedKept, PendSteps
    <3>2. CASE Pend(v)
      BY <1>1, <1>2, <1>4, <1>7, <3>2, PendSteps, Contents
    <3>3. CASE ~Pend(v)
      <4>1. content[b] = v
        BY <1>2, <1>4, <2>2, <3>1, <3>3 DEF ReadsKept
      <4>2. ASSUME NEW s \in Streams, RunCompute(s) PROVE content'[b] = content[b]
        <5> SUFFICES ASSUME NEW o \in Vals(queue[s][1]), buf[o] = b PROVE FALSE
          BY <1>1, <1>4, <4>2, Contents
        <5>1. 1 \in DOMAIN queue[s] /\ queue[s][1].op = "compute" /\ a \notin Vals(queue[s][1])
          BY <1>7, <4>2, ComputeRuns
        <5>2. o \in Arrays /\ Placed(o) /\ IsValue(o) /\ Pend(o)
          BY <5>1, ValsFacts
        <5>3. Prior(o, v) \/ Prior(a, o)
          BY <1>2, <1>4, <2>2, <5>2 DEF ReadsKept, Owns, IsValue
        <5>4. CASE Prior(o, v)
          BY <3>3, <5>2, <5>4, PriorDone
        <5>5. CASE Prior(a, o)
          BY <3>1, <5>1, <5>5, HeadDone
        <5> QED
          BY <5>3, <5>4, <5>5
      <4> QED
        BY <4>1, <4>2, ContentsKept
    <3> QED
      BY <3>2, <3>3
  <2> QED
    BY <2>1, <2>2
<1> QED
  BY <1>2, <1>3, <1>4, <1>6, <1>7

(* What computations find in their buffers *)
Buffered ==
  /\ Between /\ DonorsDoomed /\ LiveCurrent /\ ReadsKept /\ Owned /\ Distinct /\ Settles
Safe == Base /\ Behind /\ Buffered

\* Before any call the leaves are in their buffers, and nothing is pending.
LEMMA BufferedInit == Init => Buffered
<1> SUFFICES ASSUME Init PROVE Buffered
  OBVIOUS
<1>1. Base /\ Between
  BY BaseInit, BetweenInit
<1> USE BaseFacts, <1>1
<1>2. \A v : ~Pend(v)
  BY DEF Init, Pend
<1>3. \A v : (\A k : Guards(k, v)) /\ (\A w : Prior(v, w))
  BY <1>2, OrderFacts
<1>4. pc = "idle" /\ \A x \in Arrays : event[x] = NoEvent
  BY DEF Init
<1>5. ASSUME NEW x \in Arrays, Placed(x)
      PROVE  graph.kind[x] = "leaf" /\ buf[x] = x /\ content[x] = x
  <2>1. graph.kind[x] = "leaf" /\ buf[x] = x
    BY <1>5 DEF Init, Placed
  <2> QED
    BY <2>1 DEF Init, Arrays, Buffers
<1>6. DonorsDoomed
  BY <1>4 DEF DonorsDoomed, GivenAway, Dispatched
<1>7. LiveCurrent
  <2> SUFFICES ASSUME NEW x \in Live, Placed(x) PROVE Current(x)
    BY DEF LiveCurrent
  <2>1. x \in Arrays
    BY LiveFacts
  <2>2. Val(x) = x
    BY <1>5, <2>1, ValFacts DEF Types
  <2> QED
    BY <1>3, <1>5, <2>1, <2>2 DEF Current
<1>8. ReadsKept
  BY <1>2, <1>3 DEF ReadsKept
<1>9. Owned
  BY <1>3 DEF Owned
<1>10. Distinct
  BY <1>5 DEF Distinct, IsValue
<1>11. Settles
  BY <1>4 DEF Settles
<1> QED
  BY <1>6, <1>7, <1>8, <1>9, <1>10, <1>11 DEF Buffered

\* Every step of an engine in which nothing throws keeps all of it.
LEMMA SafeStep ==
  ASSUME Faulty = {}
  PROVE  Safe /\ [Next]_vars => Safe'
<1> SUFFICES ASSUME Safe, [Next]_vars PROVE Safe'
  OBVIOUS
<1> USE DEF Safe, Buffered
<1>1. Base'
  BY BaseStep
<1>2. Types'
  BY <1>1 DEF Base, FenceInv
<1>3. Behind'
  BY <1>2, BehindStep
<1>4. Waited
  BY DEF Behind
<1>5. Between' /\ DonorsDoomed' /\ Distinct' /\ Settles'
  BY <1>2, BaseFacts, BetweenStep, DonorsStep, DistinctStep, SettlesStep
<1> QED
  BY <1>1, <1>2, <1>3, <1>4, <1>5, LiveCurrentStep, ReadsKeptStep, OwnedStep

\* So it holds of every reachable state.
LEMMA SafeHolds ==
  ASSUME Faulty = {}
  PROVE  Spec => []Safe
<1>1. Init => Safe
  BY BaseInit, BehindInit, BufferedInit DEF Safe
<1> QED
  BY <1>1, SafeStep, PTL DEF Spec

\* If nothing throws, a computation about to run finds the values of its inputs
\* in their buffers, on whatever streams they were computed and whatever
\* eval_impl has given away or reused since.
THEOREM ReadsSettledHolds ==
  ASSUME Faulty = {}
  PROVE  Spec => []ReadsSettled
<1>1. Safe => ReadsSettled
  <2> USE BaseFacts
  <2> SUFFICES ASSUME Safe, NEW s \in Streams, Runnable(s, "compute"),
                      NEW r \in Head(queue[s]).reads
               PROVE  content[r[1]] = r[2]
    BY DEF ReadsSettled
  <2>1. Base /\ ReadsPrior /\ ReadsKept
    BY DEF Safe, Behind, Buffered
  <2>2. 1 \in DOMAIN queue[s] /\ Head(queue[s]) = queue[s][1] /\ queue[s][1].op = "compute"
    <3>1. IsSeq(queue[s]) /\ queue[s] # <<>>
      BY <2>1 DEF Runnable, Types
    <3>2. 1 \in DOMAIN queue[s] /\ Head(queue[s]) = queue[s][1]
      BY <3>1 DEF IsSeq
    <3> QED
      BY <3>2 DEF Runnable
  <2>3. PICK a \in Arrays :
          /\ Vals(queue[s][1]) = Outputs(a) /\ a \in Outputs(a) /\ Computes(queue[s][1], a, buf)
          /\ \A o \in Outputs(a) :
               o \in Arrays /\ Placed(o) /\ IsValue(o) /\ Pend(o) /\ graph.in[o] = graph.in[a]
    BY <2>1, <2>2, ValsFacts
  <2>4. PICK x \in ToSet(graph.in[a]) : r = <<buf[x], Val(x)>>
    BY <2>2, <2>3 DEF Computes
  <2>5. PICK v : v = Val(x)
    OBVIOUS
  <2>6. v \notin Outputs(a)
    <3>1. x \in Arrays /\ \A o \in Outputs(a) : x < o
      BY <2>1, <2>3, InputFacts DEF Types
    <3>2. v \in Arrays /\ v <= x
      BY <2>1, <2>5, <3>1, ValBelow DEF Types
    <3> QED
      BY <2>3, <3>1, <3>2 DEF Arrays
  <2>7. Prior(v, a)
    BY <2>1, <2>3, <2>5 DEF ReadsPrior
  <2>8. ~Pend(v)
    BY <2>1, <2>2, <2>3, <2>6, <2>7, HeadDone
  <2>9. content[buf[x]] = v
    BY <2>1, <2>3, <2>5, <2>8 DEF ReadsKept
  <2> QED
    BY <2>4, <2>5, <2>9
<1> QED
  BY <1>1, SafeHolds, PTL

\* A buffer with a pending computation is not free.
LEMMA BusyOwned ==
  ASSUME Base, Between, Owned, NEW w, Owns(w), Pend(w), NEW b, b = buf[w], Free(b)
  PROVE  FALSE
<1> USE BaseFacts
<1>1. /\ \A x \in Live : buf[x] # b
      /\ \A s \in Streams : \A i \in DOMAIN queue[s] : b \notin queue[s][i].holds
  BY FreeFacts
<1>2. PICK k : k = <<b>>
  OBVIOUS
<1>3. \A s \in Streams : \A i \in DOMAIN queue[s] : k \notin Marks(queue[s][i])
  BY <1>1, <1>2, MarkFacts
<1>4. \A s \in Streams : IsSeq(queue[s])
  BY DEF Types
<1>5. ~Guards(k, w)
  BY <1>3, <1>4, OrderFacts
<1> QED
  BY <1>1, <1>2, <1>5, FutureLive DEF Owned

\* If nothing throws, every buffer that a pending computation has a raw pointer
\* to is owned, by a live array or by a task that is not done.
THEOREM PendingBuffersOwnedHolds ==
  ASSUME Faulty = {}
  PROVE  Spec => []PendingBuffersOwned
<1>1. Safe => PendingBuffersOwned
  <2> USE BaseFacts
  <2> SUFFICES ASSUME Safe, NEW s \in Streams, NEW i \in DOMAIN queue[s],
                      NEW p \in queue[s][i].reads \cup queue[s][i].writes, Free(p[1])
               PROVE  FALSE
    BY DEF PendingBuffersOwned
  <2>1. Base /\ Between /\ Owned
    BY DEF Safe, Buffered
  <2>2. queue[s][i].op = "compute"
    BY <2>1 DEF Tasks, TaskGood
  <2>3. PICK a \in Arrays :
          /\ a \in Outputs(a) /\ Computes(queue[s][i], a, buf)
          /\ \A o \in Outputs(a) : o \in Arrays /\ Placed(o) /\ IsValue(o) /\ Pend(o)
    BY <2>1, <2>2, ValsFacts
  <2>4. PICK b : b = p[1]
    OBVIOUS
  <2>5. \/ \E o \in Outputs(a) : b = buf[o]
        \/ \E x \in ToSet(graph.in[a]) : b = buf[x]
    BY <2>3, <2>4 DEF Computes
  <2>6. \A o \in Outputs(a) : Owns(o)
    BY <2>3 DEF Owns, IsValue
  <2>7. CASE \E o \in Outputs(a) : b = buf[o]
    BY <2>1, <2>3, <2>4, <2>6, <2>7, BusyOwned
  <2>8. CASE \E x \in ToSet(graph.in[a]) : b = buf[x]
    <3>1. \A r \in Streams : \A j \in DOMAIN queue[r] : b \notin queue[r][j].holds
      BY <2>1, <2>4, FreeFacts
    <3>2. PICK c \in Outputs(a) : Owns(c) /\ Pend(c) /\ buf[c] = b
      BY <2>1, <2>3, <2>8, <3>1, NotHeld
    <3> QED
      BY <2>1, <2>4, <3>2, BusyOwned
  <2> QED
    BY <2>5, <2>7, <2>8
<1> QED
  BY <1>1, SafeHolds, PTL

\* If nothing throws, between calls every array the user sees as available has
\* been computed, and its value is still in its buffer.
THEOREM AvailableMeansComputedHolds ==
  ASSUME Faulty = {}
  PROVE  Spec => []AvailableMeansComputed
<1>1. Safe => AvailableMeansComputed
  <2> USE BaseFacts
  <2> SUFFICES ASSUME Safe, pc = "idle", NEW a \in Live, Available(a)
               PROVE  content[buf[a]] = Val(a)
    BY DEF AvailableMeansComputed
  <2>1. Base /\ AfterPlaced /\ Quiet /\ LiveCurrent /\ Settles
    BY DEF Safe, Behind, Buffered
  <2>2. a \in Arrays /\ Placed(a)
    <3>1. a \in Arrays /\ ~Unscheduled(a)
      BY <2>1, LiveFacts DEF Available, Unscheduled
    <3> QED
      BY <2>1, <3>1 DEF Placement
  <2>3. event[a] = NoEvent \/ event[a] \in signaled
    BY <2>1, <2>2 DEF Available, Settles
  <2>4. PICK v : v = Val(a)
    OBVIOUS
  <2>5. After(v, a)
    BY <2>1, <2>2, <2>4 DEF AfterPlaced
  <2>6. ~Pend(v)
    <3>1. CASE event[a] = NoEvent
      BY <2>1, <2>2, <2>4, <3>1 DEF Quiet, Running, InBody
    <3>2. CASE event[a] # NoEvent
      BY <2>1, <2>2, <2>3, <2>5, <3>2, SignalMeansDone
    <3> QED
      BY <3>1, <3>2
  <2>7. Current(a)
    BY <2>1, <2>2 DEF LiveCurrent, GivenAway, Dispatched
  <2> QED
    BY <2>4, <2>6, <2>7 DEF Current
<1> QED
  BY <1>1, SafeHolds, PTL

(* The promise of lazy evaluation *)
\* The primitive of x is on the tape of the running evaluation, or in hand.
OnTape(x) == \E t \in (ToSet(m.tape) \cup {m.cur}) \ {Sync} : x \in Outputs(t)

\* The values asked for are those scheduled or on the tape.
LEMMA AskedFacts ==
  /\ \A x : x \in Asked <=> x \in Arrays /\ IsValue(x) /\ (~Unscheduled(x) \/ OnTape(x))
  /\ \A x : x \in Asked' <=>
       x \in Arrays /\ IsValue(x)' /\ (~Unscheduled(x)' \/ OnTape(x)')
BY DEF Asked, OnTape

\* A call of eval starts with a tape, and no entry in hand.
LEMMA EvalStarts ==
  ASSUME NEW outs, NEW async, EvalImpl(async, outs)
  PROVE  /\ pc = "idle" /\ pc' = "next" /\ m'.cur = Sync
         /\ UNCHANGED <<graph, status, computed>>
<1>1. PICK k \in DOMAIN outs, t \in Tapes(outs) :
        m' = [NoEval EXCEPT !.async = async, !.outs = outs,
                            !.home = graph.stream[outs[k]],
                            !.tape = Append(t, Sync),
                            !.needsFence = NeedsFence(t, outs, graph.stream[outs[k]])]
  BY DEF EvalImpl
<1>2. m'.cur = Sync
  BY <1>1 DEF NoEval
<1> QED
  BY <1>2 DEF EvalImpl, arrayVars

\* The inputs of what is on a new tape are on it too, or have been scheduled.
LEMMA TapeInputs ==
  ASSUME Types, Types', Schedule', NEW outs \in Seq(Arrays), NEW async, EvalImpl(async, outs),
         NEW y \in Arrays, OnTape(y)', NEW z \in ToSet(graph.in[y])
  PROVE  ~Unscheduled(z) \/ OnTape(z)'
<1>0. /\ pc = "idle" /\ pc' = "next" /\ graph' = graph /\ status' = status /\ m'.cur = Sync
      /\ IsGraph(graph) /\ m' \in Locals
  BY EvalStarts DEF Types
<1>1. PICK t \in ToSet(m'.tape) \ {Sync} : y \in Outputs(t)'
  BY <1>0 DEF OnTape
<1>2. PICK k \in DOMAIN m'.tape : m'.tape[k] = t
  BY <1>1 DEF ToSet
<1>3. t \in Arrays /\ Outputs(t)' = Outputs(t) /\ InputsOf(t)' = graph.in[t]
  <2>1. m'.tape[k] \in Entries
    BY <1>0, <1>2 DEF Types, Locals
  <2>2. t \in Arrays
    BY <1>1, <1>2, <2>1 DEF Entries
  <2> QED
    BY <1>0, <2>2 DEF Outputs, InputsOf, Sync, Arrays
<1>4. z \in ToSet(InputsOf(t))' /\ z \in Arrays
  <2>1. graph.in[y] = graph.in[t] /\ z \in Arrays
    BY <1>0, <1>1, <1>3, GroupFacts, InputFacts
  <2>2. InputsOf(t)' = graph.in[y]
    BY <1>3, <2>1
  <2> QED
    BY <2>1, <2>2
<1>5. Unscheduled(z) => Before(k, z)'
  <2>1. EntryGood(k)'
    BY <1>0, <1>2 DEF Schedule, Running
  <2>2. Unscheduled(z)' <=> Unscheduled(z)
    BY <1>0 DEF Unscheduled
  <2> QED
    BY <1>2, <1>4, <2>1, <2>2 DEF EntryGood
<1>6. ASSUME Before(k, z)' PROVE OnTape(z)'
  <2>1. PICK j \in DOMAIN m'.tape : m'.tape[j] \in Outputs(z)'
    BY <1>0, <1>6 DEF Before, InBody
  <2>2. PICK u : u = m'.tape[j]
    OBVIOUS
  <2>3. u \in ToSet(m'.tape)
    BY <2>1, <2>2 DEF ToSet
  <2>4. u \in Outputs(z) /\ Outputs(z)' = Outputs(z)
    BY <1>0, <1>4, <2>1, <2>2 DEF Outputs
  <2>5. u \in Arrays /\ u # Sync /\ z \in Outputs(u)
    BY <1>0, <1>4, <2>4, GroupFacts
  <2>6. z \in Outputs(u)'
    BY <1>0, <2>5 DEF Outputs
  <2> QED
    BY <2>3, <2>5, <2>6 DEF OnTape
<1> QED
  BY <1>5, <1>6

\* What is needed for what is on a new tape is on it too, or has been scheduled:
\* of a view, the array whose value it shows.
LEMMA TapeClosed ==
  ASSUME Types, Types', Placement, Schedule', NEW outs \in Seq(Arrays), NEW async,
         EvalImpl(async, outs), NEW x \in Arrays, ~Unscheduled(x) \/ OnTape(x)',
         NEW v, v = Val(x)
  PROVE  ~Unscheduled(v) \/ OnTape(v)'
<1>0. PICK K : K = {y \in Arrays : ~Unscheduled(y) \/ OnTape(y)'}
  OBVIOUS
<1> DEFINE T == {n \in Nat : \A y \in Arrays : y <= n /\ y \in K => Val(y) \in K}
<1>1. /\ pc = "idle" /\ pc' = "next" /\ graph' = graph /\ status' = status /\ m'.cur = Sync
      /\ IsGraph(graph) /\ \A y \in Arrays : y \in Nat /\ y >= 1
  BY EvalStarts DEF Types, Arrays
<1>2. ASSUME NEW y \in Arrays, OnTape(y)', NEW z \in ToSet(graph.in[y]) PROVE z \in K
  <2>1. z \in Arrays
    BY <1>1, <1>2, InputFacts
  <2> QED
    BY <1>0, <1>2, <2>1, TapeInputs
<1>3. \A y \in Arrays : ~Unscheduled(y) => Val(y) \in K
  <2> SUFFICES ASSUME NEW y \in Arrays, ~Unscheduled(y) PROVE Val(y) \in K
    OBVIOUS
  <2>1. PICK w : w = Val(y)
    OBVIOUS
  <2>2. w \in Arrays /\ Placed(w)
    BY <1>1, <2>1, ValFacts, ValPlaced DEF Placement
  <2>3. ~Unscheduled(w)
    BY <1>1, <2>2 DEF Placement, Dispatched
  <2> QED
    BY <1>0, <2>1, <2>2, <2>3
<1>4. 0 \in T
  BY <1>1
<1>5. ASSUME NEW n \in Nat, n \in T PROVE n + 1 \in T
  <2> SUFFICES ASSUME NEW y \in Arrays, y <= n + 1, y \in K PROVE Val(y) \in K
    OBVIOUS
  <2>1. CASE graph.kind[y] # "views"
    BY <1>1, <2>1, ValFacts
  <2>2. CASE ~Unscheduled(y)
    BY <1>3, <2>2
  <2>3. CASE graph.kind[y] = "views" /\ Unscheduled(y)
    <3>1. PICK z : z = graph.in[y][1]
      OBVIOUS
    <3>2. z \in ToSet(graph.in[y]) /\ z \in Arrays /\ z < y /\ Val(y) = Val(z)
      BY <1>1, <2>3, <3>1, ValFacts, InputFacts
    <3>3. OnTape(y)'
      BY <1>0, <2>3
    <3>4. z \in K
      BY <1>2, <3>2, <3>3
    <3>5. z <= n
      BY <1>1, <3>2
    <3> QED
      BY <1>5, <3>2, <3>4, <3>5
  <2> QED
    BY <2>1, <2>2, <2>3
<1> HIDE DEF T
<1>6. \A n \in Nat : n \in T
  BY <1>4, <1>5, NatSetInduction
<1>7. x \in T
  BY <1>1, <1>6
<1> QED
  <2>1. x \in K
    BY <1>0
  <2>2. x <= x
    BY <1>1
  <2>3. v \in K
    BY <1>7, <2>1, <2>2 DEF T
  <2> QED
    BY <1>0, <2>3

\* The abstract values and what they depend on never change.
LEMMA DepsKept ==
  ASSUME graph' = graph
  PROVE  /\ LazyDeps' = LazyDeps
         /\ \A v : IsValue(v)' <=> IsValue(v)
BY DEF LazyDeps, IsValue, Val

\* A call of eval asks for the values of its tape, and for all they need.
LEMMA EvalAsks ==
  ASSUME Base, Base', Between, NEW outs \in Seq(Arrays), NEW async, EvalImpl(async, outs)
  PROVE  Lazy!Next
<1> USE BaseFacts
<1>1. /\ pc = "idle" /\ graph' = graph /\ status' = status /\ computed' = computed
      /\ m'.cur = Sync
  BY EvalStarts
<1>2. Types' /\ Schedule'
  BY DEF Base, FenceInv, PlacedInv
<1>3. PICK S : S = Asked' \ Asked
  OBVIOUS
<1>4. LazyDeps' = LazyDeps /\ \A v : IsValue(v)' <=> IsValue(v)
  BY <1>1, DepsKept
<1>5. \A x : Unscheduled(x)' <=> Unscheduled(x)
  BY <1>1 DEF Unscheduled
<1>6. \A x : ~OnTape(x)
  BY <1>1 DEF Between, OnTape, Running, InBody, ToSet
<1>7. \A x : x \in Asked => x \in Asked'
  BY <1>4, <1>5, <1>6, AskedFacts
<1>8. Asked' = Asked \cup S
  BY <1>3, <1>7
<1>9. S \in SUBSET DOMAIN LazyDeps
  BY <1>3, <1>4, AskedFacts DEF LazyDeps
<1>10. ASSUME NEW v \in S, NEW u \in LazyDeps[v] PROVE u \in Asked'
  <2>1. v \in Arrays /\ IsValue(v) /\ OnTape(v)'
    BY <1>3, <1>4, <1>5, AskedFacts
  <2>2. PICK y \in ToSet(graph.in[v]) : u = Val(y) /\ IsValue(u)
    BY <1>10, <2>1 DEF LazyDeps
  <2>3. y \in Arrays /\ u \in Arrays
    BY <2>1, <2>2, InputFacts, ValFacts DEF Types
  <2>4. ~Unscheduled(y) \/ OnTape(y)'
    BY <1>2, <2>1, <2>2, TapeInputs
  <2>5. ~Unscheduled(u) \/ OnTape(u)'
    BY <1>2, <2>2, <2>3, <2>4, TapeClosed
  <2> QED
    BY <1>4, <1>5, <2>2, <2>3, <2>5, AskedFacts
<1>11. \A v \in S : LazyDeps[v] \subseteq Asked'
  BY <1>10
<1> QED
  BY <1>1, <1>4, <1>8, <1>9, <1>11 DEF Lazy!Next, Lazy!Ask, Lazy!Values

\* Only a call of eval asks for values.
LEMMA AskedKept ==
  ASSUME Faulty = {}, Base, Between, Next \/ UNCHANGED vars,
         ~ \E outs \in Seq(Arrays), async \in BOOLEAN : EvalImpl(async, outs)
  PROVE  LazyDeps' = LazyDeps /\ Asked' = Asked
<1> USE BaseFacts
<1>0. graph' = graph
  BY BufferSteps
<1>1. LazyDeps' = LazyDeps /\ \A v : IsValue(v)' <=> IsValue(v)
  BY <1>0, DepsKept
<1>2. \A t : t # Sync => Outputs(t)' = Outputs(t)
  BY <1>0 DEF Outputs
<1> SUFFICES \A x \in Arrays : ~Unscheduled(x)' \/ OnTape(x)' <=> ~Unscheduled(x) \/ OnTape(x)
  <2>1. \A x : x \in Asked' <=> x \in Asked
    BY <1>1, AskedFacts
  <2> QED
    BY <1>1, <2>1 DEF Asked
\* The outputs of what is scheduled are.
<1>3. ASSUME NEW a \in Arrays, ~Unscheduled(a), NEW x \in Outputs(a) PROVE ~Unscheduled(x)
  <2>1. x \in Arrays /\ a \in Outputs(x)
    BY <1>3, GroupFacts DEF Types
  <2> QED
    BY <1>3, <2>1 DEF Siblings
<1>4. CASE status' = status /\ m'.tape = m.tape /\ m'.cur = m.cur
  BY <1>2, <1>4 DEF Unscheduled, OnTape
<1>5. CASE NextEntry
  <2>1. /\ m.tape # <<>> /\ pc = "next" /\ m'.cur = Head(m.tape) /\ m'.tape = Tail(m.tape)
        /\ status' = status
    BY <1>5 DEF NextEntry, Types, Locals
  <2>2. m.cur = Sync
    BY <2>1 DEF Schedule
  <2>3. ToSet(m.tape) = {Head(m.tape)} \cup ToSet(Tail(m.tape))
    <3>1. /\ Len(m.tape) \in Nat /\ DOMAIN m.tape = 1 .. Len(m.tape)
          /\ Head(m.tape) = m.tape[1] /\ 1 \in DOMAIN m.tape
      BY <2>1, TapeFacts
    <3>2. /\ DOMAIN Tail(m.tape) = 1 .. Len(m.tape) - 1
          /\ \A i \in 1 .. Len(m.tape) - 1 : Tail(m.tape)[i] = m.tape[i + 1]
      BY <2>1, TapeFacts
    <3>3. \A i \in DOMAIN m.tape : i # 1 =>
            i - 1 \in DOMAIN Tail(m.tape) /\ Tail(m.tape)[i - 1] = m.tape[i]
      BY <3>1, <3>2
    <3> QED
      BY <3>1, <3>2, <3>3 DEF ToSet
  <2> QED
    BY <1>2, <2>1, <2>2, <2>3 DEF Unscheduled, OnTape
<1>6. CASE Publish
  <2>1. /\ m'.tape = m.tape /\ m'.cur = Sync
        /\ \A y \in Arrays : status'[y] = IF y \in Outputs(m.cur) THEN "evaluated" ELSE status[y]
    BY <1>6, EntryPublished DEF Publish, Types, Locals
  <2>2. m.cur = Sync => \A y \in Arrays : y \notin Outputs(m.cur)
    BY DEF Outputs, Sync, Arrays
  <2> QED
    BY <1>2, <2>1, <2>2 DEF Unscheduled, OnTape
<1>7. CASE EndEval \/ EvalReturns
  <2>1. m'.tape = <<>> /\ m'.cur = Sync
    BY <1>7, LocalsCleared
  <2>2. status' = status
    BY <1>7 DEF EndEval, EvalReturns, OnlyMain, arrayVars
  <2>3. m.tape = <<>> /\ m.cur = Sync
    BY <1>7 DEF EndEval, EvalReturns, Between, Schedule, Running, InBody
  <2> QED
    BY <1>4, <2>1, <2>2, <2>3
<1>8. CASE Awaited
  <2>1. m'.tape = <<>> /\ m'.cur = Sync
    BY <1>8, LocalsCleared
  <2>2. pc = "await" /\ status' = [status EXCEPT ![m.cur] = "available"]
    BY <1>8 DEF Awaited
  <2>3. m.tape = <<>> /\ m.cur \in Arrays /\ ~Unscheduled(m.cur)
    BY <2>2 DEF Between, Callers, Running, InBody
  <2>4. \A x \in Arrays : Unscheduled(x)' <=> Unscheduled(x)
    BY <2>2, <2>3 DEF Unscheduled, Types
  <2>5. \A x \in Arrays : ~OnTape(x)'
    BY <2>1 DEF OnTape, ToSet
  <2>6. \A x \in Arrays : OnTape(x) => x \in Outputs(m.cur)
    BY <2>3 DEF OnTape, ToSet
  <2> QED
    BY <1>3, <2>3, <2>4, <2>5, <2>6
<1>9. CASE User
  <2>1. PICK a \in Arrays : Await(a) \/ Drop(a)
    BY <1>9, UserStarts
  <2>2. pc = "idle" /\ m.tape = <<>> /\ m.cur = Sync
    BY <2>1 DEF Await, Drop, Between, Running, InBody
  <2>3. CASE Drop(a)
    BY <1>4, <2>3 DEF Drop, arrayVars
  <2>4. CASE Await(a)
    <3>1. ~Unscheduled(a) /\ \A x \in Arrays : Unscheduled(x)' <=> Unscheduled(x)
      BY <2>4 DEF Await, Unscheduled, Types
    <3>2. m'.tape = <<>> /\ m'.cur \in {Sync, a}
      BY <2>2, <2>4 DEF Await, NoEval
    <3>3. \A x \in Arrays : ~OnTape(x)
      BY <2>2 DEF OnTape, ToSet
    <3>4. \A x \in Arrays : OnTape(x)' => x \in Outputs(a)
      BY <1>2, <3>2 DEF OnTape, ToSet
    <3> QED
      BY <1>3, <3>1, <3>3, <3>4
  <2> QED
    BY <2>1, <2>3, <2>4
<1>10. CASE WaitForInput \/ EvalArray \/ Throttle \/ WaitForOne \/ OneCompleted \/ CheckMemory
  BY <1>4, <1>10, BodySteps
<1>11. CASE Quiescent \/ UNCHANGED vars \/ \E s \in Streams : RunStream(s)
  BY <1>4, <1>11, Working DEF Quiescent, vars, arrayVars
<1>12. CASE EvalThrows
  BY <1>12 DEF EvalThrows
<1> QED
  BY <1>5, <1>6, <1>7, <1>8, <1>9, <1>10, <1>11, <1>12 DEF Next, Main

\* What a stream computes was asked for, was not computed before, and needs only
\* what has been.
LEMMA StreamComputes ==
  ASSUME Base, Between, ReadsPrior, ComputedInv, NEW s \in Streams, RunCompute(s),
         LazyDeps' = LazyDeps, Asked' = Asked
  PROVE  Lazy!Next
<1> USE BaseFacts
<1>1. /\ 1 \in DOMAIN queue[s] /\ queue[s][1].op = "compute"
      /\ computed' = computed \cup Vals(queue[s][1])
  BY ComputeRuns
<1>2. PICK a \in Arrays :
        /\ Vals(queue[s][1]) = Outputs(a) /\ a \in Outputs(a)
        /\ \A o \in Outputs(a) :
             o \in Arrays /\ Placed(o) /\ IsValue(o) /\ Pend(o) /\ graph.in[o] = graph.in[a]
  BY <1>1, ValsFacts
<1>3. \A o \in Outputs(a) : o \in Asked /\ o \notin computed
  <2> SUFFICES ASSUME NEW o \in Outputs(a) PROVE o \in Asked /\ o \notin computed
    OBVIOUS
  <2>1. o \notin computed
    BY <1>2 DEF ComputedInv
  <2>2. ~Unscheduled(o) \/ OnTape(o)
    <3> SUFFICES ASSUME Unscheduled(o) PROVE OnTape(o)
      OBVIOUS
    <3>1. pc \in Dispatched /\ o \in Outputs(m.cur)
      BY <1>2 DEF Placement
    <3>2. m.cur # Sync
      BY <1>2, <3>1 DEF Outputs, Sync, Arrays
    <3> QED
      BY <3>1, <3>2 DEF OnTape
  <2> QED
    BY <1>2, <2>1, <2>2, AskedFacts
<1>4. ASSUME NEW o \in Outputs(a), NEW v \in LazyDeps[o] PROVE v \in computed
  <2>1. o \in Arrays /\ IsValue(o) /\ Placed(o) /\ graph.in[o] = graph.in[a]
    BY <1>2
  <2>2. PICK x \in ToSet(graph.in[o]) : v = Val(x) /\ IsValue(v)
    BY <1>4, <2>1 DEF LazyDeps
  <2>3. x \in Arrays /\ Placed(x)
    BY <2>1, <2>2, InputFacts DEF Placement, Types
  <2>4. v \in Arrays /\ Placed(v)
    BY <2>2, <2>3, ValFacts, ValPlaced DEF Types
  <2>5. v \notin Outputs(a)
    <3>1. \A p \in Outputs(a) : x < p
      BY <1>2, <2>1, <2>2, InputFacts DEF Types
    <3>2. v <= x
      BY <2>2, <2>3, ValBelow DEF Types
    <3> QED
      BY <1>2, <2>3, <2>4, <3>1, <3>2 DEF Arrays
  <2>6. Prior(v, o)
    BY <2>1, <2>2 DEF ReadsPrior
  <2>7. ~Pend(v)
    BY <1>1, <1>2, <1>4, <2>5, <2>6, HeadDone
  <2> QED
    BY <2>2, <2>4, <2>7 DEF ComputedInv
<1>5. PICK S : S = Outputs(a)
  OBVIOUS
<1>6. /\ S \in SUBSET Asked /\ S # {} /\ S \cap computed = {}
      /\ \A o \in S : LazyDeps[o] \subseteq computed
      /\ computed' = computed \cup S
  BY <1>1, <1>2, <1>3, <1>4, <1>5
<1>7. Lazy!Compute(S)
  BY <1>6 DEF Lazy!Compute
<1> QED
  BY <1>6, <1>7 DEF Lazy!Next, Lazy!ComputeSome

\* Nothing else computes.
LEMMA ComputedKept ==
  ASSUME Next \/ UNCHANGED vars, ~ \E s \in Streams : RunCompute(s)
  PROVE  computed' = computed
BY DEF Next, User, EvalImpl, Await, Drop, Main, NextEntry, WaitForInput,
   EvalArray, EvalThrows, Throttle, WaitForOne, OneCompleted, CheckMemory, Publish,
   EndEval, EvalReturns, Awaited, OnlyMain, Quiescent, vars, RunStream, RunHold,
   ReleaseBuffers, RunFenceWait, RunFenceUpdate, RunEventWait, RunEventSignal

\* If nothing throws, the engine does what lazy evaluation promises: a call asks
\* for values and for all they need, and every one of them is computed once,
\* after those it is computed from, however the streams are scheduled.
THEOREM ImplementsLazyEvalSafety ==
  ASSUME Faulty = {}
  PROVE  Spec => Lazy!Init /\ [][Lazy!Next]_(Lazy!lazyvars)
<1>1. Init => Safe /\ ComputedInv /\ Lazy!Init
  <2> SUFFICES ASSUME Init PROVE Safe /\ ComputedInv /\ Lazy!Init
    OBVIOUS
  <2>1. Safe /\ ComputedInv
    BY BaseInit, BehindInit, BufferedInit, ComputedInit DEF Safe
  <2>2. computed = {}
    BY DEF Init
  <2>3. Asked = {}
    <3>1. \A x \in Arrays : Unscheduled(x) \/ ~IsValue(x)
      BY DEF Init, Unscheduled, IsValue
    <3>2. \A x : ~OnTape(x)
      BY DEF Init, NoEval, OnTape, ToSet
    <3> QED
      BY <3>1, <3>2, AskedFacts DEF Asked
  <2> QED
    BY <2>1, <2>2, <2>3 DEF Lazy!Init
<1>2. Safe /\ ComputedInv /\ [Next]_vars => ComputedInv'
  BY ComputedStep DEF Safe
<1>3. Safe /\ Safe' /\ ComputedInv /\ [Next]_vars => [Lazy!Next]_(Lazy!lazyvars)
  <2> SUFFICES ASSUME Safe, Safe', ComputedInv, Next \/ UNCHANGED vars
               PROVE  Lazy!Next \/ UNCHANGED <<LazyDeps, Asked, computed>>
    BY DEF Lazy!lazyvars
  <2>1. Base /\ Base' /\ Between /\ ReadsPrior
    BY DEF Safe, Buffered, Behind
  <2>2. CASE \E outs \in Seq(Arrays), async \in BOOLEAN : EvalImpl(async, outs)
    BY <2>1, <2>2, EvalAsks
  <2>3. CASE ~ \E outs \in Seq(Arrays), async \in BOOLEAN : EvalImpl(async, outs)
    <3>1. LazyDeps' = LazyDeps /\ Asked' = Asked
      BY <2>1, <2>3, AskedKept
    <3> QED
      BY <2>1, <3>1, StreamComputes, ComputedKept
  <2> QED
    BY <2>2, <2>3
<1> QED
  BY <1>1, <1>2, <1>3, SafeHolds, PTL DEF Spec

-----------------------------------------------------------------------------
(* No circle of waits *)

\* What a stream is ever given to do.
OpNames == {"compute", "hold", "fenceWait", "fenceUpdate", "eventWait", "eventSignal"}
WaitOps == {"fenceWait", "eventWait"}
Known == \A s \in Streams : \A i \in DOMAIN queue[s] : queue[s][i].op \in OpNames

\* A pending task op for obj that f ranks before the i-th of stream s.
Earlier(f, s, i, op, obj, n) ==
  \E k \in DOMAIN queue[obj[2]] :
    /\ queue[obj[2]][k].op = op /\ queue[obj[2]][k].obj = obj
    /\ queue[obj[2]][k].n >= n /\ f[obj[2]][k] < f[s][i]

\* The ranks f, all below c, never fall along a queue, and what a pending wait
\* waits for has happened or is of a lower rank than the wait.
Ranking(f, c) ==
  /\ \A s \in Streams : \A i \in DOMAIN queue[s] : f[s][i] < c
  /\ \A s \in Streams : \A i, j \in DOMAIN queue[s] : i < j => f[s][i] <= f[s][j]
  /\ \A s \in Streams : \A i \in DOMAIN queue[s] :
       LET t == queue[s][i]
       IN  /\ t.op = "fenceWait" => \/ fenceValue[t.obj] >= t.n
                                    \/ Earlier(f, s, i, "fenceUpdate", t.obj, t.n)
           /\ t.op = "eventWait" => \/ t.obj \in signaled
                                    \/ Earlier(f, s, i, "eventSignal", t.obj, 0)
Ranked == \E f \in [Streams -> [Nat -> Nat]], c \in Nat : Ranking(f, c)

\* wait_for_one counts on more than one active task.
WaitsForOthers == pc = "waiting" => m.nOld > 1

\* The positions of a queue are numbers.
LEMMA Positions ==
  ASSUME Types, NEW s \in Streams
  PROVE  /\ Len(queue[s]) \in Nat /\ DOMAIN queue[s] = 1 .. Len(queue[s])
         /\ queue[s] # <<>> <=> 1 \in DOMAIN queue[s]
         /\ queue[s] # <<>> => Head(queue[s]) = queue[s][1]
<1>1. IsSeq(queue[s])
  BY DEF Types
<1>2. ASSUME NEW q, IsSeq(q)
      PROVE  /\ Len(q) \in Nat /\ DOMAIN q = 1 .. Len(q)
             /\ q # <<>> <=> 1 \in DOMAIN q
             /\ q # <<>> => Head(q) = q[1]
  <2>1. Len(q) \in Nat /\ DOMAIN q = 1 .. Len(q)
    BY <1>2, ConcatFacts
  <2>2. ASSUME q # <<>> PROVE 1 \in DOMAIN q /\ Head(q) = q[1]
    <3>1. Len(q) \in Nat \ {0} /\ DOMAIN q = 1 .. Len(q) /\ Head(q) = q[1]
      BY <1>2, <2>2, TailFacts
    <3> QED
      BY <3>1
  <2>3. 1 \in DOMAIN q => q # <<>>
    OBVIOUS
  <2> QED
    BY <2>1, <2>2, <2>3
<1> QED
  BY <1>1, <1>2

\* Tasks the user's thread adds come after all those that are pending: what they
\* wait for was enqueued before them.
LEMMA GrowthRanked ==
  ASSUME Types, Grows, UNCHANGED <<fenceValue, signaled>>, Ranked,
         Waits', EventWaits',
         \/ \A s \in Streams : \A i \in New(s) : queue'[s][i].op \notin WaitOps
         \/ \A s \in Streams : \A i \in New(s) : queue'[s][i].op \in WaitOps
  PROVE  Ranked'
<1>1. PICK f \in [Streams -> [Nat -> Nat]], c \in Nat : Ranking(f, c)
  BY DEF Ranked
<1>11. PICK g : g = [s \in Streams |->
                      [i \in Nat |-> IF i \in DOMAIN queue[s] THEN f[s][i] ELSE c]]
  OBVIOUS
<1>2. g \in [Streams -> [Nat -> Nat]] /\ c + 1 \in Nat
  BY <1>11
<1>3. \A s \in Streams :
        /\ \A i \in DOMAIN queue[s] :
             i \in DOMAIN queue'[s] /\ queue'[s][i] = queue[s][i] /\ i \in Nat
        /\ \A i \in DOMAIN queue[s] : \A j \in New(s) : i < j /\ j \in Nat
        /\ \A j \in DOMAIN queue'[s] : j \in DOMAIN queue[s] \/ j \in New(s)
        /\ New(s) \cap DOMAIN queue[s] = {}
  BY GrowsFacts DEF New
<1>4. \A s \in Streams :
        /\ \A i \in DOMAIN queue[s] : g[s][i] = f[s][i] /\ f[s][i] \in Nat /\ f[s][i] < c
        /\ \A i \in New(s) : g[s][i] = c
  <2> SUFFICES ASSUME NEW s \in Streams
               PROVE  /\ \A i \in DOMAIN queue[s] :
                           g[s][i] = f[s][i] /\ f[s][i] \in Nat /\ f[s][i] < c
                      /\ \A i \in New(s) : g[s][i] = c
    OBVIOUS
  <2>1. \A i \in DOMAIN queue[s] : i \in Nat /\ f[s][i] < c
    BY <1>1, <1>3 DEF Ranking
  <2>2. \A i \in New(s) : i \in Nat /\ i \notin DOMAIN queue[s]
    <3>1. PICK k \in Nat, l \in Nat :
            DOMAIN queue[s] = 1 .. k /\ DOMAIN queue'[s] = 1 .. k + l
      BY DEF Grows
    <3> QED
      BY <3>1 DEF New
  <2>3. f[s] \in [Nat -> Nat]
    OBVIOUS
  <2> QED
    BY <1>11, <2>1, <2>2, <2>3
<1>5. ASSUME NEW s \in Streams, NEW i \in DOMAIN queue'[s], NEW j \in DOMAIN queue'[s], i < j
      PROVE  g[s][i] <= g[s][j]
  <2>1. CASE i \in DOMAIN queue[s] /\ j \in DOMAIN queue[s]
    BY <1>1, <1>4, <1>5, <2>1 DEF Ranking
  <2>2. CASE j \in New(s)
    BY <1>3, <1>4, <2>2
  <2>3. CASE i \in New(s) /\ j \in DOMAIN queue[s]
    <3>1. i \in Nat /\ j \in Nat /\ j < i
      BY <1>3, <2>3
    <3> QED
      BY <1>5, <3>1
  <2> QED
    BY <1>3, <2>1, <2>2, <2>3
<1>6. ASSUME NEW s \in Streams, NEW i \in DOMAIN queue[s], NEW op, NEW obj, NEW n,
             obj[2] \in Streams, Earlier(f, s, i, op, obj, n)
      PROVE  Earlier(g, s, i, op, obj, n)'
  <2>1. PICK k \in DOMAIN queue[obj[2]] :
          /\ queue[obj[2]][k].op = op /\ queue[obj[2]][k].obj = obj
          /\ queue[obj[2]][k].n >= n /\ f[obj[2]][k] < f[s][i]
    BY <1>6 DEF Earlier
  <2>2. k \in DOMAIN queue'[obj[2]] /\ queue'[obj[2]][k] = queue[obj[2]][k]
    BY <1>3, <1>6
  <2>3. g[obj[2]][k] < g[s][i]
    BY <1>4, <1>6, <2>1
  <2> QED
    BY <2>1, <2>2, <2>3 DEF Earlier
<1>7. ASSUME NEW s \in Streams, NEW i \in New(s), NEW op, NEW obj, NEW n,
             op \notin WaitOps, queue'[s][i].op \in WaitOps,
             obj[2] \in Streams, Coming(obj[2], op, obj, n)'
      PROVE  Earlier(g, s, i, op, obj, n)'
  <2>1. PICK k \in DOMAIN queue'[obj[2]] :
          /\ queue'[obj[2]][k].op = op /\ queue'[obj[2]][k].obj = obj
          /\ queue'[obj[2]][k].n >= n
    BY <1>7 DEF Coming
  <2>2. k \notin New(obj[2])
    BY <1>7, <2>1
  <2>3. k \in DOMAIN queue[obj[2]]
    BY <1>3, <1>7, <2>2
  <2>4. g[obj[2]][k] < g[s][i]
    BY <1>4, <1>7, <2>3
  <2> QED
    BY <2>1, <2>4 DEF Earlier
<1>8. ASSUME NEW s \in Streams, NEW i \in DOMAIN queue'[s], NEW t, t = queue'[s][i]
      PROVE  /\ t.op = "fenceWait" => \/ fenceValue'[t.obj] >= t.n
                                      \/ Earlier(g, s, i, "fenceUpdate", t.obj, t.n)'
             /\ t.op = "eventWait" => \/ t.obj \in signaled'
                                      \/ Earlier(g, s, i, "eventSignal", t.obj, 0)'
  <2>1. CASE i \in DOMAIN queue[s]
    <3>1. t = queue[s][i]
      BY <1>3, <1>8, <2>1
    <3>2. /\ t.op = "fenceWait" => \/ fenceValue[t.obj] >= t.n
                                   \/ Earlier(f, s, i, "fenceUpdate", t.obj, t.n)
          /\ t.op = "eventWait" => \/ t.obj \in signaled
                                   \/ Earlier(f, s, i, "eventSignal", t.obj, 0)
      BY <1>1, <2>1, <3>1 DEF Ranking
    <3>3. t.op \in WaitOps => t.obj[2] \in Streams
      <4>1. CASE t.op = "fenceWait"
        <5>1. GoodWait(t)'
          BY <1>8, <4>1 DEF Waits
        <5> QED
          BY <5>1 DEF GoodWait
      <4>2. CASE t.op = "eventWait"
        <5>1. GoodEventWait(t)'
          BY <1>8, <4>2 DEF EventWaits
        <5> QED
          BY <5>1 DEF GoodEventWait
      <4> QED
        BY <4>1, <4>2 DEF WaitOps
    <3> QED
      BY <1>6, <2>1, <3>2, <3>3 DEF WaitOps
  <2>2. CASE i \in New(s)
    <3>1. ASSUME t.op = "fenceWait"
          PROVE  fenceValue'[t.obj] >= t.n \/ Earlier(g, s, i, "fenceUpdate", t.obj, t.n)'
      <4>1. FenceCovered(t.obj, t.n)' /\ t.obj[2] \in Streams
        <5>1. GoodWait(t)'
          BY <1>8, <3>1 DEF Waits
        <5> QED
          BY <5>1 DEF GoodWait
      <4>2. CASE Coming(t.obj[2], "fenceUpdate", t.obj, t.n)'
        BY <1>7, <1>8, <2>2, <3>1, <4>1, <4>2 DEF WaitOps
      <4> QED
        BY <4>1, <4>2 DEF FenceCovered
    <3>2. ASSUME t.op = "eventWait"
          PROVE  t.obj \in signaled' \/ Earlier(g, s, i, "eventSignal", t.obj, 0)'
      <4>1. EventCovered(t.obj)' /\ t.obj[2] \in Streams
        <5>1. GoodEventWait(t)'
          BY <1>8, <3>2 DEF EventWaits
        <5> QED
          BY <5>1 DEF GoodEventWait
      <4>2. CASE Coming(t.obj[2], "eventSignal", t.obj, 0)'
        BY <1>7, <1>8, <2>2, <3>2, <4>1, <4>2 DEF WaitOps
      <4> QED
        BY <4>1, <4>2 DEF EventCovered
    <3> QED
      BY <3>1, <3>2
  <2> QED
    BY <1>3, <2>1, <2>2
<1>9. \A s \in Streams : \A i \in DOMAIN queue'[s] : g[s][i] < c + 1
  BY <1>3, <1>4
<1>10. Ranking(g, c + 1)'
  BY <1>5, <1>8, <1>9 DEF Ranking
<1> QED
  BY <1>2, <1>10 DEF Ranked

\* A stream that runs a task leaves the ranks of the others as they are, and the
\* waits for what it ran are over.
LEMMA WorkRanked ==
  ASSUME Types, Closing, Updates, Waits, EventWaits, Ranked, NEW s \in Streams, RunStream(s),
         \A p \in SyncIds : fenceValue'[p] >= fenceValue[p]
  PROVE  Ranked'
<1>1. PICK f \in [Streams -> [Nat -> Nat]], c \in Nat : Ranking(f, c)
  BY DEF Ranked
<1>2. CASE RunHold(s)
  <2>1. UNCHANGED <<queue, fenceValue, signaled>>
    BY <1>2 DEF RunHold
  <2>2. \A r, i, op, obj, n : Earlier(f, r, i, op, obj, n)' <=> Earlier(f, r, i, op, obj, n)
    BY <2>1 DEF Earlier
  <2>3. Ranking(f, c)'
    BY <1>1, <2>1, <2>2 DEF Ranking
  <2> QED
    BY <2>3 DEF Ranked
<1>3. CASE ~RunHold(s)
  <2>1. /\ queue[s] # <<>> /\ PopTask(s)
        /\ \/ /\ Head(queue[s]).op \notin {"fenceUpdate", "eventSignal"}
              /\ UNCHANGED <<fenceValue, signaled>>
           \/ /\ Head(queue[s]).op = "fenceUpdate" /\ UNCHANGED signaled
              /\ fenceValue' = [fenceValue EXCEPT ![Head(queue[s]).obj] =
                                  Head(queue[s]).n]
           \/ /\ Head(queue[s]).op = "eventSignal" /\ UNCHANGED fenceValue
              /\ signaled' = signaled \cup {Head(queue[s]).obj}
    BY <1>3, Working
  <2>2. /\ \A r \in Streams : r # s => queue'[r] = queue[r]
        /\ Len(queue[s]) \in Nat \ {0} /\ DOMAIN queue[s] = 1 .. Len(queue[s])
        /\ DOMAIN queue'[s] = 1 .. Len(queue[s]) - 1
        /\ \A i \in 1 .. Len(queue[s]) - 1 : queue'[s][i] = queue[s][i + 1]
        /\ Head(queue[s]) = queue[s][1]
    BY <2>1, Pops
  <2>13. PICK len \in Nat \ {0} : len = Len(queue[s])
    BY <2>2
  <2>15. PICK l \in Nat : l = len - 1
    OBVIOUS
  <2>14. /\ DOMAIN queue[s] = 1 .. l + 1 /\ DOMAIN queue'[s] = 1 .. l
         /\ \A i \in 1 .. l : queue'[s][i] = queue[s][i + 1]
    <3>1. /\ DOMAIN queue[s] = 1 .. len /\ DOMAIN queue'[s] = 1 .. len - 1
          /\ \A i \in 1 .. len - 1 : queue'[s][i] = queue[s][i + 1]
      BY <2>2, <2>13
    <3>2. l + 1 = len
      BY <2>15
    <3> QED
      BY <2>15, <3>1, <3>2
  <2> DEFINE was(r, i) == IF r = s THEN i + 1 ELSE i
  <2>12. PICK g : g = [r \in Streams |-> [i \in Nat |-> f[r][was(r, i)]]]
    OBVIOUS
  <2>3. g \in [Streams -> [Nat -> Nat]]
    BY <2>12
  <2>4. \A r \in Streams : \A i \in DOMAIN queue'[r] :
          /\ i \in Nat /\ was(r, i) \in DOMAIN queue[r] /\ queue'[r][i] = queue[r][was(r, i)]
          /\ g[r][i] = f[r][was(r, i)] /\ f[r][was(r, i)] \in Nat
    <3> SUFFICES ASSUME NEW r \in Streams, NEW i \in DOMAIN queue'[r]
                 PROVE  /\ i \in Nat /\ was(r, i) \in DOMAIN queue[r]
                        /\ queue'[r][i] = queue[r][was(r, i)]
                        /\ g[r][i] = f[r][was(r, i)] /\ f[r][was(r, i)] \in Nat
      OBVIOUS
    <3>1. /\ i \in Nat /\ was(r, i) \in DOMAIN queue[r]
          /\ queue'[r][i] = queue[r][was(r, i)]
      <4>1. CASE r = s
        <5>1. i \in 1 .. l
          BY <2>14, <4>1
        <5>2. i \in Nat /\ i + 1 \in 1 .. l + 1 /\ was(r, i) = i + 1
          BY <4>1, <5>1
        <5> QED
          BY <2>14, <4>1, <5>1, <5>2
      <4>2. CASE r # s
        <5>1. queue'[r] = queue[r] /\ was(r, i) = i
          BY <2>2, <4>2
        <5>2. Len(queue[r]) \in Nat /\ DOMAIN queue[r] = 1 .. Len(queue[r])
          BY Positions
        <5>3. i \in 1 .. Len(queue[r])
          BY <5>1, <5>2
        <5>4. i \in Nat
          BY <5>2, <5>3
        <5> QED
          BY <5>1, <5>2, <5>3, <5>4
      <4> QED
        BY <4>1, <4>2
    <3>2. was(r, i) \in Nat /\ f[r] \in [Nat -> Nat]
      BY <3>1
    <3> QED
      BY <2>12, <3>1, <3>2
  <2>5. \A r \in Streams : \A k \in DOMAIN queue[r] :
          (r = s /\ k = 1) \/ \E i \in DOMAIN queue'[r] : was(r, i) = k
    <3> SUFFICES ASSUME NEW r \in Streams, NEW k \in DOMAIN queue[r], ~(r = s /\ k = 1)
                 PROVE  \E i \in DOMAIN queue'[r] : was(r, i) = k
      OBVIOUS
    <3>1. CASE r = s
      <4>1. k \in 1 .. l + 1 /\ k # 1
        BY <2>14, <3>1
      <4>2. k - 1 \in DOMAIN queue'[s] /\ was(s, k - 1) = k
        BY <2>14, <4>1
      <4> QED
        BY <3>1, <4>2
    <3>2. CASE r # s
      BY <2>2, <3>2
    <3> QED
      BY <3>1, <3>2
  <2>6. \A r \in Streams : \A i, j \in DOMAIN queue'[r] : i < j => was(r, i) < was(r, j)
    BY <2>4
  <2> HIDE DEF was
  <2>7. ASSUME NEW r \in Streams, NEW i \in DOMAIN queue'[r], NEW op, NEW obj, NEW n,
               obj[2] \in Streams, Earlier(f, r, was(r, i), op, obj, n)
        PROVE  \/ Earlier(g, r, i, op, obj, n)'
               \/ queue[s][1].op = op /\ queue[s][1].obj = obj /\ queue[s][1].n >= n
    <3>1. PICK k \in DOMAIN queue[obj[2]] :
            /\ queue[obj[2]][k].op = op /\ queue[obj[2]][k].obj = obj
            /\ queue[obj[2]][k].n >= n /\ f[obj[2]][k] < f[r][was(r, i)]
      BY <2>7 DEF Earlier
    <3>2. CASE obj[2] = s /\ k = 1
      BY <3>1, <3>2
    <3>3. CASE ~(obj[2] = s /\ k = 1)
      <4>1. PICK j \in DOMAIN queue'[obj[2]] : was(obj[2], j) = k
        BY <2>5, <2>7, <3>3
      <4>2. queue'[obj[2]][j] = queue[obj[2]][k] /\ g[obj[2]][j] < g[r][i]
        BY <2>4, <2>7, <3>1, <4>1
      <4> QED
        BY <3>1, <4>2 DEF Earlier
    <3> QED
      BY <3>2, <3>3
  <2>8. ASSUME NEW r \in Streams, NEW i \in DOMAIN queue'[r], NEW t, t = queue'[r][i]
        PROVE  /\ t.op = "fenceWait" => \/ fenceValue'[t.obj] >= t.n
                                        \/ Earlier(g, r, i, "fenceUpdate", t.obj, t.n)'
               /\ t.op = "eventWait" => \/ t.obj \in signaled'
                                        \/ Earlier(g, r, i, "eventSignal", t.obj, 0)'
    <3>1. was(r, i) \in DOMAIN queue[r] /\ t = queue[r][was(r, i)]
      BY <2>4, <2>8
    <3>2. ASSUME t.op = "fenceWait"
          PROVE  \/ fenceValue'[t.obj] >= t.n
                 \/ Earlier(g, r, i, "fenceUpdate", t.obj, t.n)'
      <4>1. GoodWait(t)
        BY <3>1, <3>2 DEF Waits
      <4>2. /\ t.n \in Nat /\ t.obj \in SyncIds /\ t.obj[2] \in Streams
            /\ fenceValue[t.obj] \in Nat
        BY <4>1, SyncIdOf DEF GoodWait
      <4>4. CASE fenceValue[t.obj] >= t.n
        <5>1. fenceValue'[t.obj] \in Nat
          BY <4>2, StreamTypes DEF Types
        <5>2. fenceValue'[t.obj] >= fenceValue[t.obj]
          BY <4>2
        <5> QED
          BY <4>2, <4>4, <5>1, <5>2
      <4>5. CASE Earlier(f, r, was(r, i), "fenceUpdate", t.obj, t.n)
        <5>1. CASE /\ queue[s][1].op = "fenceUpdate" /\ queue[s][1].obj = t.obj
                   /\ queue[s][1].n >= t.n
          <6>1. fenceValue' = [fenceValue EXCEPT ![t.obj] = queue[s][1].n]
            BY <2>1, <2>2, <5>1
          <6>2. fenceValue'[t.obj] = queue[s][1].n
            BY <4>2, <6>1 DEF Types
          <6> QED
            BY <5>1, <6>2
        <5> QED
          BY <2>7, <4>2, <4>5, <5>1
      <4> QED
        BY <1>1, <3>1, <3>2, <4>4, <4>5 DEF Ranking
    <3>3. ASSUME t.op = "eventWait"
          PROVE  t.obj \in signaled' \/ Earlier(g, r, i, "eventSignal", t.obj, 0)'
      <4>1. t.obj[2] \in Streams
        <5>1. GoodEventWait(t)
          BY <3>1, <3>3 DEF EventWaits
        <5> QED
          BY <5>1 DEF GoodEventWait
      <4>2. signaled \subseteq signaled'
        BY <2>1
      <4>3. CASE Earlier(f, r, was(r, i), "eventSignal", t.obj, 0)
        <5>1. CASE queue[s][1].op = "eventSignal" /\ queue[s][1].obj = t.obj
          BY <2>1, <2>2, <5>1
        <5> QED
          BY <2>7, <4>1, <4>3, <5>1
      <4> QED
        BY <1>1, <3>1, <3>3, <4>2, <4>3 DEF Ranking
    <3> QED
      BY <3>2, <3>3
  <2>9. \A r \in Streams : \A i \in DOMAIN queue'[r] : g[r][i] < c
    BY <1>1, <2>4 DEF Ranking
  <2>10. \A r \in Streams : \A i, j \in DOMAIN queue'[r] : i < j => g[r][i] <= g[r][j]
    BY <1>1, <2>4, <2>6 DEF Ranking
  <2>11. Ranking(g, c)'
    BY <2>8, <2>9, <2>10 DEF Ranking
  <2> QED
    BY <2>3, <2>11 DEF Ranked
<1> QED
  BY <1>2, <1>3

\* What the user's thread adds in one step is waits only, or no waits.
LEMMA NewTasks ==
  ASSUME Types, User \/ Main \/ Quiescent \/ UNCHANGED vars
  PROVE  /\ Grows /\ \A s \in Streams : \A i \in New(s) : queue'[s][i].op \in OpNames
         /\ \/ \A s \in Streams : \A i \in New(s) : queue'[s][i].op \notin WaitOps
            \/ \A s \in Streams : \A i \in New(s) : queue'[s][i].op \in WaitOps
<1>0. Grows
  BY Growth
<1>1. \/ WaitForInput \/ EvalArray \/ Publish \/ EndEval \/ UNCHANGED queue
  BY DEF User, EvalImpl, Await, Drop, Quiescent, vars, Main, NextEntry, EvalThrows,
     Throttle, WaitForOne, OneCompleted, CheckMemory, EvalReturns, Awaited, OnlyMain,
     streamVars
<1>2. ASSUME \A s \in Streams : \A i \in New(s) : queue'[s][i].op \in WaitOps
      PROVE  \A s \in Streams : \A i \in New(s) : queue'[s][i].op \in OpNames
  BY <1>2 DEF WaitOps, OpNames
<1>3. ASSUME \A s \in Streams : \A i \in New(s) : queue'[s][i].op \in OpNames \ WaitOps
      PROVE  /\ \A s \in Streams : \A i \in New(s) : queue'[s][i].op \in OpNames
             /\ \A s \in Streams : \A i \in New(s) : queue'[s][i].op \notin WaitOps
  BY <1>3
<1>4. CASE UNCHANGED queue
  BY <1>0, <1>4, NothingAdded
<1>5. CASE WaitForInput
  <2>1. \A s \in Streams : \A i \in New(s) : queue'[s][i].op \in WaitOps
    <3> SUFFICES ASSUME NEW s \in Streams, NEW i \in New(s)
                 PROVE  queue'[s][i].op \in WaitOps
      OBVIOUS
    <3>1. \E x, y : queue'[s][i] = FenceWait(x, y) \/ queue'[s][i] = EventWait(x)
      BY <1>5, WaitAdds
    <3> QED
      BY <3>1, TaskFields DEF WaitOps
  <2> QED
    BY <1>0, <1>2, <2>1
<1>6. CASE EvalArray
  <2>1. \A s \in Streams : \A i \in New(s) : queue'[s][i].op \in {"compute", "hold"}
    BY <1>6, DispatchAdds
  <2> QED
    BY <1>0, <1>3, <2>1 DEF OpNames, WaitOps
<1>7. CASE Publish
  <2>1. ASSUME NEW s \in Streams, NEW i \in New(s)
        PROVE  \E x, y : queue'[s][i] = FenceUpdate(x, y)
    <3>1. s = StreamOf(m.cur)
      BY <1>7, <2>1, PublishAdds
    <3>2. Fenced \in Nat
      BY <1>7, PublishAdds
    <3>3. PICK k \in Nat :
            /\ DOMAIN queue[s] = 1 .. k /\ DOMAIN queue'[s] = 1 .. k + Fenced
            /\ \A j \in 1 .. Fenced :
                 queue'[s][k + j] = FenceUpdate(FenceOf(s), m.fenceCount[s] + j)
      BY <1>7, <3>1, PublishAdds
    <3>4. i - k \in 1 .. Fenced /\ i = k + (i - k)
      BY <2>1, <3>2, <3>3 DEF New
    <3> QED
      BY <3>3, <3>4
  <2>2. \A s \in Streams : \A i \in New(s) : queue'[s][i].op = "fenceUpdate"
    BY <2>1, TaskFields
  <2> QED
    BY <1>0, <1>3, <2>2 DEF OpNames, WaitOps
<1>8. CASE EndEval
  <2>1. ASSUME NEW s \in Streams, NEW i \in New(s) PROVE queue'[s][i].op = "eventSignal"
    <3>1. queue'[s][i] = EventSignal(<<evals, s>>)
      BY <1>8, SignalsAdded
    <3> QED
      BY <3>1, TaskFields
  <2> QED
    BY <1>0, <1>3, <2>1 DEF OpNames, WaitOps
<1> QED
  BY <1>1, <1>4, <1>5, <1>6, <1>7, <1>8

\* Every task is of a kind the streams know.
LEMMA KnownStep ==
  ASSUME Types, Closing, Known, Next \/ UNCHANGED vars
  PROVE  Known'
<1>1. ASSUME Grows, \A s \in Streams : \A i \in New(s) : queue'[s][i].op \in OpNames
      PROVE  Known'
  <2> SUFFICES ASSUME NEW s \in Streams, NEW i \in DOMAIN queue'[s]
               PROVE  queue'[s][i].op \in OpNames
    BY DEF Known
  <2>1. i \in New(s) \/ (i \in DOMAIN queue[s] /\ queue'[s][i] = queue[s][i])
    BY <1>1, GrowsFacts
  <2> QED
    BY <1>1, <2>1 DEF Known
<1>2. CASE User \/ Main \/ Quiescent \/ UNCHANGED vars
  BY <1>1, <1>2, NewTasks
<1>3. ASSUME NEW s \in Streams, RunStream(s) PROVE Known'
  <2>1. CASE RunHold(s)
    BY <2>1 DEF RunHold, Known
  <2>2. CASE ~RunHold(s)
    <3>1. queue[s] # <<>> /\ PopTask(s)
      BY <1>3, <2>2, Working
    <3>2. ASSUME NEW r \in Streams, NEW i \in DOMAIN queue'[r]
          PROVE  \E j \in DOMAIN queue[r] : queue'[r][i] = queue[r][j]
      <4>1. CASE r # s
        BY <3>1, <3>2, <4>1, Pops
      <4>2. CASE r = s
        <5>1. PICK len \in Nat \ {0} : len = Len(queue[s])
          BY <3>1, Pops
        <5>2. /\ DOMAIN queue[s] = 1 .. len /\ DOMAIN queue'[s] = 1 .. len - 1
              /\ \A k \in 1 .. len - 1 : queue'[s][k] = queue[s][k + 1]
          BY <3>1, <5>1, Pops
        <5>3. i \in 1 .. len - 1 /\ i + 1 \in 1 .. len
          BY <3>2, <4>2, <5>2
        <5> QED
          BY <4>2, <5>2, <5>3
      <4> QED
        BY <4>1, <4>2
    <3> QED
      BY <3>2 DEF Known
  <2> QED
    BY <2>1, <2>2
<1> QED
  BY <1>2, <1>3 DEF Next

\* The ranks are kept by every step.
LEMMA RankedStep ==
  ASSUME FenceInv, FenceInv', EventWaits, EventWaits', Ranked, Next \/ UNCHANGED vars
  PROVE  Ranked'
<1> USE DEF FenceInv
<1>1. CASE User \/ Main \/ Quiescent \/ UNCHANGED vars
  <2>1. Grows /\ UNCHANGED <<fenceValue, signaled>>
    BY <1>1, Growth
  <2>2. \/ \A s \in Streams : \A i \in New(s) : queue'[s][i].op \notin WaitOps
        \/ \A s \in Streams : \A i \in New(s) : queue'[s][i].op \in WaitOps
    BY <1>1, NewTasks
  <2> QED
    BY <2>1, <2>2, GrowthRanked
<1>2. ASSUME NEW s \in Streams, RunStream(s) PROVE Ranked'
  BY <1>2, WorkRanked, FenceAdvances
<1> QED
  BY <1>1, <1>2 DEF Next

\* Only more than one active task makes the user's thread wait for one of them.
LEMMA WaitsForOthersStep ==
  ASSUME Types, Closing, WaitsForOthers, Next \/ UNCHANGED vars
  PROVE  WaitsForOthers'
<1>1. CASE User
  BY <1>1 DEF User, EvalImpl, Await, Drop, WaitsForOthers
<1>2. CASE Main
  BY <1>2 DEF Main, NextEntry, WaitForInput, EvalArray, EvalThrows, Throttle,
     WaitForOne, OneCompleted, CheckMemory, Publish, EndEval, EvalReturns,
     Awaited, OnlyMain, WaitsForOthers, Types, Locals
<1>3. CASE Quiescent \/ UNCHANGED vars
  BY <1>3 DEF Quiescent, vars, WaitsForOthers
<1>4. ASSUME NEW s \in Streams, RunStream(s) PROVE WaitsForOthers'
  BY <1>4, Working DEF WaitsForOthers
<1> QED
  BY <1>1, <1>2, <1>3, <1>4 DEF Next

\* A rank that is at most those of the heads is at most those of all tasks.
LEMMA RanksAbove ==
  ASSUME Types, NEW f \in [Streams -> [Nat -> Nat]], NEW c \in Nat, Ranking(f, c),
         NEW s \in Streams, \A r \in Streams : 1 \in DOMAIN queue[r] => f[s][1] <= f[r][1]
  PROVE  \A r \in Streams : \A k \in DOMAIN queue[r] : ~(f[r][k] < f[s][1])
<1> SUFFICES ASSUME NEW r \in Streams, NEW k \in DOMAIN queue[r]
             PROVE  ~(f[r][k] < f[s][1])
  OBVIOUS
<1>1. PICK len \in Nat : len = Len(queue[r]) /\ DOMAIN queue[r] = 1 .. len
  BY Positions
<1>2. k \in 1 .. len
  BY <1>1
<1>3. k \in Nat /\ k >= 1 /\ 1 \in DOMAIN queue[r]
  <2>1. k \in Nat /\ k >= 1 /\ 1 \in 1 .. len
    BY <1>2
  <2> QED
    BY <1>1, <2>1
<1>5. f[r][1] \in Nat /\ f[r][k] \in Nat /\ f[s][1] \in Nat
  BY <1>3
<1>6. f[r][1] <= f[r][k]
  <2>1. CASE k = 1
    BY <1>5, <2>1
  <2>2. CASE 1 < k
    BY <1>3, <2>2 DEF Ranking
  <2> QED
    BY <1>3, <2>1, <2>2
<1> QED
  BY <1>3, <1>5, <1>6

\* Of the streams with tasks, the one whose head has the lowest rank can go on.
LEMMA LowestRuns ==
  ASSUME Types, Known, Waits, EventWaits, Ranked,
         NEW s0 \in Streams, queue[s0] # <<>>
  PROVE  \E s \in Streams : CanRun(s)
<1>1. PICK f \in [Streams -> [Nat -> Nat]], c \in Nat : Ranking(f, c)
  BY DEF Ranked
<1>13. \A r \in Streams : 1 \in DOMAIN queue[r] <=> queue[r] # <<>>
  BY Positions
<1> DEFINE Heads == {f[s][1] : s \in {r \in Streams : 1 \in DOMAIN queue[r]}}
<1>2. Heads \subseteq Nat /\ Heads # {}
  BY <1>13
<1>12. PICK n \in Heads : \A k \in Heads : n <= k
  BY <1>2, LeastNat
<1>4. PICK s \in Streams : 1 \in DOMAIN queue[s] /\ f[s][1] = n
  BY <1>12
<1>3. \A r \in Streams : 1 \in DOMAIN queue[r] => f[s][1] <= f[r][1]
  BY <1>4, <1>12
<1> HIDE DEF Heads
<1>5. queue[s] # <<>> /\ 1 \in DOMAIN queue[s] /\ Head(queue[s]) = queue[s][1]
  BY <1>4, <1>13, Positions
<1>6. ASSUME NEW op, NEW obj, NEW lim, obj[2] \in Streams, Earlier(f, s, 1, op, obj, lim)
      PROVE  FALSE
  <2>1. \A r \in Streams : \A k \in DOMAIN queue[r] : ~(f[r][k] < f[s][1])
    BY <1>1, <1>3, <1>4, RanksAbove
  <2> QED
    BY <1>6, <2>1 DEF Earlier
<1>7. PICK t : t = queue[s][1]
  OBVIOUS
<1>8. t.op = "fenceWait" => fenceValue[t.obj] >= t.n
  <2> SUFFICES ASSUME t.op = "fenceWait" PROVE fenceValue[t.obj] >= t.n
    OBVIOUS
  <2>1. GoodWait(t)
    BY <1>5, <1>7 DEF Waits
  <2>2. t.obj[2] \in Streams
    BY <2>1 DEF GoodWait
  <2>3. fenceValue[t.obj] >= t.n \/ Earlier(f, s, 1, "fenceUpdate", t.obj, t.n)
    BY <1>1, <1>5, <1>7 DEF Ranking
  <2> QED
    BY <1>6, <2>2, <2>3
<1>9. t.op = "eventWait" => t.obj \in signaled
  <2> SUFFICES ASSUME t.op = "eventWait" PROVE t.obj \in signaled
    OBVIOUS
  <2>1. GoodEventWait(t)
    BY <1>5, <1>7 DEF EventWaits
  <2>2. t.obj[2] \in Streams
    BY <2>1 DEF GoodEventWait
  <2>3. t.obj \in signaled \/ Earlier(f, s, 1, "eventSignal", t.obj, 0)
    BY <1>1, <1>5, <1>7 DEF Ranking
  <2> QED
    BY <1>6, <2>2, <2>3
<1>10. t.op \in OpNames
  BY <1>5, <1>7 DEF Known
<1>11. CanRun(s)
  BY <1>5, <1>7, <1>8, <1>9, <1>10 DEF CanRun, OpNames
<1> QED
  BY <1>11

\* Whatever the user's thread is blocked on, some stream has a task.
LEMMA BlockedOnTask ==
  ASSUME Types, Counted, WaitsForOthers, EventWaitsCovered, Callers, EventsGood,
         MainBlocked
  PROVE  \E s \in Streams : queue[s] # <<>>
<1>1. ASSUME NEW e, e[2] \in Streams, EventCovered(e), e \notin signaled
      PROVE  \E s \in Streams : queue[s] # <<>>
  <2>1. PICK i : i \in DOMAIN queue[e[2]]
    BY <1>1 DEF EventCovered, Coming
  <2>2. queue[e[2]] # <<>>
    BY <2>1
  <2> QED
    BY <1>1, <2>2
<1>2. CASE pc = "waiting" /\ nActive >= m.nOld
  <2>1. nActive \in Int /\ m.nOld \in Int /\ m.nOld > 1
    BY <1>2 DEF Types, Locals, WaitsForOthers
  <2>2. Pairs(NotRun) # {}
    <3>1. Cardinality(Pairs(NotRun)) # 0
      BY <1>2, <2>1 DEF Counted
    <3> QED
      BY <3>1, FS_EmptySet
  <2>3. PICK s \in Streams : \E i : i \in NotRun[s]
    BY <2>2, PairsFacts
  <2>4. \E i : i \in DOMAIN queue[s]
    BY <2>3 DEF NotRun
  <2>5. queue[s] # <<>>
    BY <2>4
  <2> QED
    BY <2>5
<1>3. CASE pc = "sync" /\ <<evals, m.home>> \notin signaled
  <2>1. m.home \in Streams /\ EventCovered(<<evals, m.home>>)
    BY <1>3 DEF Types, Locals, EventWaitsCovered
  <2> QED
    BY <1>1, <1>3, <2>1
<1>4. CASE pc = "await" /\ event[m.cur] \notin signaled
  <2>1. m.cur \in Arrays /\ event[m.cur] # NoEvent
    BY <1>4 DEF Callers
  <2>2. event[m.cur][2] \in Streams
    BY <2>1 DEF Types, SyncIds
  <2>3. EventCovered(event[m.cur])
    BY <1>4 DEF EventWaitsCovered
  <2> QED
    BY <1>1, <1>4, <2>2, <2>3
<1> QED
  BY <1>2, <1>3, <1>4 DEF MainBlocked

\* The inductive invariant behind NoDeadlock.
DeadlockInv == FenceInv /\ EventInv /\ Counted /\ Known /\ Ranked /\ WaitsForOthers

\* There is nothing to rank before any call.
LEMMA DeadlockInit == Init => DeadlockInv
<1> SUFFICES ASSUME Init PROVE DeadlockInv
  OBVIOUS
<1>1. FenceInv /\ EventInv /\ Counted
  BY FenceInvInit, EventInvInit, CountedInit
<1>2. \A s \in Streams : DOMAIN queue[s] = {}
  BY DEF Init
<1>3. Known /\ WaitsForOthers
  BY <1>2 DEF Init, Known, WaitsForOthers
<1>4. Ranked
  <2>1. PICK f : f = [s \in Streams |-> [i \in Nat |-> 0]]
    OBVIOUS
  <2>2. f \in [Streams -> [Nat -> Nat]] /\ Ranking(f, 0)
    BY <1>2, <2>1 DEF Ranking
  <2> QED
    BY <2>2 DEF Ranked
<1> QED
  BY <1>1, <1>3, <1>4 DEF DeadlockInv

\* Without exceptions the streams never end up waiting for each other in a circle,
\* whatever fences and events cross between them: whenever a task is queued or the
\* user's thread is blocked, some stream can go on.
THEOREM NoDeadlockHolds ==
  ASSUME Faulty = {}
  PROVE  Spec => []NoDeadlock
<1>1. DeadlockInv /\ [Next]_vars => DeadlockInv'
  <2> SUFFICES ASSUME DeadlockInv, [Next]_vars PROVE DeadlockInv'
    OBVIOUS
  <2>1. FenceInv' /\ EventInv'
    BY FenceInvStep, EventInvStep DEF DeadlockInv
  <2>2. Counted'
    BY CountedStep DEF DeadlockInv, FenceInv
  <2>3. Ranked'
    BY <2>1, RankedStep DEF DeadlockInv, EventInv
  <2>4. Known' /\ WaitsForOthers'
    BY KnownStep, WaitsForOthersStep DEF DeadlockInv, FenceInv
  <2> QED
    BY <2>1, <2>2, <2>3, <2>4 DEF DeadlockInv
<1>2. DeadlockInv /\ EventWaitsCovered => NoDeadlock
  <2> SUFFICES ASSUME DeadlockInv, EventWaitsCovered,
                      MainBlocked \/ \E s \in Streams : queue[s] # <<>>
               PROVE  \E s \in Streams : CanRun(s)
    BY DEF NoDeadlock
  <2>1. PICK s \in Streams : queue[s] # <<>>
    BY BlockedOnTask DEF DeadlockInv, FenceInv, EventInv
  <2> QED
    BY <2>1, LowestRuns DEF DeadlockInv, FenceInv, EventInv
<1> QED
  BY <1>1, <1>2, DeadlockInit, EventWaitsCoveredHolds, PTL DEF Spec
=============================================================================
