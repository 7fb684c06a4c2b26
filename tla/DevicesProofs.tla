--------------------------- MODULE DevicesProofs ---------------------------
(***************************************************************************)
(* Theorems about the commands of the GPUs, as MCDevices puts them         *)
(* together, for any buffers, kernels, limits and bounds.                  *)
(*   The completion handlers of a CUDA stream run after their kernels      *)
(* (mlx/backend/cuda/worker.cpp).                                          *)
(*   Kernels that conflict on a buffer run in the order they were encoded, *)
(* on Metal (mlx/backend/metal/device.cpp) through hazard tracking,        *)
(* barriers and fences, and on CUDA (mlx/backend/cuda/device.cpp) through  *)
(* the edges of the graph: first Metal, its commands and its invariant,    *)
(* then CUDA, then the theorem about both.                                 *)
(***************************************************************************)
EXTENDS MCDevices, Induction, SequenceTheorems, TLAPS

-----------------------------------------------------------------------------
(* The completion handlers of a CUDA stream *)

\* A handler, with the number of kernels encoded before it was added.
Handler == [frees : SUBSET Buffers, after : Nat, promise : BOOLEAN]

\* node_count_ is a char: what a program may encode at once must leave it positive.
NodeCountFits == MaxNodes <= 126 /\ \A n \in BatchSizes : MaxNodes + n <= 127

\* The last kernel of what has been launched.
Frontier == IF flying = <<>> THEN finished ELSE flying[Len(flying)]

\* What the variables of CudaCommands range over.
CudaTypes ==
  /\ live \subseteq Buffers /\ temporaries \subseteq Buffers
  /\ encoded \in Nat /\ finished \in Nat /\ committed \in Nat /\ signaled \in Nat
  /\ graph.count \in Nat
  /\ flying \in Seq(Nat) /\ signals \in Seq(Nat)
  /\ pending = <<>> /\ tasks \in Seq(Handler)
  /\ DOMAIN batches \subseteq 1 .. committed
  /\ \A k \in DOMAIN batches : batches[k] \in Seq(Handler)

\* Graphs finish in the order of their kernels, and a graph without a node
\* has nothing that was not launched.
Launches ==
  /\ finished <= encoded
  /\ \A i \in DOMAIN flying : finished <= flying[i] /\ flying[i] <= encoded
  /\ \A i, j \in DOMAIN flying : i < j => flying[i] <= flying[j]
  /\ graph.count < MaxNodes
  /\ graph.count = 0 => encoded = Frontier

\* The kernels batch k waits for.
Due(k) == IF k <= signaled THEN finished ELSE signals[k - signaled]

\* A batch that is not taken has its signal before it or behind it, and its
\* handlers come after no other kernels than those the signal is for.
Signals ==
  /\ signaled + Len(signals) = committed
  /\ \A k \in DOMAIN batches : \A n \in DOMAIN batches[k] : batches[k][n].after <= Due(k)
  /\ \A n \in DOMAIN tasks : tasks[n].after <= finished

\* The inductive invariant.
HandlersInv == CudaTypes /\ Launches /\ Signals

\* Nothing has been encoded at first.
LEMMA HandlersInit == CudaStream!Init => HandlersInv
<1> SUFFICES ASSUME CudaStream!Init PROVE HandlersInv
  OBVIOUS
<1>1. CudaTypes
  <2>1. live \subseteq Buffers
    BY DevicesAssumption DEF CudaStream!Init
  <2> QED
    BY <2>1 DEF CudaStream!Init, CudaTypes, CudaStream!EmptyGraph
<1>2. Launches
  BY DevicesAssumption DEF CudaStream!Init, Launches, CudaStream!EmptyGraph, Frontier
<1>3. Signals
  BY DEF CudaStream!Init, Signals
<1> QED
  BY <1>1, <1>2, <1>3 DEF HandlersInv

\* Commit: what is launched, and the batch that is handed over.
LEMMA CommitKeeps ==
  ASSUME HandlersInv, NEW g, NEW last \in Nat, NEW temps, NEW ts \in Seq(Handler),
         CudaStream!Commit(g, last, temps, ts),
         temps \subseteq Buffers, g.count \in Nat, g.count = 0 => last = Frontier,
         encoded' = last, encoded <= last, live' \subseteq Buffers,
         \A n \in DOMAIN ts : ts[n].after <= last,
         UNCHANGED <<finished, signaled, tasks>>
  PROVE  HandlersInv'
<1> USE DEF HandlersInv
<1>0. MaxNodes \in Nat \ {0}
  BY DevicesAssumption
<1>1. PICK all : all = IF temps = {} THEN ts
                       ELSE Append(ts, [frees |-> temps, after |-> last, promise |-> FALSE])
  OBVIOUS
<1>2. /\ all \in Seq(Handler)
      /\ \A n \in DOMAIN all : all[n].after <= last
  <2>1. CASE temps = {}
    BY <1>1, <2>1
  <2>2. CASE temps # {}
    <3>1. PICK h \in Handler : h = [frees |-> temps, after |-> last, promise |-> FALSE]
      BY DEF Handler
    <3>2. h.after <= last
      BY <3>1
    <3>3. all = Append(ts, h)
      BY <1>1, <2>2, <3>1
    <3> HIDE DEF Handler
    <3> QED
      BY <3>2, <3>3
  <2> QED
    BY <2>1, <2>2
<1>3. flying' = (IF g.count > 0 THEN Append(flying, last) ELSE flying)
  BY DEF CudaStream!Commit
<1>4. graph'.count = 0 /\ pending' = <<>> /\ temporaries' = {}
  BY DEF CudaStream!Commit, CudaStream!EmptyGraph, CudaTypes
<1>5. PICK reached : reached = IF flying' = <<>> THEN finished ELSE flying'[Len(flying')]
  OBVIOUS
<1>6. IF all = <<>>
      THEN UNCHANGED <<batches, committed, signals>>
      ELSE /\ committed' = committed + 1
           /\ batches' = [k \in DOMAIN batches \cup {committed'} |->
                            IF k = committed' THEN all ELSE batches[k]]
           /\ signals' = Append(signals, reached)
  BY <1>1, <1>3, <1>5 DEF CudaStream!Commit, CudaStream!Last
<1>a. flying \in Seq(Nat) /\ Len(flying) \in Nat /\ DOMAIN flying = 1 .. Len(flying)
  BY DEF CudaTypes
<1>7. flying' \in Seq(Nat) /\ last = reached /\ Frontier' = reached
  <2>1. CASE g.count > 0
    <3>1. flying' = Append(flying, last)
      BY <1>3, <2>1
    <3>2. flying' \in Seq(Nat) /\ flying' # <<>> /\ flying'[Len(flying')] = last
      BY <1>a, <3>1, SMTT(30)
    <3> QED
      BY <1>5, <3>2 DEF Frontier
  <2>2. CASE ~(g.count > 0)
    BY <1>3, <1>5, <1>a, <2>2 DEF Frontier
  <2> QED
    BY <2>1, <2>2
<1>8. Launches'
  <2>1. finished' <= encoded'
    BY DEF Launches, CudaTypes
  <2>2. /\ \A i \in DOMAIN flying' : finished' <= flying'[i] /\ flying'[i] <= encoded'
        /\ \A i, j \in DOMAIN flying' : i < j => flying'[i] <= flying'[j]
    <3>1. CASE g.count > 0
      <4>1. flying' = Append(flying, last)
        BY <1>3, <3>1
      <4>2. /\ DOMAIN flying' = 1 .. Len(flying) + 1
            /\ \A i \in DOMAIN flying : flying'[i] = flying[i] /\ flying[i] \in Nat
            /\ flying'[Len(flying) + 1] = last
        BY <1>a, <4>1
      <4>3. \A i \in DOMAIN flying : finished <= flying[i] /\ flying[i] <= last
        BY <4>2 DEF Launches, CudaTypes
      <4>4. \A i, j \in DOMAIN flying' : i < j => i \in DOMAIN flying /\ (j \in DOMAIN flying \/ j = Len(flying) + 1)
        BY <1>a, <4>2
      <4>5. \A i \in DOMAIN flying' : i \in DOMAIN flying \/ i = Len(flying) + 1
        BY <1>a, <4>2
      <4>6. finished <= last
        BY <2>1
      <4> QED
        BY <4>2, <4>3, <4>4, <4>5, <4>6 DEF Launches
    <3>2. CASE ~(g.count > 0)
      BY <1>3, <1>a, <3>2 DEF Launches, CudaTypes
    <3> QED
      BY <3>1, <3>2
  <2>3. graph'.count < MaxNodes
    BY <1>0, <1>4
  <2> QED
    BY <1>7, <2>1, <2>2, <2>3 DEF Launches
<1>9. /\ committed' \in Nat /\ signals' \in Seq(Nat)
      /\ DOMAIN batches' \subseteq 1 .. committed'
      /\ \A k \in DOMAIN batches' : batches'[k] \in Seq(Handler)
      /\ signaled' + Len(signals') = committed'
      /\ \A k \in DOMAIN batches' : \A n \in DOMAIN batches'[k] :
           batches'[k][n].after <= Due(k)'
  <2>1. CASE all = <<>>
    BY <1>6, <2>1 DEF CudaTypes, Signals, Due
  <2>2. CASE all # <<>>
    <3>1. reached \in Nat
      BY <1>7
    <3>0. PICK c : c = committed'
      OBVIOUS
    <3>2. signals' = Append(signals, reached) /\ committed' = committed + 1
      BY <1>6, <2>2
    <3>3. signals' \in Seq(Nat) /\ Len(signals') = Len(signals) + 1
      BY <3>1, <3>2 DEF CudaTypes
    <3>4. signaled' + Len(signals') = committed' /\ committed' \in Nat
      BY <3>2, <3>3 DEF CudaTypes, Signals
    <3>5. /\ DOMAIN batches' = DOMAIN batches \cup {committed'}
          /\ batches'[committed'] = all
          /\ \A k \in DOMAIN batches : k # committed' /\ batches'[k] = batches[k]
      <4>1. \A k \in DOMAIN batches : k # committed'
        BY <3>2 DEF CudaTypes
      <4> QED
        BY <1>6, <2>2, <4>1
    <3>6. ASSUME NEW k \in DOMAIN batches
          PROVE  Due(k)' = Due(k)
      <4>1. k \in 1 .. committed
        BY DEF CudaTypes
      <4>2. ~(k <= signaled) => k - signaled \in 1 .. Len(signals)
        BY <4>1 DEF CudaTypes, Signals
      <4>3. ~(k <= signaled) => signals'[k - signaled] = signals[k - signaled]
        BY <3>1, <3>2, <4>2 DEF CudaTypes
      <4> QED
        BY <4>3 DEF Due
    <3>7. Due(c)' = reached
      <4>1. ~(c <= signaled) /\ c - signaled = Len(signals) + 1
        BY <3>0, <3>2 DEF CudaTypes, Signals
      <4>2. signals'[Len(signals) + 1] = reached
        BY <3>1, <3>2 DEF CudaTypes
      <4> QED
        BY <4>1, <4>2 DEF Due
    <3>8. DOMAIN batches' \subseteq 1 .. committed'
      BY <3>2, <3>5 DEF CudaTypes
    <3>9. \A k \in DOMAIN batches' : batches'[k] \in Seq(Handler)
      BY <1>2, <3>5 DEF CudaTypes
    <3>10. \A k \in DOMAIN batches' : \A n \in DOMAIN batches'[k] :
             batches'[k][n].after <= Due(k)'
      <4> TAKE k \in DOMAIN batches'
      <4>1. CASE k = c
        BY <1>2, <1>7, <3>0, <3>5, <3>7, <4>1
      <4>2. CASE k \in DOMAIN batches
        BY <3>5, <3>6, <4>2 DEF Signals
      <4> QED
        BY <3>0, <3>5, <4>1, <4>2
    <3> QED
      BY <3>3, <3>4, <3>8, <3>9, <3>10
  <2> QED
    BY <2>1, <2>2
<1>10. CudaTypes'
  BY <1>4, <1>7, <1>9 DEF CudaTypes
<1>11. Signals'
  BY <1>9 DEF Signals
<1> QED
  BY <1>8, <1>10, <1>11

\* The number a handler bears.
LEMMA HandlerFacts ==
  ASSUME CudaTypes
  PROVE  /\ \A k \in DOMAIN batches : \A n \in DOMAIN batches[k] : batches[k][n].after \in Nat
         /\ \A n \in DOMAIN tasks : tasks[n].after \in Nat
<1>1. \A h \in Handler : h.after \in Nat
  BY DEF Handler
<1>2. ASSUME NEW q \in Seq(Handler), NEW n \in DOMAIN q PROVE q[n].after \in Nat
  <2>1. q[n] \in Handler
    <3> HIDE DEF Handler
    <3> QED
      OBVIOUS
  <2> QED
    BY <1>1, <2>1
<1> QED
  BY <1>2 DEF CudaTypes

\* What a kernel adds to the count of nodes.
LEMMA CountFacts ==
  ASSUME NEW g, NEW k, NEW n \in Nat, NodeCountFits, g.count \in Nat
  PROVE  /\ g.count <= MaxNodes => CudaStream!AddNode(g, k).count = g.count + 1
         /\ g.count < MaxNodes /\ n \in BatchSizes =>
              CudaStream!AddConcurrent(g, k, n).count = g.count + n + 1
<1>1. \A i \in 0 .. 127 : CudaStream!Char(i) = i
  BY DEF CudaStream!Char
<1>2. ASSUME g.count <= MaxNodes PROVE CudaStream!AddNode(g, k).count = g.count + 1
  <2>1. g.count + 1 \in 0 .. 127
    BY <1>2, DevicesAssumption DEF NodeCountFits
  <2> QED
    BY <1>1, <2>1 DEF CudaStream!AddNode
<1>3. ASSUME g.count < MaxNodes, n \in BatchSizes
      PROVE  CudaStream!AddConcurrent(g, k, n).count = g.count + n + 1
  <2>1. g.count + n + 1 \in 0 .. 127
    BY <1>3, DevicesAssumption DEF NodeCountFits
  <2> QED
    BY <1>1, <2>1 DEF CudaStream!AddConcurrent
<1> QED
  BY <1>2, <1>3

\* An operation that encodes n kernels.
LEMMA EvalKeeps ==
  ASSUME HandlersInv, NEW g, NEW ins, NEW tmps, NEW out, NEW n \in Nat,
         CudaStream!Eval(g, ins, tmps, out, n),
         ins \subseteq Buffers, tmps \subseteq Buffers, out \in Buffers,
         g.count \in Nat \ {0}
  PROVE  HandlersInv'
<1> USE DEF HandlersInv
<1>1. PICK temps : temps = temporaries \cup tmps \cup CudaStream!KeptAlive(ins, out)
  OBVIOUS
<1>2. temps \subseteq Buffers /\ live' \subseteq Buffers
  BY <1>1 DEF CudaStream!Eval, CudaStream!KeptAlive, CudaTypes
<1>3. /\ encoded' = encoded + n /\ encoded' \in Nat /\ encoded <= encoded'
      /\ UNCHANGED <<finished, signaled, tasks>>
  BY DEF CudaStream!Eval, CudaTypes
<1>4. CASE g.count >= MaxNodes
  <2>1. CudaStream!Commit(g, encoded', temps, pending)
    BY <1>1, <1>4 DEF CudaStream!Eval
  <2>2. pending = <<>>
    BY DEF CudaTypes
  <2>3. PICK last : last = encoded'
    OBVIOUS
  <2>4. CudaStream!Commit(g, last, temps, <<>>)
    BY <2>1, <2>2, <2>3
  <2> QED
    <3>1. last \in Nat /\ encoded' = last /\ encoded <= last
      BY <1>3, <2>3
    <3>2. <<>> \in Seq(Handler) /\ \A j \in DOMAIN <<>> : <<>>[j].after <= last
      OBVIOUS
    <3>3. g.count \in Nat /\ (g.count = 0 => last = Frontier)
      OBVIOUS
    <3> QED
      BY <1>2, <1>3, <2>4, <3>1, <3>2, <3>3, CommitKeeps
<1>5. CASE ~(g.count >= MaxNodes)
  <2>1. /\ graph' = g /\ temporaries' = temps
        /\ UNCHANGED <<flying, pending, batches, committed, signals>>
    BY <1>1, <1>5 DEF CudaStream!Eval
  <2>2. g.count < MaxNodes
    BY <1>5, DevicesAssumption
  <2>3. CudaTypes'
    BY <1>2, <1>3, <2>1 DEF CudaTypes
  <2>4. Launches'
    <3>1. finished' <= encoded'
      BY <1>3 DEF Launches, CudaTypes
    <3>2. \A i \in DOMAIN flying : flying[i] <= encoded'
      BY <1>3 DEF Launches, CudaTypes
    <3> QED
      BY <1>3, <2>1, <2>2, <3>1, <3>2 DEF Launches
  <2>5. Signals'
    BY <1>3, <2>1 DEF Signals, Due
  <2> QED
    BY <2>3, <2>4, <2>5
<1> QED
  BY <1>4, <1>5

\* What the worker takes is made of the batches signalled.
LEMMA TakenFacts ==
  ASSUME HandlersInv
  PROVE  /\ CudaStream!TakenTasks \in Seq(Handler)
         /\ \A n \in DOMAIN CudaStream!TakenTasks : CudaStream!TakenTasks[n].after <= finished
<1> DEFINE V == {s \in Seq(Handler) : \A n \in DOMAIN s : s[n].after <= finished}
           S == CudaStream!SignaledBatches
           piece(k) == IF k \in S THEN batches[k] ELSE <<>>
           step == [k \in Nat |-> [v \in V |-> v \o piece(k)]]
           Body(f) == [k \in 0 .. committed |->
                         IF k = 0 THEN <<>>
                         ELSE IF k \in S THEN f[k - 1] \o batches[k] ELSE f[k - 1]]
           taken == CHOOSE f : f = Body(f)
<1>1. \A k \in S : batches[k] \in V
  BY DEF HandlersInv, CudaTypes, Signals, Due, CudaStream!SignaledBatches
<1>2. <<>> \in V
  OBVIOUS
<1>3. \A k \in Nat : piece(k) \in V
  BY <1>1, <1>2
<1>4. \A v, w \in V : v \o w \in V
  <2> TAKE v, w \in V
  <2>1. PICK T : T = Handler
    OBVIOUS
  <2>2. v \in Seq(T) /\ w \in Seq(T)
    BY <2>1
  <2>3. /\ v \o w \in Seq(T) /\ Len(v) \in Nat /\ Len(w) \in Nat
        /\ DOMAIN v = 1 .. Len(v) /\ DOMAIN w = 1 .. Len(w)
        /\ DOMAIN (v \o w) = 1 .. Len(v) + Len(w)
        /\ \A n \in 1 .. Len(v) : (v \o w)[n] = v[n]
        /\ \A n \in 1 .. Len(w) : (v \o w)[Len(v) + n] = w[n]
    BY <2>2, ConcatProperties, LenProperties
  <2>4. ASSUME NEW n \in 1 .. Len(v) + Len(w) PROVE (v \o w)[n].after <= finished
    <3>1. CASE n \in 1 .. Len(v)
      BY <2>3, <3>1
    <3>2. CASE ~(n \in 1 .. Len(v))
      <4>1. PICK m \in 1 .. Len(w) : n = Len(v) + m
        <5>1. n - Len(v) \in 1 .. Len(w) /\ n = Len(v) + (n - Len(v))
          BY <2>3, <3>2
        <5> QED
          BY <5>1
      <4> QED
        BY <2>3, <4>1
    <3> QED
      BY <3>1, <3>2
  <2> QED
    BY <2>1, <2>3, <2>4
<1>5. \A v \in V : v \o <<>> = v
  OBVIOUS
<1> HIDE DEF V
<1>6. \A k \in Nat : \A v \in V : step[k][v] \in V /\ step[k][v] = v \o piece(k)
  <2> HIDE DEF piece
  <2> QED
    BY <1>3, <1>4
<1> HIDE DEF step
<1>7. committed \in Nat
  BY DEF HandlersInv, CudaTypes
<1>8. PICK f : /\ f \in [0 .. committed -> V] /\ f[0] = <<>>
               /\ \A k \in 1 .. committed : f[k] = step[k][f[k - 1]]
  <2>1. Keeps(step, V)
    BY <1>6 DEF Keeps
  <2>2. \E f \in [0 .. committed -> V] : Follows(f, committed, <<>>, step)
    BY <1>2, <1>7, <2>1, RecursionExists
  <2> QED
    BY <2>2 DEF Follows
<1>9. \A k \in 1 .. committed :
        f[k] = IF k \in S THEN f[k - 1] \o batches[k] ELSE f[k - 1]
  <2> TAKE k \in 1 .. committed
  <2>1. k \in Nat /\ k - 1 \in 0 .. committed
    BY <1>7
  <2>2. f[k - 1] \in V
    BY <1>8, <2>1
  <2>3. f[k] = f[k - 1] \o piece(k)
    BY <1>6, <1>8, <2>1, <2>2
  <2> QED
    BY <1>5, <2>2, <2>3
<1>10. f = Body(f)
  <2>1. DOMAIN f = 0 .. committed /\ f = [k \in 0 .. committed |-> f[k]]
    BY <1>8
  <2>2. ASSUME NEW k \in 0 .. committed PROVE f[k] = Body(f)[k]
    <3>1. k = 0 \/ k \in 1 .. committed
      BY <1>7
    <3> HIDE DEF S
    <3> QED
      BY <1>8, <1>9, <3>1
  <2> QED
    BY <2>1, <2>2
<1>11. taken = Body(taken)
  <2> HIDE DEF Body
  <2> QED
    BY <1>10
<1>12. \A k \in 0 .. committed : taken[k] \in V
  <2> DEFINE T == {k \in Nat : k <= committed => taken[k] \in V}
  <2> HIDE DEF taken, piece
  <2>1. taken[0] = <<>>
    BY <1>7, <1>11
  <2>2. \A k \in 1 .. committed :
          taken[k] = IF k \in S THEN taken[k - 1] \o batches[k] ELSE taken[k - 1]
    <3> TAKE k \in 1 .. committed
    <3>1. k \in 0 .. committed /\ k # 0
      BY <1>7
    <3> QED
      BY <1>11, <3>1
  <2>3. 0 \in T
    BY <1>2, <2>1
  <2>4. ASSUME NEW k \in Nat, k \in T PROVE k + 1 \in T
    <3>1. CASE k + 1 <= committed
      <4>1. k + 1 \in 1 .. committed /\ k <= committed /\ (k + 1) - 1 = k
        BY <1>7, <3>1
      <4>2. taken[k] \in V
        BY <2>4, <4>1
      <4>3. taken[k + 1] = IF k + 1 \in S THEN taken[k] \o batches[k + 1] ELSE taken[k]
        BY <2>2, <4>1
      <4>4. taken[k + 1] \in V
        BY <1>1, <1>4, <4>2, <4>3
      <4> QED
        BY <4>4
    <3> QED
      BY <3>1
  <2> HIDE DEF T
  <2>5. \A k \in Nat : k \in T
    BY <2>3, <2>4, NatSetInduction
  <2> QED
    BY <1>7, <2>5 DEF T
<1>13. CudaStream!TakenTasks = taken[committed]
  BY DEF CudaStream!TakenTasks
<1>14. taken[committed] \in V
  <2> HIDE DEF taken
  <2> QED
    BY <1>7, <1>12
<1> HIDE DEF taken
<1> QED
  BY <1>13, <1>14 DEF V

\* The steps of the GPU and of the worker.
LEMMA OthersKeep ==
  ASSUME HandlersInv, CudaStream!Gpu \/ CudaStream!Worker
  PROVE  HandlersInv'
<1> USE DEF HandlersInv
<1>1. CASE CudaStream!GraphFinishes
  <2>1. /\ flying # <<>> /\ finished' = flying[1] /\ flying' = Tail(flying)
        /\ UNCHANGED <<live, temporaries, graph, encoded, signals, pending, batches, committed,
                       signaled, tasks>>
    BY <1>1 DEF CudaStream!GraphFinishes, CudaStream!workerVars, CudaTypes
  <2>2. /\ flying \in Seq(Nat) /\ Len(flying) \in Nat \ {0} /\ DOMAIN flying = 1 .. Len(flying)
        /\ flying' \in Seq(Nat) /\ Len(flying') = Len(flying) - 1
        /\ DOMAIN flying' = 1 .. Len(flying) - 1
        /\ \A i \in 1 .. Len(flying) - 1 : flying'[i] = flying[i + 1]
    BY <2>1 DEF CudaTypes
  <2>3. finished \in Nat /\ finished' \in Nat /\ finished <= finished' /\ finished' <= encoded
    BY <2>1, <2>2, SMTT(30) DEF Launches, CudaTypes
  <2>4. CudaTypes'
    BY <2>1, <2>2, <2>3 DEF CudaTypes
  <2>5. Launches'
    <3>1. ASSUME NEW i \in DOMAIN flying'
          PROVE  finished' <= flying'[i] /\ flying'[i] <= encoded'
      <4>1. i + 1 \in DOMAIN flying /\ 1 \in DOMAIN flying /\ 1 < i + 1 /\ flying'[i] = flying[i + 1]
        BY <2>2
      <4> QED
        BY <2>1, <4>1 DEF Launches
    <3>2. ASSUME NEW i \in DOMAIN flying', NEW j \in DOMAIN flying', i < j
          PROVE  flying'[i] <= flying'[j]
      <4>1. /\ i + 1 \in DOMAIN flying /\ j + 1 \in DOMAIN flying /\ i + 1 < j + 1
            /\ flying'[i] = flying[i + 1] /\ flying'[j] = flying[j + 1]
        BY <2>2, <3>2, SMTT(30)
      <4> QED
        BY <4>1 DEF Launches
    <3>3. Frontier' = Frontier
      <4>1. CASE Len(flying) = 1
        BY <2>1, <2>2, <4>1 DEF Frontier
      <4>2. CASE Len(flying) # 1
        <5>1. flying' # <<>> /\ Len(flying') \in 1 .. Len(flying) - 1
          BY <2>2, <4>2
        <5> QED
          BY <2>1, <2>2, <5>1 DEF Frontier
      <4> QED
        BY <4>1, <4>2
    <3> QED
      BY <2>1, <2>3, <3>1, <3>2, <3>3 DEF Launches
  <2>6. Signals'
    <3>1. ASSUME NEW k \in DOMAIN batches, NEW n \in DOMAIN batches[k]
          PROVE  batches[k][n].after <= Due(k)'
      <4>1. batches[k][n].after \in Nat
        BY HandlerFacts
      <4> QED
        BY <2>1, <2>3, <4>1 DEF Signals, Due
    <3>2. ASSUME NEW n \in DOMAIN tasks PROVE tasks[n].after <= finished'
      <4>1. tasks[n].after \in Nat
        BY HandlerFacts
      <4> QED
        BY <2>3, <4>1 DEF Signals
    <3> QED
      BY <2>1, <3>1, <3>2 DEF Signals
  <2> QED
    BY <2>4, <2>5, <2>6
<1>2. CASE CudaStream!Signal
  <2>1. /\ signals # <<>> /\ signals[1] <= finished
        /\ signals' = Tail(signals) /\ signaled' = signaled + 1
        /\ UNCHANGED <<live, temporaries, graph, encoded, flying, finished, pending, batches,
                       committed, tasks>>
    BY <1>2 DEF CudaStream!Signal, CudaTypes
  <2>2. /\ Len(signals) \in Nat \ {0} /\ signals' \in Seq(Nat)
        /\ Len(signals') = Len(signals) - 1
        /\ \A i \in 1 .. Len(signals) - 1 : signals'[i] = signals[i + 1]
    BY <2>1 DEF CudaTypes
  <2>3. CudaTypes'
    BY <2>1, <2>2 DEF CudaTypes
  <2>4. Launches'
    BY <2>1 DEF Launches, Frontier
  <2>5. ASSUME NEW k \in DOMAIN batches, NEW n \in DOMAIN batches[k]
        PROVE  batches[k][n].after <= Due(k)'
    <3>1. k \in 1 .. committed /\ signaled \in Nat /\ committed = signaled + Len(signals)
      BY DEF CudaTypes, Signals
    <3>2. batches[k][n].after <= Due(k) /\ batches[k][n].after \in Nat
      BY HandlerFacts DEF Signals
    <3>3. CASE k <= signaled
      BY <2>1, <3>1, <3>2, <3>3 DEF Due
    <3>4. CASE k = signaled + 1
      <4>1. Due(k) = signals[1] /\ Due(k)' = finished
        BY <2>1, <3>1, <3>4 DEF Due
      <4>2. signals[1] \in Nat /\ finished \in Nat
        BY <2>2 DEF CudaTypes
      <4> QED
        BY <2>1, <3>2, <4>1, <4>2
    <3>5. CASE k > signaled + 1
      <4>1. k - signaled' \in 1 .. Len(signals) - 1 /\ (k - signaled') + 1 = k - signaled
        BY <2>1, <2>2, <3>1, <3>5
      <4>2. Due(k)' = signals'[k - signaled'] /\ Due(k) = signals[k - signaled]
        BY <2>1, <3>1, <3>5 DEF Due
      <4> QED
        BY <2>2, <3>2, <4>1, <4>2
    <3> QED
      BY <3>1, <3>3, <3>4, <3>5
  <2>6. Signals'
    <3>1. signaled' + Len(signals') = committed'
      BY <2>1, <2>2 DEF Signals, CudaTypes
    <3> QED
      BY <2>1, <2>5, <3>1 DEF Signals
  <2> QED
    BY <2>3, <2>4, <2>6
<1>3. CASE CudaStream!TestStop
  BY <1>3 DEF CudaStream!TestStop, CudaStream!userVars, CudaTypes, Launches, Frontier, Signals, Due
<1>4. CASE CudaStream!TakeTasks
  <2>1. /\ tasks' = CudaStream!TakenTasks
        /\ batches' = [k \in DOMAIN batches \ CudaStream!SignaledBatches |-> batches[k]]
        /\ UNCHANGED <<live, temporaries, graph, encoded, flying, finished, pending,
                       committed, signals, signaled>>
    BY <1>4 DEF CudaStream!TakeTasks, CudaStream!userVars
  <2>2. DOMAIN batches' \subseteq DOMAIN batches /\ \A k \in DOMAIN batches' : batches'[k] = batches[k]
    BY <2>1
  <2>3. CudaTypes'
    BY <2>1, <2>2, TakenFacts DEF CudaTypes
  <2>4. Launches'
    BY <2>1 DEF Launches, Frontier
  <2>5. Signals'
    <3>1. \A n \in DOMAIN tasks' : tasks'[n].after <= finished'
      BY <2>1, TakenFacts
    <3>2. \A k \in DOMAIN batches' : Due(k)' = Due(k)
      BY <2>1 DEF Due
    <3> QED
      BY <2>1, <2>2, <3>1, <3>2 DEF Signals
  <2> QED
    BY <2>3, <2>4, <2>5
<1>5. CASE CudaStream!RunTask
  <2>1. /\ UNCHANGED <<live, temporaries, graph, encoded, flying, finished, pending, batches,
                       committed, signals, signaled>>
        /\ UNCHANGED tasks \/ (tasks # <<>> /\ tasks' = Tail(tasks))
    BY <1>5 DEF CudaStream!RunTask, CudaStream!userVars
  <2>2. tasks' \in Seq(Handler) /\ \A n \in DOMAIN tasks' : tasks'[n].after <= finished
    <3>1. CASE UNCHANGED tasks
      BY <3>1 DEF CudaTypes, Signals
    <3>2. CASE tasks # <<>> /\ tasks' = Tail(tasks)
      <4>1. PICK T : T = Handler
        OBVIOUS
      <4>2. tasks \in Seq(T)
        BY <4>1 DEF CudaTypes
      <4>3. /\ tasks' \in Seq(T) /\ DOMAIN tasks = 1 .. Len(tasks) /\ Len(tasks) \in Nat
            /\ DOMAIN tasks' = 1 .. Len(tasks) - 1
            /\ \A n \in 1 .. Len(tasks) - 1 : tasks'[n] = tasks[n + 1]
        BY <3>2, <4>2
      <4>4. \A n \in DOMAIN tasks' : n + 1 \in DOMAIN tasks
        BY <4>3
      <4> QED
        BY <4>1, <4>3, <4>4 DEF Signals
    <3> QED
      BY <2>1, <3>1, <3>2
  <2>3. CudaTypes'
    BY <2>1, <2>2 DEF CudaTypes
  <2>4. Launches'
    BY <2>1 DEF Launches, Frontier
  <2>5. Signals'
    BY <2>1, <2>2 DEF Signals, Due
  <2> QED
    BY <2>3, <2>4, <2>5
<1> QED
  BY <1>1, <1>2, <1>3, <1>4, <1>5 DEF CudaStream!Gpu, CudaStream!Worker

\* An operation of a program.
LEMMA ProgramKeeps ==
  ASSUME HandlersInv, NodeCountFits,
         \/ \E ins \in (SUBSET live) \ {{}}, out \in Buffers :
              CudaStream!Compute(ins, out) \/ \E n \in BatchSizes : CudaStream!Batched(ins, out, n)
         \/ \E x, y \in live, tmp, out \in Buffers :
              CudaStream!SliceUpdate(x, y, out) \/ CudaStream!DynamicSlice(x, y, tmp, out)
  PROVE  HandlersInv'
<1>0. /\ graph.count \in Nat /\ graph.count < MaxNodes /\ live \subseteq Buffers
      /\ MaxNodes \in Nat /\ BatchSizes \subseteq Nat
  BY DevicesAssumption DEF HandlersInv, CudaTypes, Launches
<1>1. ASSUME NEW k PROVE CudaStream!AddNode(graph, k).count = graph.count + 1
  BY <1>0, CountFacts
<1>2. ASSUME NEW k, NEW l
      PROVE  CudaStream!AddNode(CudaStream!AddNode(graph, k), l).count = graph.count + 2
  <2>1. PICK g : g = CudaStream!AddNode(graph, k)
    OBVIOUS
  <2>2. g.count = graph.count + 1
    BY <1>1, <2>1
  <2>3. CudaStream!AddNode(g, l).count = g.count + 1
    <3>1. g.count \in Nat /\ g.count <= MaxNodes
      BY <1>0, <2>2
    <3> QED
      BY <3>1, CountFacts
  <2> QED
    BY <1>0, <2>1, <2>2, <2>3
<1>3. ASSUME NEW k, NEW n \in BatchSizes
      PROVE  CudaStream!AddConcurrent(graph, k, n).count = graph.count + n + 1
  BY <1>0, CountFacts
<1>4. ASSUME NEW ins \in (SUBSET live) \ {{}}, NEW out \in Buffers, CudaStream!Compute(ins, out)
      PROVE  HandlersInv'
  <2>1. PICK g : g = CudaStream!AddNode(graph, CudaStream!Kernel(ins, {out}))
    OBVIOUS
  <2>2. CudaStream!Eval(g, ins, {}, out, 1)
    BY <1>4, <2>1 DEF CudaStream!Compute
  <2>3. g.count \in Nat \ {0}
    BY <1>0, <1>1, <2>1
  <2>4. ins \subseteq Buffers /\ {} \subseteq Buffers /\ 1 \in Nat
    BY <1>0
  <2> QED
    BY <2>2, <2>3, <2>4, EvalKeeps
<1>5. ASSUME NEW ins \in (SUBSET live) \ {{}}, NEW out \in Buffers, NEW n \in BatchSizes,
             CudaStream!Batched(ins, out, n)
      PROVE  HandlersInv'
  <2>1. PICK g : g = CudaStream!AddConcurrent(graph, CudaStream!Kernel(ins, {out}), n)
    OBVIOUS
  <2>2. CudaStream!Eval(g, ins, {}, out, 1)
    BY <1>5, <2>1 DEF CudaStream!Batched
  <2>3. g.count \in Nat \ {0}
    BY <1>0, <1>3, <2>1
  <2>4. ins \subseteq Buffers /\ {} \subseteq Buffers /\ 1 \in Nat
    BY <1>0
  <2> QED
    BY <2>2, <2>3, <2>4, EvalKeeps
<1>6. ASSUME NEW x \in live, NEW y \in live, NEW out \in Buffers, CudaStream!SliceUpdate(x, y, out)
      PROVE  HandlersInv'
  <2>1. PICK copied : copied = IF out = x THEN graph
                               ELSE CudaStream!AddNode(graph, CudaStream!Kernel({x}, {out}))
    OBVIOUS
  <2>2. PICK g : g = CudaStream!AddNode(copied, CudaStream!Kernel({y}, {out}))
    OBVIOUS
  <2>3. PICK n : n = IF out = x THEN 1 ELSE 2
    OBVIOUS
  <2>4. CudaStream!Eval(g, {x, y}, {}, out, n)
    BY <1>6, <2>1, <2>2, <2>3 DEF CudaStream!SliceUpdate
  <2>5. g.count \in Nat \ {0}
    <3>1. CASE out = x
      BY <1>0, <1>1, <2>1, <2>2, <3>1
    <3>2. CASE out # x
      BY <1>0, <1>2, <2>1, <2>2, <3>2
    <3> QED
      BY <3>1, <3>2
  <2>6. {x, y} \subseteq Buffers /\ {} \subseteq Buffers /\ n \in Nat
    BY <1>0, <2>3
  <2> QED
    BY <2>4, <2>5, <2>6, EvalKeeps
<1>7. ASSUME NEW x \in live, NEW y \in live, NEW tmp \in Buffers, NEW out \in Buffers,
             CudaStream!DynamicSlice(x, y, tmp, out)
      PROVE  HandlersInv'
  <2>1. PICK g : g = CudaStream!AddNode(CudaStream!AddNode(graph, CudaStream!Kernel({y}, {tmp})),
                                        CudaStream!Kernel({x, tmp}, {out}))
    OBVIOUS
  <2>2. CudaStream!Eval(g, {x, y}, {tmp}, out, 2)
    BY <1>7, <2>1 DEF CudaStream!DynamicSlice
  <2>3. g.count \in Nat \ {0}
    BY <1>0, <1>2, <2>1
  <2>4. {x, y} \subseteq Buffers /\ {tmp} \subseteq Buffers /\ 2 \in Nat
    BY <1>0
  <2> QED
    BY <2>2, <2>3, <2>4, EvalKeeps
<1> QED
  BY <1>4, <1>5, <1>6, <1>7

\* finalize and synchronize, which commit what there is.
LEMMA CommitsKeep ==
  ASSUME HandlersInv, CudaStream!Finalize \/ CudaStream!StreamDrained
  PROVE  HandlersInv'
<1>1. PICK ts : ts = IF CudaStream!Finalize THEN pending
                     ELSE Append(pending, [frees |-> {}, after |-> encoded, promise |-> TRUE])
  OBVIOUS
<1>2. /\ CudaStream!Commit(graph, encoded, temporaries, ts)
      /\ UNCHANGED <<live, encoded, finished, signaled, tasks>>
  BY <1>1 DEF CudaStream!Finalize, CudaStream!StreamDrained
<1>3. /\ pending = <<>> /\ encoded \in Nat /\ graph.count \in Nat
      /\ temporaries \subseteq Buffers /\ live \subseteq Buffers
      /\ graph.count = 0 => encoded = Frontier
  BY DEF HandlersInv, CudaTypes, Launches
<1>4. ts \in Seq(Handler) /\ \A n \in DOMAIN ts : ts[n].after <= encoded
  <2>1. PICK h : h = [frees |-> {}, after |-> encoded, promise |-> TRUE]
    OBVIOUS
  <2>2. h \in Handler /\ h.after <= encoded
    BY <1>3, <2>1 DEF Handler
  <2>3. ts = <<>> \/ ts = <<h>>
    <3>1. Append(<<>>, h) = <<h>>
      OBVIOUS
    <3> QED
      BY <1>1, <1>3, <2>1, <3>1
  <2>4. PICK T : T = Handler
    OBVIOUS
  <2>5. CASE ts = <<>>
    BY <2>5
  <2>6. CASE ts = <<h>>
    <3>1. h \in T
      BY <2>2, <2>4
    <3>2. <<h>> \in Seq(T) /\ DOMAIN <<h>> = {1} /\ <<h>>[1] = h
      BY <3>1
    <3> HIDE DEF Handler
    <3> QED
      BY <2>2, <2>4, <2>6, <3>2
  <2> QED
    BY <2>3, <2>5, <2>6
<1>5. PICK last : last = encoded
  OBVIOUS
<1>6. /\ CudaStream!Commit(graph, last, temporaries, ts) /\ last \in Nat
      /\ encoded' = last /\ encoded <= last
      /\ graph.count = 0 => last = Frontier
      /\ live' \subseteq Buffers
      /\ \A n \in DOMAIN ts : ts[n].after <= last
  BY <1>2, <1>3, <1>4, <1>5
<1> QED
  BY <1>2, <1>3, <1>4, <1>6, CommitKeeps

\* Every step keeps the invariant of handlers.
LEMMA HandlersStep ==
  ASSUME HandlersInv, NodeCountFits, CudaStream!Next
  PROVE  HandlersInv'
<1>1. CASE CudaStream!Synchronize \/ CudaStream!Destroy \/ CudaStream!Joined
  <2>1. UNCHANGED <<live, temporaries, graph, encoded, flying, finished, pending, batches,
                    committed, signals, signaled, tasks>>
    BY <1>1 DEF CudaStream!Synchronize, CudaStream!Destroy, CudaStream!Joined,
                CudaStream!workerVars
  <2> QED
    BY <2>1 DEF HandlersInv, CudaTypes, Launches, Frontier, Signals, Due
<1>2. ASSUME NEW b \in Buffers, CudaStream!Synchronizer(b)
      PROVE  HandlersInv'
  <2>1. /\ live' \subseteq live /\ temporaries' = temporaries \cup {b}
        /\ UNCHANGED <<graph, encoded, flying, finished, pending, batches, committed,
                       signals, signaled, tasks>>
    BY <1>2 DEF CudaStream!Synchronizer, CudaStream!workerVars
  <2>2. CudaTypes'
    BY <2>1 DEF HandlersInv, CudaTypes
  <2> QED
    BY <2>1, <2>2 DEF HandlersInv, Launches, Frontier, Signals, Due
<1> QED
  BY <1>1, <1>2, ProgramKeeps, CommitsKeep, OthersKeep DEF CudaStream!Next

\* If a graph cannot outgrow the char its nodes are counted in, no handler
\* runs before the kernels encoded before it: buffers are kept as long as
\* needed, and synchronize returns after all of them.
THEOREM HandlersAfterKernelsHolds ==
  ASSUME NodeCountFits
  PROVE  AllSpec => []HandlersAfterKernels
<1> DEFINE Inv == part = "cuda" => HandlersInv
<1>1. AllInit => Inv
  BY HandlersInit DEF AllInit
<1>2. Inv /\ [AllNext]_allVars => Inv'
  <2> SUFFICES ASSUME part' = "cuda", Inv, [AllNext]_allVars PROVE HandlersInv'
    OBVIOUS
  <2>1. part = "cuda" /\ HandlersInv
    BY DEF AllNext, allVars, OnlyAllocators, OnlyMetal, OnlyCuda
  <2>2. CASE CudaStream!Next
    BY <2>1, <2>2, HandlersStep
  <2>3. CASE UNCHANGED allVars
    BY <2>1, <2>3 DEF allVars, sharedVars, cudaVars, HandlersInv, CudaTypes, Launches, Frontier,
                      Signals, Due
  <2> QED
    BY <2>1, <2>2, <2>3 DEF AllNext
<1>3. Inv => HandlersAfterKernels
  BY DEF HandlersInv, Signals, HandlersAfterKernels, CudaStream!HandlersAfter
<1> QED
  BY <1>1, <1>2, <1>3, PTL DEF AllSpec

-----------------------------------------------------------------------------
(* The command encoders of a Metal stream *)

MetalEncoder ==
  [id : Nat, inputs : SUBSET Buffers, outputs : SUBSET Buffers, prev : SUBSET Buffers,
   next : SUBSET Buffers, concurrent : SUBSET Buffers, phase : Nat, needsBarrier : BOOLEAN]
MetalHandler == [frees : SUBSET Buffers, fence : Nat, outputs : SUBSET Buffers]
MetalKernel ==
  [reads : SUBSET Buffers, writes : SUBSET Buffers, opens : SUBSET Buffers,
   signals : SUBSET Buffers, context : Nat, encoder : Nat, phase : Nat]
CommandBuffer == [handlers : Seq(MetalHandler), encoders : SUBSET Nat]

\* What a kernel changes, and all it uses.
Changed(k) == k.writes \cup k.opens
Touched(k) == k.reads \cup Changed(k)

\* The parts of a stream, and the kernels.
MetalTypes(s, ks) ==
  /\ s = [encoder |-> s.encoder, temporaries |-> s.temporaries, outputs |-> s.outputs,
          handlers |-> s.handlers, encoders |-> s.encoders, waits |-> s.waits,
          issued |-> s.issued]
  /\ s.encoder \in MetalEncoder
  /\ s.temporaries \subseteq Buffers
  /\ s.outputs \in [Buffers -> Nat]
  /\ s.handlers \in Seq(MetalHandler)
  /\ IsFiniteSet(DOMAIN s.waits) /\ DOMAIN s.waits \subseteq Nat \ {0}
  /\ s.waits \in [DOMAIN s.waits -> SUBSET DOMAIN s.waits]
  /\ s.issued \in Nat
  /\ DOMAIN ks \subseteq 1 .. s.issued
  /\ ks \in [DOMAIN ks -> MetalKernel]

\* Kernels belong to encoders that have ended or to the one that is open,
\* whose kernels are the last.  What a kernel opens no earlier one uses.
Homes(s, ks) ==
  /\ s.encoder.id \notin DOMAIN s.waits
  /\ s.encoder.id = 0 => s.temporaries = {}
  /\ \A n \in DOMAIN ks : 
       ks[n].encoder # 0 /\ ks[n].encoder \in DOMAIN s.waits \cup {s.encoder.id}
  /\ \A i, j \in DOMAIN ks : i < j =>
       /\ ks[i].encoder = s.encoder.id => ks[j].encoder = s.encoder.id
       /\ ks[j].opens \cap Touched(ks[i]) = {}
  /\ \A i, j \in DOMAIN ks :
       ks[i].context # 0 /\ ks[i].context = ks[j].context => ks[i].encoder = ks[j].encoder

\* What the open encoder knows of its kernels, in concurrent context c.
Current(e, ks, c) ==
  /\ \A n \in DOMAIN ks : ks[n].encoder = e.id =>
       /\ ks[n].reads \cup ks[n].writes \subseteq e.inputs
       /\ Changed(ks[n]) \subseteq e.outputs
       /\ ks[n].phase <= e.phase
       /\ ks[n].phase = e.phase =>
            Changed(ks[n]) \subseteq
              e.prev \cup (IF c # 0 /\ ks[n].context = c THEN e.concurrent ELSE {})
  /\ \A b \in e.outputs : \E n \in DOMAIN ks : ks[n].encoder = e.id /\ b \in Changed(ks[n])

\* Who waits for the encoder in the table of outputs waits for all that
\* changed a live buffer.
Tracked(s, ks, L) ==
  /\ s.temporaries \cap L = {}
  /\ \A n \in DOMAIN ks : ks[n].encoder \in DOMAIN s.waits =>
       \A b \in Changed(ks[n]) \cap L :
         s.outputs[b] \in DOMAIN s.waits /\ ks[n].encoder \in Reaching(s.waits, s.outputs[b])

\* The open encoder will wait for encoder x, for one of the buffers in B that
\* is not in Z.
WillWait(s, x, B, Z) ==
  \E b \in (B \cap s.encoder.inputs) \ (s.temporaries \cup Z) :
    s.outputs[b] \in DOMAIN s.waits /\ x \in Reaching(s.waits, s.outputs[b])

Sequenced(s, ks, Z) ==
  \A i, j \in DOMAIN ks : i < j /\ MetalStream!Conflict(ks[i], ks[j]) =>
    LET f == ks[i].encoder
        g == ks[j].encoder
    IN  /\ f = g => ks[i].phase < ks[j].phase
        /\ f \in DOMAIN s.waits /\ g = s.encoder.id =>
             WillWait(s, f, ks[j].reads \cup ks[j].writes, Z)
        /\ f \in DOMAIN s.waits /\ g \in DOMAIN s.waits /\ f # g =>
             \E x \in s.waits[g] : f \in Reaching(s.waits, x)

Coded(s, ks, c, L, Z) ==
  /\ MetalTypes(s, ks)
  /\ Homes(s, ks)
  /\ Current(s.encoder, ks, c)
  /\ Tracked(s, ks, L)
  /\ Sequenced(s, ks, Z)

\* Command buffers end in order, and what their encoders wait for with them
\* or before.
Booked(s, fl, hs) ==
  /\ fl \in Seq(CommandBuffer)
  /\ hs \in Seq(MetalHandler)
  /\ DOMAIN s.waits = s.encoders \cup UNION {fl[c].encoders : c \in DOMAIN fl}
  /\ \A c \in DOMAIN fl : 
       /\ fl[c].encoders \cap s.encoders = {}
       /\ \A d \in DOMAIN fl : c # d => fl[c].encoders \cap fl[d].encoders = {}
       /\ \A x \in fl[c].encoders : s.waits[x] \subseteq UNION {fl[d].encoders : d \in 1 .. c}
       /\ \A n \in DOMAIN fl[c].handlers : fl[c].handlers[n].fence \in fl[c].encoders \cup {0}
  /\ \A n \in DOMAIN s.handlers : s.handlers[n].fence \in s.encoders \cup {0}
  /\ \A n \in DOMAIN hs : 
       hs[n].fence \notin DOMAIN s.waits /\ (hs[n].fence # 0 => hs[n].fence # s.encoder.id)

\* The buffers held at least as long as the kernels of encoder x.
HeldBehind(s, fl, x) ==
  s.temporaries \cup MetalStream!Frees(s.handlers)
    \cup UNION {MetalStream!Frees(fl[c].handlers) :
                  c \in {d \in DOMAIN fl : \E a \in 1 .. d : x \in fl[a].encoders}}

\* What kernels use is live or held; what they only read is held, but for B.
Kept(s, fl, ks, L, B) ==
  \A n \in DOMAIN ks :
    /\ Touched(ks[n]) \subseteq L \cup HeldBehind(s, fl, ks[n].encoder)
    /\ ks[n].reads \subseteq 
         B \cup HeldBehind(s, fl, ks[n].encoder) \cup ks[n].writes
           \cup UNION {ks[i].signals : i \in {j \in DOMAIN ks : ks[j].encoder = ks[n].encoder}}

MetalOrder ==
  /\ live \subseteq Buffers
  /\ Coded(stream, kernels, 0, live, {})
  /\ Booked(stream, flying, handlers)
  /\ Kept(stream, flying, kernels, live, {})

LEMMA FencedIs ==
  ASSUME Predecessors(stream.waits)
  PROVE  IsClosure(stream.waits, MetalStream!Fenced)
<1> DEFINE Is(a) == a = [x \in DOMAIN stream.waits |->
                           stream.waits[x] \cup UNION {a[y] : y \in stream.waits[x]}]
<1>1. MetalStream!Fenced = CHOOSE a : Is(a)
  BY DEF MetalStream!Fenced
<1>2. \E a : Is(a)
  BY ClosureExists DEF IsClosure
<1>3. Is(MetalStream!Fenced)
  <2> HIDE DEF Is
  <2> QED
    BY <1>1, <1>2
<1> QED
  BY <1>3 DEF IsClosure

-----------------------------------------------------------------------------
(* Kernels that are encoded *)

\* A kernel l is encoded that, if it writes what another reads, the other writes too.
LEMMA EncodeKeeps ==
  ASSUME NEW s, NEW ks, NEW c \in Nat, NEW L \in SUBSET Buffers, NEW Z \in SUBSET Buffers, L \cap Z = {},
         Coded(s, ks, c, L, Z),
         NEW e, e = s.encoder, e.id # 0,
         NEW l \in MetalKernel, l.encoder = e.id, l.context = c,
         NEW f \in MetalEncoder, f.id = e.id, e.phase <= f.phase, l.phase = f.phase,
         e.inputs \cup l.reads \cup l.writes \subseteq f.inputs,
         f.outputs = e.outputs \cup Changed(l),
         f.phase = e.phase => e.prev \subseteq f.prev /\ e.concurrent \subseteq f.concurrent,
         Changed(l) \subseteq f.prev \cup (IF c # 0 THEN f.concurrent ELSE {}),
         \A n \in DOMAIN ks :
           /\ ks[n].encoder = e.id /\ ks[n].phase = f.phase /\ (c = 0 \/ ks[n].context # c) =>
                Changed(ks[n]) \cap (l.reads \cup l.writes) = {}
           /\ ks[n].reads \cap l.writes \subseteq ks[n].writes
           /\ ks[n].encoder \in DOMAIN s.waits =>
                Changed(ks[n]) \cap (l.reads \cup l.writes) \subseteq L
           /\ l.opens \cap Touched(ks[n]) = {}
           /\ c # 0 /\ ks[n].context = c => ks[n].encoder = e.id,
         NEW t, t = [s EXCEPT !.encoder = f, !.issued = @ + 1],
         NEW ls, ls = MetalStream!Encode(ks, s.issued + 1, l)
  PROVE  Coded(t, ls, c, L, Z)
<1>1. MetalTypes(s, ks) /\ Homes(s, ks) /\ Current(e, ks, c) /\ Tracked(s, ks, L)
      /\ Sequenced(s, ks, Z)
  BY DEF Coded
<1>2. PICK m \in Nat : m = s.issued + 1
  BY <1>1 DEF MetalTypes
<1>3. \A n \in DOMAIN ks : n \in Nat /\ n < m
  BY <1>1, <1>2 DEF MetalTypes
<1>4. /\ DOMAIN ls = DOMAIN ks \cup {m} /\ ls[m] = l
      /\ \A i \in DOMAIN ks : ls[i] = ks[i]
      /\ ls = [i \in DOMAIN ls |-> ls[i]]
  <2>1. m \notin DOMAIN ks
    BY <1>3
  <2>2. ls = MetalStream!Encode(ks, m, l)
    BY <1>2
  <2>3. ls = [i \in DOMAIN ks \cup {m} |-> IF i = m THEN l ELSE ks[i]]
    BY <2>2 DEF MetalStream!Encode
  <2> QED
    BY ONLY <2>1, <2>3
<1>5. /\ t.encoder = f /\ t.temporaries = s.temporaries /\ t.outputs = s.outputs
      /\ t.handlers = s.handlers /\ t.encoders = s.encoders /\ t.waits = s.waits
      /\ t.issued = m
  BY <1>1, <1>2 DEF MetalTypes
<1>6. MetalTypes(t, ls)
  <2>1. t = [encoder |-> t.encoder, temporaries |-> t.temporaries, outputs |-> t.outputs,
             handlers |-> t.handlers, encoders |-> t.encoders, waits |-> t.waits,
             issued |-> t.issued]
    BY <1>1 DEF MetalTypes
  <2>2. DOMAIN ls \subseteq 1 .. m
    BY <1>1, <1>2, <1>4 DEF MetalTypes
  <2>3. ls \in [DOMAIN ls -> MetalKernel]
    BY <1>1, <1>4 DEF MetalTypes
  <2> QED
    BY <1>1, <1>5, <2>1, <2>2, <2>3 DEF MetalTypes
<1>7. Homes(t, ls)
  <2>1. e.id \notin DOMAIN s.waits
    BY <1>1 DEF Homes
  <2>2. \A n \in DOMAIN ls :
          ls[n].encoder # 0 /\ ls[n].encoder \in DOMAIN t.waits \cup {t.encoder.id}
    BY <1>1, <1>4, <1>5 DEF Homes
  <2>3. ASSUME NEW i \in DOMAIN ls, NEW j \in DOMAIN ls, i < j
        PROVE  /\ ls[i].encoder = t.encoder.id => ls[j].encoder = t.encoder.id
               /\ ls[j].opens \cap Touched(ls[i]) = {}
    <3>1. i \in DOMAIN ks
      BY <1>3, <1>4, <2>3, <1>2
    <3>2. CASE j = m
      BY <1>4, <1>5, <3>1, <3>2
    <3>3. CASE j # m
      BY <1>1, <1>4, <1>5, <2>3, <3>1, <3>3 DEF Homes
    <3> QED
      BY <3>2, <3>3
  <2>4. ASSUME NEW i \in DOMAIN ls, NEW j \in DOMAIN ls,
               ls[i].context # 0, ls[i].context = ls[j].context
        PROVE  ls[i].encoder = ls[j].encoder
    <3>1. CASE i \in DOMAIN ks /\ j \in DOMAIN ks
      BY <1>1, <1>4, <2>4, <3>1 DEF Homes
    <3>2. CASE i = m \/ j = m
      BY <1>4, <2>4, <3>2
    <3> QED
      BY <1>4, <3>1, <3>2
  <2> QED
    BY <1>5, <2>1, <2>2, <2>3, <2>4 DEF Homes
<1>8. Current(f, ls, c)
  <2>1. ASSUME NEW n \in DOMAIN ks, ks[n].encoder = f.id
        PROVE  /\ ks[n].reads \cup ks[n].writes \subseteq f.inputs
               /\ Changed(ks[n]) \subseteq f.outputs
               /\ ks[n].phase <= f.phase
               /\ ks[n].phase = f.phase =>
                    Changed(ks[n]) \subseteq
                      f.prev \cup (IF c # 0 /\ ks[n].context = c THEN f.concurrent ELSE {})
    <3>1. /\ ks[n].reads \cup ks[n].writes \subseteq e.inputs
          /\ Changed(ks[n]) \subseteq e.outputs
          /\ ks[n].phase <= e.phase
          /\ ks[n].phase = e.phase =>
               Changed(ks[n]) \subseteq
                 e.prev \cup (IF c # 0 /\ ks[n].context = c THEN e.concurrent ELSE {})
      BY <1>1, <2>1 DEF Current
    <3>2. ks[n].phase \in Nat /\ e.phase \in Nat /\ f.phase \in Nat
      BY <1>1 DEF MetalTypes, MetalKernel, MetalEncoder
    <3>3. ks[n].phase <= f.phase /\ (ks[n].phase = f.phase => f.phase = e.phase)
      BY <3>1, <3>2
    <3> QED
      BY <3>1, <3>3
  <2>2. /\ l.reads \cup l.writes \subseteq f.inputs /\ Changed(l) \subseteq f.outputs
        /\ l.phase <= f.phase
        /\ Changed(l) \subseteq
             f.prev \cup (IF c # 0 /\ l.context = c THEN f.concurrent ELSE {})
    BY DEF MetalEncoder
  <2>3. \A b \in f.outputs : \E n \in DOMAIN ls : ls[n].encoder = f.id /\ b \in Changed(ls[n])
    BY <1>1, <1>4 DEF Current
  <2> QED
    BY <1>4, <2>1, <2>2, <2>3 DEF Current
<1>9. Tracked(t, ls, L)
  BY <1>1, <1>4, <1>5 DEF Tracked, Homes
<1>10. ASSUME NEW i \in DOMAIN ks, MetalStream!Conflict(ks[i], l)
       PROVE  /\ ks[i].encoder = l.encoder => ks[i].phase < l.phase
              /\ ks[i].encoder \in DOMAIN s.waits =>
                   WillWait(t, ks[i].encoder, l.reads \cup l.writes, Z)
  <2>1. ks[i].context = 0 \/ ks[i].context # c
    BY <1>10 DEF MetalStream!Conflict
  <2>2. PICK b : b \in Changed(ks[i]) /\ b \in l.reads \cup l.writes
    BY <1>10 DEF MetalStream!Conflict, Changed
  <2>3. ASSUME ks[i].encoder = l.encoder PROVE ks[i].phase < l.phase
    <3>1. ks[i].phase <= e.phase
      BY <1>1, <2>3 DEF Current
    <3>2. ks[i].phase \in Nat /\ e.phase \in Nat /\ f.phase \in Nat
      BY <1>1 DEF MetalTypes, MetalKernel, MetalEncoder
    <3>3. c = 0 \/ ks[i].context # c
      BY <2>1
    <3>4. ks[i].phase # f.phase
      BY <2>2, <2>3, <3>3
    <3> QED
      BY <3>1, <3>2, <3>4
  <2>4. ASSUME ks[i].encoder \in DOMAIN s.waits
        PROVE  WillWait(t, ks[i].encoder, l.reads \cup l.writes, Z)
    <3>1. b \in L
      BY <2>2, <2>4
    <3>2. /\ b \notin s.temporaries \cup Z /\ s.outputs[b] \in DOMAIN s.waits
          /\ ks[i].encoder \in Reaching(s.waits, s.outputs[b])
      BY <1>1, <2>2, <2>4, <3>1 DEF Tracked
    <3>3. b \in f.inputs
      BY <2>2
    <3> QED
      BY <1>5, <2>2, <3>2, <3>3 DEF WillWait
  <2> QED
    BY <2>3, <2>4
<1>11. Sequenced(t, ls, Z)
  <2> SUFFICES ASSUME NEW i \in DOMAIN ls, NEW j \in DOMAIN ls, i < j,
                      MetalStream!Conflict(ls[i], ls[j])
               PROVE  LET p == ls[i].encoder
                          q == ls[j].encoder
                      IN  /\ p = q => ls[i].phase < ls[j].phase
                          /\ p \in DOMAIN t.waits /\ q = t.encoder.id =>
                               WillWait(t, p, ls[j].reads \cup ls[j].writes, Z)
                          /\ p \in DOMAIN t.waits /\ q \in DOMAIN t.waits /\ p # q =>
                               \E x \in t.waits[q] : p \in Reaching(t.waits, x)
    BY DEF Sequenced
  <2>1. i \in DOMAIN ks
    BY <1>2, <1>3, <1>4
  <2>2. CASE j = m
    <3>1. ls[j].encoder \notin DOMAIN t.waits
      BY <1>1, <1>4, <1>5, <2>2 DEF Homes
    <3> QED
      BY <1>4, <1>5, <1>10, <2>1, <2>2, <3>1, ZenonT(60)
  <2>3. CASE j # m
    <3>1. j \in DOMAIN ks /\ ls[i] = ks[i] /\ ls[j] = ks[j]
      BY <1>4, <2>1, <2>3
    <3>2. \A x, B : WillWait(s, x, B, Z) => WillWait(t, x, B, Z)
      BY <1>5 DEF WillWait
    <3> QED
      BY <1>1, <1>5, <2>1, <3>1, <3>2, ZenonT(60) DEF Sequenced
  <2> QED
    BY <2>2, <2>3
<1> QED
  BY <1>5, <1>6, <1>7, <1>8, <1>9, <1>11 DEF Coded

\* What the arrays of a kernel in context c do to an encoder.
Prepared(e, R, W, c, f) ==
  /\ f \in MetalEncoder /\ f.id = e.id
  /\ f.inputs = e.inputs \cup R \cup W /\ f.outputs = e.outputs \cup W
  /\ f.phase = e.phase \/ f.phase = e.phase + 1
  /\ (R \cup W) \cap e.prev # {} => f.phase = e.phase + 1
  /\ f.phase = e.phase => e.prev \subseteq f.prev
  /\ e.concurrent \subseteq f.concurrent
  /\ IF c # 0 THEN W \subseteq f.concurrent ELSE W \subseteq f.prev

LEMMA EncoderFacts ==
  ASSUME NEW e \in MetalEncoder, NEW R \in SUBSET Buffers, NEW W \in SUBSET Buffers,
         NEW c \in Nat, NEW f,
         f = MetalStream!MaybeInsertBarrier(
               MetalStream!SetOutputs(MetalStream!SetInputs(e, R), W, c # 0))
  PROVE  Prepared(e, R, W, c, f)
<1> USE DEF Prepared
<1>0. PICK conc \in BOOLEAN : conc = (c # 0)
  OBVIOUS
<1>1. PICK a : a = MetalStream!SetInputs(e, R)
  OBVIOUS
<1>2. PICK b : b = MetalStream!SetInputs(a, W)
  OBVIOUS
<1>3. PICK g : g = MetalStream!RegisterOutputs(b, W, conc)
  OBVIOUS
<1>4. f = MetalStream!MaybeInsertBarrier(g)
  BY <1>0, <1>1, <1>2, <1>3 DEF MetalStream!SetOutputs
<1>5. /\ a \in MetalEncoder /\ a.id = e.id /\ a.inputs = e.inputs \cup R
      /\ a.outputs = e.outputs /\ a.phase = e.phase /\ a.prev = e.prev
      /\ a.concurrent = e.concurrent
      /\ R \cap e.prev # {} => a.needsBarrier
  BY <1>1 DEF MetalStream!SetInputs, MetalEncoder
<1>6. /\ b \in MetalEncoder /\ b.id = e.id /\ b.inputs = e.inputs \cup R \cup W
      /\ b.outputs = e.outputs /\ b.phase = e.phase /\ b.prev = e.prev
      /\ b.concurrent = e.concurrent
      /\ (R \cup W) \cap e.prev # {} => b.needsBarrier
  BY <1>2, <1>5 DEF MetalStream!SetInputs, MetalEncoder
<1>7. /\ g \in MetalEncoder /\ g.id = e.id /\ g.inputs = e.inputs \cup R \cup W
      /\ g.outputs = e.outputs \cup W /\ g.phase = e.phase /\ g.prev = e.prev
      /\ e.concurrent \subseteq g.concurrent
      /\ IF conc THEN W \subseteq g.concurrent ELSE W \subseteq g.next
      /\ (R \cup W) \cap e.prev # {} => g.needsBarrier
  BY <1>3, <1>6 DEF MetalStream!RegisterOutputs, MetalEncoder
<1>8. CASE g.needsBarrier
  <2>1. PICK h : h = MetalStream!Barrier(g)
    OBVIOUS
  <2>2. /\ h \in MetalEncoder /\ h.id = g.id /\ h.inputs = g.inputs /\ h.outputs = g.outputs
        /\ h.phase = g.phase + 1 /\ h.next = g.next /\ h.concurrent = g.concurrent
    BY <1>7, <2>1 DEF MetalStream!Barrier, MetalEncoder
  <2>3. f = [h EXCEPT !.needsBarrier = FALSE, !.prev = g.next, !.next = {}]
    BY <1>4, <1>8, <2>1 DEF MetalStream!MaybeInsertBarrier
  <2>4. /\ f \in MetalEncoder /\ f.id = h.id /\ f.inputs = h.inputs /\ f.outputs = h.outputs
        /\ f.phase = h.phase /\ f.prev = g.next /\ f.concurrent = h.concurrent
    BY <1>7, <2>2, <2>3 DEF MetalEncoder
  <2>5. f.phase = e.phase + 1 /\ e.phase \in Nat
    BY <1>7, <2>2, <2>4 DEF MetalEncoder
  <2>6. f.phase # e.phase
    BY <2>5
  <2> QED
    BY <1>0, <1>7, <2>2, <2>4, <2>5, <2>6
<1>9. CASE ~g.needsBarrier
  <2>1. f = [g EXCEPT !.prev = @ \cup g.next, !.next = {}]
    BY <1>4, <1>9 DEF MetalStream!MaybeInsertBarrier
  <2>2. /\ f \in MetalEncoder /\ f.id = g.id /\ f.inputs = g.inputs /\ f.outputs = g.outputs
        /\ f.phase = g.phase /\ f.prev = g.prev \cup g.next /\ f.concurrent = g.concurrent
    BY <1>7, <2>1 DEF MetalEncoder
  <2> QED
    BY <1>0, <1>7, <1>9, <2>2
<1> QED
  BY <1>0, <1>8, <1>9

\* The number of a new fence is that of no encoder that has not ended, and of
\* no handler to come.
LEMMA NewFenceFacts ==
  ASSUME NEW s, NEW ks, MetalTypes(s, ks), handlers \in Seq(MetalHandler),
         NEW x, x = MetalStream!NewFence(s)
  PROVE  /\ x \in Nat \ {0} /\ x \notin DOMAIN s.waits
         /\ \A n \in DOMAIN handlers : handlers[n].fence # x
<1> DEFINE F == {handlers[n].fence : n \in DOMAIN handlers}
           O == {s.outputs[b] : b \in DOMAIN s.outputs}
<1>1. PICK S : S = DOMAIN s.waits \cup O \cup F
  OBVIOUS
<1>2. IsFiniteSet(S)
  <2>1. IsFiniteSet(DOMAIN s.waits)
    BY DEF MetalTypes
  <2>2. IsFiniteSet(DOMAIN s.outputs)
    BY DevicesAssumption DEF MetalTypes
  <2>3. IsFiniteSet(O)
    BY <2>2, ValuesFinite
  <2>4. IsFiniteSet(DOMAIN handlers)
    <3>1. PICK n \in Nat : DOMAIN handlers = 1 .. n
      OBVIOUS
    <3>2. 1 \in Int /\ n \in Int
      OBVIOUS
    <3> QED
      BY <3>1, <3>2, FS_Interval
  <2>5. IsFiniteSet(F)
    <3>1. PICK f : f = [n \in DOMAIN handlers |-> handlers[n].fence]
      OBVIOUS
    <3>2. F = {f[n] : n \in DOMAIN f} /\ DOMAIN f = DOMAIN handlers
      BY <3>1
    <3> HIDE DEF F
    <3> QED
      BY <2>4, <3>2, ValuesFinite
  <2>6. IsFiniteSet(DOMAIN s.waits \cup O)
    BY <2>1, <2>3, FS_Union
  <2> HIDE DEF O, F
  <2> QED
    BY <1>1, <2>5, <2>6, FS_Union
<1>3. PICK n \in Nat : n = Cardinality(S)
  BY <1>2, FS_CardinalityType
<1>4. PICK R : R = (1 .. n + 1) \ S
  OBVIOUS
<1>5. R # {}
  <2> SUFFICES ASSUME 1 .. n + 1 \subseteq S PROVE FALSE
    BY <1>4
  <2>1. 1 \in Int /\ n + 1 \in Int
    OBVIOUS
  <2>2. Cardinality(1 .. n + 1) = n + 1
    BY <2>1, FS_Interval
  <2>3. Cardinality(1 .. n + 1) <= n
    BY <1>2, <1>3, FS_Subset
  <2> QED
    BY <2>2, <2>3
<1>6. PICK y \in R : \A z \in R : y <= z
  <2>1. R \subseteq Nat
    BY <1>4
  <2> QED
    BY <1>5, <2>1, LeastNat
<1>7. x = MetalStream!Min(R)
  <2>1. x = MetalStream!Min((1 .. Cardinality(S) + 1) \ S)
    <3>1. MetalStream!Range(s.outputs) = O
      BY DEF MetalStream!Range
    <3>2. x = MetalStream!Min((1 .. MetalStream!Cardinality(S) + 1) \ S)
      BY <1>1, <3>1 DEF MetalStream!NewFence
    <3>3. MetalStream!Cardinality(S) = Cardinality(S)
      BY DEF MetalStream!Cardinality, Cardinality
    <3> QED
      BY <3>2, <3>3
  <2> QED
    BY <1>3, <1>4, <2>1
<1>8. x \in R
  BY <1>6, <1>7 DEF MetalStream!Min
<1> QED
  BY <1>1, <1>4, <1>8

\* A concurrent context begins.
LEMMA ContextBegins ==
  ASSUME NEW s, NEW ks, NEW L, Coded(s, ks, 0, L, {}), NEW c \in Nat,
         NEW Z, \A n \in DOMAIN ks : Touched(ks[n]) \cap Z = {}
  PROVE  Coded(s, ks, c, L, Z)
<1>1. MetalTypes(s, ks) /\ Homes(s, ks) /\ Current(s.encoder, ks, 0) /\ Tracked(s, ks, L)
      /\ Sequenced(s, ks, {})
  BY DEF Coded
<1>2. Current(s.encoder, ks, c)
  BY <1>1 DEF Current
<1>3. ASSUME NEW x, NEW j \in DOMAIN ks, WillWait(s, x, ks[j].reads \cup ks[j].writes, {})
      PROVE  WillWait(s, x, ks[j].reads \cup ks[j].writes, Z)
  <2>1. (ks[j].reads \cup ks[j].writes) \cap Z = {}
    BY DEF Touched, Changed
  <2> QED
    BY <1>3, <2>1 DEF WillWait
<1>4. Sequenced(s, ks, Z)
  BY <1>1, <1>3 DEF Sequenced
<1> QED
  BY <1>1, <1>2, <1>4 DEF Coded

\* An encoder is opened unless there is one.
LEMMA OpenEncoder ==
  ASSUME NEW s, NEW ks, NEW c \in Nat, NEW L, NEW Z, Coded(s, ks, c, L, Z),
         NEW fl, Booked(s, fl, handlers), NEW t, t = MetalStream!GetCommandEncoder(s)
  PROVE  /\ Coded(t, ks, c, L, Z) /\ Booked(t, fl, handlers) /\ t.encoder.id # 0
         /\ t = [s EXCEPT !.encoder = t.encoder]
         /\ s.encoder.id # 0 => t = s
         /\ t.temporaries = s.temporaries /\ t.outputs = s.outputs
         /\ t.handlers = s.handlers /\ t.encoders = s.encoders /\ t.waits = s.waits
         /\ t.issued = s.issued
<1>1. MetalTypes(s, ks) /\ Homes(s, ks) /\ Current(s.encoder, ks, c) /\ Tracked(s, ks, L)
      /\ Sequenced(s, ks, Z)
  BY DEF Coded
<1>2. CASE s.encoder.id # 0
  <2>1. t = s
    BY <1>2 DEF MetalStream!GetCommandEncoder
  <2>2. s = [s EXCEPT !.encoder = s.encoder]
    BY <1>1 DEF MetalTypes
  <2> QED
    BY <1>2, <2>1, <2>2
<1>3. CASE s.encoder.id = 0
  <2>1. PICK x : x = MetalStream!NewFence(s)
    OBVIOUS
  <2>2. handlers \in Seq(MetalHandler)
    BY DEF Booked
  <2>3. /\ x \in Nat \ {0} /\ x \notin DOMAIN s.waits
        /\ \A n \in DOMAIN handlers : handlers[n].fence # x
    BY <1>1, <2>1, <2>2, NewFenceFacts
  <2>4. PICK e : e = [MetalStream!NoEncoder EXCEPT !.id = x]
    OBVIOUS
  <2>5. e \in MetalEncoder /\ e.id = x /\ e.outputs = {}
    BY <2>3, <2>4 DEF MetalStream!NoEncoder, MetalEncoder
  <2>6. t = [s EXCEPT !.encoder = e]
    BY <1>3, <2>1, <2>4 DEF MetalStream!GetCommandEncoder
  <2>7. /\ t.encoder = e /\ t.temporaries = s.temporaries /\ t.outputs = s.outputs
        /\ t.handlers = s.handlers /\ t.encoders = s.encoders /\ t.waits = s.waits
        /\ t.issued = s.issued
        /\ t = [encoder |-> t.encoder, temporaries |-> t.temporaries, outputs |-> t.outputs,
                handlers |-> t.handlers, encoders |-> t.encoders, waits |-> t.waits,
                issued |-> t.issued]
    BY <1>1, <2>6 DEF MetalTypes
  <2>8. \A n \in DOMAIN ks : ks[n].encoder \in DOMAIN s.waits /\ ks[n].encoder # x
    BY <1>1, <1>3, <2>3 DEF Homes
  <2>9. MetalTypes(t, ks)
    BY <1>1, <2>5, <2>7 DEF MetalTypes
  <2>10. Homes(t, ks)
    BY <1>1, <2>3, <2>5, <2>7, <2>8 DEF Homes
  <2>11. Current(t.encoder, ks, c)
    BY <2>5, <2>7, <2>8 DEF Current
  <2>12. Tracked(t, ks, L)
    BY <1>1, <2>7 DEF Tracked
  <2>13. Sequenced(t, ks, Z)
    <3> SUFFICES ASSUME NEW i \in DOMAIN ks, NEW j \in DOMAIN ks, i < j,
                        MetalStream!Conflict(ks[i], ks[j])
                 PROVE  LET p == ks[i].encoder
                            q == ks[j].encoder
                        IN  /\ p = q => ks[i].phase < ks[j].phase
                            /\ p \in DOMAIN t.waits /\ q = t.encoder.id =>
                                 WillWait(t, p, ks[j].reads \cup ks[j].writes, Z)
                            /\ p \in DOMAIN t.waits /\ q \in DOMAIN t.waits /\ p # q =>
                                 \E y \in t.waits[q] : p \in Reaching(t.waits, y)
      BY DEF Sequenced
    <3>1. ks[j].encoder # t.encoder.id
      BY <2>5, <2>7, <2>8
    <3> QED
      BY <1>1, <2>7, <3>1 DEF Sequenced
  <2>14. Coded(t, ks, c, L, Z)
    BY <2>9, <2>10, <2>11, <2>12, <2>13 DEF Coded
  <2>15. Booked(t, fl, handlers)
    BY <2>3, <2>5, <2>7 DEF Booked
  <2> QED
    BY <1>3, <2>3, <2>5, <2>6, <2>7, <2>14, <2>15
<1> QED
  BY <1>2, <1>3

\* A kernel is dispatched: it may use what nobody changed, or what is in L, and
\* write what nobody only reads.
MayUse(s, ks, R, W, c, L) ==
  \A n \in DOMAIN ks :
    /\ ks[n].reads \cap W \subseteq ks[n].writes
    /\ ks[n].encoder \in DOMAIN s.waits => Changed(ks[n]) \cap (R \cup W) \subseteq L
    /\ c # 0 /\ ks[n].context = c => ks[n].encoder = s.encoder.id

Grown(s, ks, R, W, c, t, ls) ==
  /\ t = [s EXCEPT !.encoder = t.encoder, !.issued = @ + 1]
  /\ t.encoder.id = s.encoder.id
  /\ \E l \in MetalKernel :
       /\ ls = MetalStream!Encode(ks, s.issued + 1, l)
       /\ l.reads = R /\ l.writes = W /\ l.opens = {} /\ l.signals = {}
       /\ l.context = c /\ l.encoder = s.encoder.id

LEMMA DispatchKeeps ==
  ASSUME NEW s, NEW ks, NEW c \in Nat, NEW L \in SUBSET Buffers, NEW Z \in SUBSET Buffers, L \cap Z = {},
         Coded(s, ks, c, L, Z),
         s.encoder.id # 0,
         NEW R \in SUBSET Buffers, NEW W \in SUBSET Buffers,
         MayUse(s, ks, R, W, c, L),
         NEW run, run.stream = s, run.kernels = ks,
         NEW new, new = MetalStream!Dispatch(run, MetalStream!Kernel(R, W), c),
         NEW t, t = new.stream, NEW ls, ls = new.kernels
  PROVE  Coded(t, ls, c, L, Z) /\ Grown(s, ks, R, W, c, t, ls)
<1> USE DEF MayUse, Grown
<1>1. PICK e : e = s.encoder
  OBVIOUS
<1>2. MetalTypes(s, ks) /\ Current(e, ks, c) /\ e \in MetalEncoder
  BY <1>1 DEF Coded, MetalTypes
<1>3. PICK f : f = MetalStream!MaybeInsertBarrier(
                     MetalStream!SetOutputs(MetalStream!SetInputs(e, R), W, c # 0))
  OBVIOUS
<1>5. /\ f \in MetalEncoder /\ f.id = e.id
      /\ f.inputs = e.inputs \cup R \cup W /\ f.outputs = e.outputs \cup W
      /\ f.phase = e.phase \/ f.phase = e.phase + 1
      /\ (R \cup W) \cap e.prev # {} => f.phase = e.phase + 1
      /\ f.phase = e.phase => e.prev \subseteq f.prev
      /\ e.concurrent \subseteq f.concurrent
      /\ IF c # 0 THEN W \subseteq f.concurrent ELSE W \subseteq f.prev
  <2>1. Prepared(e, R, W, c, f)
    BY <1>2, <1>3, EncoderFacts
  <2> QED
    BY <2>1 DEF Prepared
<1>6. PICK l : l = [reads |-> R, writes |-> W, opens |-> {}, signals |-> {}, context |-> c,
                    encoder |-> f.id, phase |-> f.phase]
  OBVIOUS
<1>7. /\ l \in MetalKernel /\ l.reads = R /\ l.writes = W /\ l.opens = {} /\ l.signals = {}
      /\ l.context = c /\ l.encoder = e.id /\ l.phase = f.phase /\ Changed(l) = W
  BY <1>5, <1>6 DEF MetalKernel, MetalEncoder, Changed
<1>8. MetalStream!GetCommandEncoder(s) = s
  BY DEF MetalStream!GetCommandEncoder
<1>9. /\ t = [s EXCEPT !.encoder = f, !.issued = @ + 1]
      /\ ls = MetalStream!Encode(ks, s.issued + 1, l)
  BY <1>1, <1>3, <1>6, <1>8 DEF MetalStream!Dispatch, MetalStream!Kernel
<1>10. e.phase \in Nat /\ f.phase \in Nat /\ e.phase <= f.phase
  BY <1>2, <1>5 DEF MetalEncoder
<1>11. ASSUME NEW n \in DOMAIN ks, ks[n].encoder = e.id, ks[n].phase = f.phase,
              c = 0 \/ ks[n].context # c
       PROVE  Changed(ks[n]) \cap (R \cup W) = {}
  <2>1. ks[n].phase <= e.phase /\ ks[n].phase \in Nat
    BY <1>2, <1>11 DEF Current, MetalTypes, MetalKernel
  <2>2. f.phase = e.phase /\ ks[n].phase = e.phase
    BY <1>10, <1>11, <2>1
  <2>3. Changed(ks[n]) \subseteq e.prev
    BY <1>2, <1>11, <2>2 DEF Current
  <2>4. (R \cup W) \cap e.prev = {}
    BY <1>5, <1>10, <2>2
  <2> QED
    BY <2>3, <2>4
<1>12. Coded(t, ls, c, L, Z)
  <2>1. e.inputs \cup l.reads \cup l.writes \subseteq f.inputs
        /\ f.outputs = e.outputs \cup Changed(l)
        /\ (f.phase = e.phase => e.prev \subseteq f.prev /\ e.concurrent \subseteq f.concurrent)
        /\ Changed(l) \subseteq f.prev \cup (IF c # 0 THEN f.concurrent ELSE {})
    BY <1>5, <1>7
  <2>2. \A n \in DOMAIN ks :
          /\ ks[n].encoder = e.id /\ ks[n].phase = f.phase /\ (c = 0 \/ ks[n].context # c) =>
               Changed(ks[n]) \cap (l.reads \cup l.writes) = {}
          /\ ks[n].reads \cap l.writes \subseteq ks[n].writes
          /\ ks[n].encoder \in DOMAIN s.waits =>
               Changed(ks[n]) \cap (l.reads \cup l.writes) \subseteq L
          /\ l.opens \cap Touched(ks[n]) = {}
          /\ c # 0 /\ ks[n].context = c => ks[n].encoder = e.id
    BY <1>1, <1>7, <1>11
  <2>3. e = s.encoder /\ e.id # 0 /\ Coded(s, ks, c, L, Z) /\ c \in Nat /\ L \in SUBSET Buffers
        /\ Z \in SUBSET Buffers /\ L \cap Z = {}
    BY <1>1
  <2>4. l \in MetalKernel /\ l.encoder = e.id /\ l.context = c /\ l.phase = f.phase
    BY <1>7
  <2>5. f \in MetalEncoder /\ f.id = e.id /\ e.phase <= f.phase
    BY <1>5, <1>10
  <2>6. t = [s EXCEPT !.encoder = f, !.issued = @ + 1]
    BY <1>9
  <2>7. ls = MetalStream!Encode(ks, s.issued + 1, l)
    BY <1>9
  <2> QED
    BY ONLY <2>1, <2>2, <2>3, <2>4, <2>5, <2>6, <2>7, EncodeKeeps, ZenonT(60)
<1>13. t.encoder = f /\ t = [s EXCEPT !.encoder = t.encoder, !.issued = @ + 1]
  BY <1>2, <1>9 DEF MetalTypes
<1> QED
  BY <1>1, <1>5, <1>7, <1>9, <1>12, <1>13

\* The largest of 1 .. n.
LEMMA MaxIs ==
  ASSUME NEW T, NEW n \in T, T \subseteq Nat, \A y \in T : y <= n
  PROVE  MetalStream!Max(T) = n
<1>1. \A y \in T : n >= y
  OBVIOUS
<1>2. ASSUME NEW x \in T, \A y \in T : x >= y PROVE x = n
  <2>1. x >= n /\ x <= n /\ x \in Nat /\ n \in Nat
    BY <1>2
  <2> QED
    BY <2>1
<1> QED
  BY <1>1, <1>2 DEF MetalStream!Max

\* Encoding a plan is dispatching its kernels one after the other.
Folded(base, plan, c, f, T) ==
  IF T = {} THEN base
  ELSE MetalStream!Dispatch(f[T \ {MetalStream!Max(T)}], plan[MetalStream!Max(T)], c)

FoldedAll(base, plan, c) ==
  (CHOOSE f : f = [T \in SUBSET DOMAIN plan |-> Folded(base, plan, c, f, T)])[DOMAIN plan]

Dispatched(R, base, plan, n, c) ==
  R[0] = base /\ \A k \in 1 .. n : R[k] = MetalStream!Dispatch(R[k - 1], plan[k], c)

LEMMA FoldSteps ==
  ASSUME NEW base, NEW n \in Nat, NEW plan, DOMAIN plan = 1 .. n, NEW c
  PROVE  \E R : Dispatched(R, base, plan, n, c) /\ R[n] = FoldedAll(base, plan, c)
<1>0. PICK run : run = FoldedAll(base, plan, c)
  OBVIOUS
<1> USE DEF Folded
<1> DEFINE Next1(f, T) == Folded(base, plan, c, f, T)
           Folds(f, m) == f = [T \in SUBSET (1 .. m) |-> Next1(f, T)]
           M == {m \in Nat : \E f : Folds(f, m)}
<1>1. 0 \in M
  <2>1. SUBSET (1 .. 0) = {{}}
    OBVIOUS
  <2>2. PICK f : f = [T \in SUBSET (1 .. 0) |-> base]
    OBVIOUS
  <2>3. Folds(f, 0)
    BY <2>1, <2>2
  <2> HIDE DEF Folds
  <2> QED
    BY <2>3
<1>2. ASSUME NEW m \in Nat, NEW f, Folds(f, m) PROVE \E g : Folds(g, m + 1)
  <2>1. PICK g : g = [T \in SUBSET (1 .. m + 1) |->
                        IF m + 1 \in T
                        THEN MetalStream!Dispatch(f[T \ {m + 1}], plan[m + 1], c) ELSE f[T]]
    OBVIOUS
  <2>2. ASSUME NEW T \in SUBSET (1 .. m + 1) PROVE g[T] = Next1(g, T)
    <3>1. CASE m + 1 \in T
      <4>1. T \subseteq Nat /\ \A y \in T : y <= m + 1
        OBVIOUS
      <4>2. MetalStream!Max(T) = m + 1
        BY <3>1, <4>1, MaxIs
      <4>3. T \ {m + 1} \in SUBSET (1 .. m)
        OBVIOUS
      <4>4. g[T \ {m + 1}] = f[T \ {m + 1}]
        BY <2>1, <4>3
      <4>5. g[T] = MetalStream!Dispatch(f[T \ {m + 1}], plan[m + 1], c)
        BY <2>1, <3>1
      <4> QED
        BY <3>1, <4>2, <4>4, <4>5
    <3>2. CASE m + 1 \notin T
      <4>1. T \in SUBSET (1 .. m)
        BY <3>2
      <4>2. g[T] = f[T]
        BY <2>1, <3>2
      <4>3. f[T] = Next1(f, T)
        BY <1>2, <4>1
      <4>4. T # {} => g[T \ {MetalStream!Max(T)}] = f[T \ {MetalStream!Max(T)}]
        BY <2>1, <3>2
      <4> QED
        BY <4>2, <4>3, <4>4
    <3> QED
      BY <3>1, <3>2
  <2>3. g = [T \in SUBSET (1 .. m + 1) |-> g[T]]
    BY <2>1
  <2>4. Folds(g, m + 1)
    <3> HIDE DEF Next1
    <3> QED
      BY <2>2, <2>3
  <2> HIDE DEF Folds
  <2> QED
    BY <2>4
<1>3. n \in M
  <2> HIDE DEF Folds
  <2>1. \A m \in Nat : m \in M => m + 1 \in M
    BY <1>2
  <2> HIDE DEF M
  <2> QED
    BY <1>1, <2>1, NatSetInduction
<1>5. run = (CHOOSE f : Folds(f, n))[1 .. n]
  BY <1>0 DEF FoldedAll
<1>6. PICK f : Folds(f, n) /\ run = f[1 .. n]
  <2> HIDE DEF Folds
  <2> QED
    BY <1>3, <1>5
<1>7. \A T \in SUBSET (1 .. n) : f[T] = Next1(f, T)
  BY <1>6
<1>8. PICK R : R = [k \in 0 .. n |-> f[1 .. k]]
  OBVIOUS
<1>9. R[0] = base /\ R[n] = run
  <2>1. 1 .. 0 = {} /\ {} \in SUBSET (1 .. n)
    OBVIOUS
  <2>2. f[{}] = base
    BY <1>7, <2>1
  <2>3. 0 \in 0 .. n /\ n \in 0 .. n
    OBVIOUS
  <2>4. R[0] = f[1 .. 0] /\ R[n] = f[1 .. n]
    BY <1>8, <2>3
  <2> QED
    BY ONLY <1>6, <2>1, <2>2, <2>4
<1>10. ASSUME NEW k \in 1 .. n PROVE R[k] = MetalStream!Dispatch(R[k - 1], plan[k], c)
  <2>6. k \in Nat /\ k >= 1 /\ k <= n
    OBVIOUS
  <2>7. k \in 1 .. k
    BY <2>6
  <2>1. 1 .. k \in SUBSET (1 .. n) /\ 1 .. k \subseteq Nat /\ 1 .. k # {}
        /\ \A y \in 1 .. k : y <= k
    BY ONLY <2>6, <2>7, n \in Nat
  <2>2. MetalStream!Max(1 .. k) = k
    BY <2>1, <2>7, MaxIs
  <2>3. (1 .. k) \ {k} = 1 .. k - 1
    OBVIOUS
  <2>4. f[1 .. k] = MetalStream!Dispatch(f[1 .. k - 1], plan[k], c)
    BY <1>7, <2>1, <2>2, <2>3
  <2>5. k \in 0 .. n /\ k - 1 \in 0 .. n
    OBVIOUS
  <2> QED
    BY <1>8, <2>4, <2>5
<1> QED
  BY <1>0, <1>9, <1>10 DEF Dispatched

\* A finite set as a sequence.
LEMMA SetToSeqFacts ==
  ASSUME NEW S, IsFiniteSet(S), NEW q, q = MetalStream!SetToSeq(S)
  PROVE  Cardinality(S) \in Nat /\ q \in [1 .. Cardinality(S) -> S]
         /\ MetalStream!Cardinality(S) = Cardinality(S)
<1>1. Cardinality(S) \in Nat /\ ExistsBijection(1 .. Cardinality(S), S)
  BY FS_CardinalityType
<1>2. MetalStream!Cardinality(S) = Cardinality(S)
  BY DEF MetalStream!Cardinality, Cardinality
<1>3. PICK f \in Injection(1 .. Cardinality(S), S) : TRUE
  BY <1>1 DEF ExistsBijection, Bijection
<1>4. f \in [1 .. Cardinality(S) -> S] /\ MetalStream!IsInjective(f)
  BY <1>3 DEF Injection, IsInjective, MetalStream!IsInjective
<1> QED
  BY <1>1, <1>2, <1>4 DEF MetalStream!SetToSeq

-----------------------------------------------------------------------------
(* Operations on a Metal stream *)

\* What the kernels of a plan may use and write.
Allowed(s, ks, plan, n, c, L) ==
  /\ \A k \in 1 .. n :
       /\ plan[k] = MetalStream!Kernel(plan[k].reads, plan[k].writes)
       /\ plan[k].reads \subseteq Buffers /\ plan[k].writes \subseteq Buffers
       /\ \A j \in 1 .. k - 1 : plan[j].reads \cap plan[k].writes \subseteq plan[j].writes
       /\ \A i \in DOMAIN ks :
            /\ ks[i].reads \cap plan[k].writes \subseteq ks[i].writes
            /\ ks[i].encoder \in DOMAIN s.waits =>
                 Changed(ks[i]) \cap (plan[k].reads \cup plan[k].writes) \subseteq L
  /\ c # 0 => \A i \in DOMAIN ks : ks[i].context # c

\* Stream t and kernels ls after k kernels of the plan, from s and ks.
Planned(s, ks, plan, c, k, t, ls) ==
  /\ t = [s EXCEPT !.encoder = t.encoder, !.issued = s.issued + k]
  /\ t.encoder.id = s.encoder.id
  /\ \A i \in DOMAIN ks : i \in DOMAIN ls /\ ls[i] = ks[i]
  /\ \A i \in DOMAIN ls \ DOMAIN ks : \E j \in 1 .. k :
       /\ ls[i].reads = plan[j].reads /\ ls[i].writes = plan[j].writes
       /\ ls[i].opens = {} /\ ls[i].signals = {} /\ ls[i].context = c
       /\ ls[i].encoder = s.encoder.id

LEMMA PlanKeeps ==
  ASSUME NEW s, NEW ks, NEW c \in Nat, NEW L \in SUBSET Buffers, NEW Z \in SUBSET Buffers, L \cap Z = {},
         Coded(s, ks, c, L, Z),
         s.encoder.id # 0, NEW n \in Nat, NEW plan, Allowed(s, ks, plan, n, c, L),
         NEW R, Dispatched(R, [stream |-> s, kernels |-> ks], plan, n, c)
  PROVE  /\ Coded(R[n].stream, R[n].kernels, c, L, Z)
         /\ Planned(s, ks, plan, c, n, R[n].stream, R[n].kernels)
<1> DEFINE Good(k) == /\ Coded(R[k].stream, R[k].kernels, c, L, Z)
                      /\ Planned(s, ks, plan, c, k, R[k].stream, R[k].kernels)
           T == {k \in Nat : k <= n => Good(k)}
<1>1. MetalTypes(s, ks)
  BY DEF Coded
<1>2. Good(0)
  <2>1. R[0].stream = s /\ R[0].kernels = ks
    BY DEF Dispatched
  <2>2. s = [s EXCEPT !.encoder = s.encoder, !.issued = s.issued + 0]
    <3>1. s.issued + 0 = s.issued
      BY <1>1 DEF MetalTypes
    <3> QED
      BY <1>1, <3>1 DEF MetalTypes
  <2>3. Planned(s, ks, plan, c, 0, s, ks)
    BY <2>2 DEF Planned
  <2> QED
    BY <2>1, <2>3
<1>3. ASSUME NEW k \in Nat, k + 1 <= n, Good(k) PROVE Good(k + 1)
  <2>1. PICK u, vs : u = R[k].stream /\ vs = R[k].kernels
    OBVIOUS
  <2>2. PICK r, w : r = plan[k + 1].reads /\ w = plan[k + 1].writes
    OBVIOUS
  <2>3. k + 1 \in 1 .. n /\ (k + 1) - 1 = k
    BY <1>3
  <2>4. R[k + 1] = MetalStream!Dispatch(R[k], plan[k + 1], c)
    BY <2>3 DEF Dispatched
  <2>5. /\ plan[k + 1] = MetalStream!Kernel(r, w) /\ r \in SUBSET Buffers /\ w \in SUBSET Buffers
        /\ \A j \in 1 .. k : plan[j].reads \cap w \subseteq plan[j].writes
        /\ \A i \in DOMAIN ks :
             /\ ks[i].reads \cap w \subseteq ks[i].writes
             /\ ks[i].encoder \in DOMAIN s.waits => Changed(ks[i]) \cap (r \cup w) \subseteq L
    BY <2>2, <2>3 DEF Allowed
  <2>6. c # 0 => \A i \in DOMAIN ks : ks[i].context # c
    BY DEF Allowed
  <2>7. Coded(u, vs, c, L, Z) /\ Planned(s, ks, plan, c, k, u, vs)
    BY <1>3, <2>1
  <2>8. u = [s EXCEPT !.encoder = u.encoder, !.issued = s.issued + k] /\ u.encoder.id = s.encoder.id
    BY <2>7 DEF Planned
  <2>9. u.waits = s.waits /\ u.issued = s.issued + k /\ s.issued \in Nat
    BY <1>1, <2>8 DEF MetalTypes
  <2>10. s.encoder.id \notin DOMAIN s.waits
    BY DEF Coded, Homes
  <2>11. \A i \in DOMAIN vs :
           /\ vs[i].reads \cap w \subseteq vs[i].writes
           /\ vs[i].encoder \in DOMAIN u.waits => Changed(vs[i]) \cap (r \cup w) \subseteq L
           /\ c # 0 /\ vs[i].context = c => vs[i].encoder = u.encoder.id
    <3> SUFFICES ASSUME NEW i \in DOMAIN vs
                 PROVE  /\ vs[i].reads \cap w \subseteq vs[i].writes
                        /\ vs[i].encoder \in DOMAIN u.waits =>
                             Changed(vs[i]) \cap (r \cup w) \subseteq L
                        /\ c # 0 /\ vs[i].context = c => vs[i].encoder = u.encoder.id
      OBVIOUS
    <3>1. CASE i \in DOMAIN ks
      <4>1. vs[i] = ks[i]
        BY <2>7, <3>1 DEF Planned
      <4> QED
        BY <2>5, <2>6, <2>9, <3>1, <4>1
    <3>2. CASE i \notin DOMAIN ks
      <4>1. PICK j \in 1 .. k :
              /\ vs[i].reads = plan[j].reads /\ vs[i].writes = plan[j].writes
              /\ vs[i].encoder = s.encoder.id
        BY <2>7, <3>2 DEF Planned
      <4> QED
        BY <2>5, <2>8, <2>9, <2>10, <4>1
    <3> QED
      BY <3>1, <3>2
  <2>12. PICK t, ls : t = R[k + 1].stream /\ ls = R[k + 1].kernels
    OBVIOUS
  <2>13. PICK run, new : /\ run = R[k] /\ new = MetalStream!Dispatch(run, MetalStream!Kernel(r, w), c)
                         /\ t = new.stream /\ ls = new.kernels
    BY <2>4, <2>5, <2>12
  <2>14. /\ Coded(t, ls, c, L, Z)
         /\ t = [u EXCEPT !.encoder = t.encoder, !.issued = @ + 1]
         /\ t.encoder.id = u.encoder.id
         /\ \E l \in MetalKernel :
              /\ ls = MetalStream!Encode(vs, u.issued + 1, l)
              /\ l.reads = r /\ l.writes = w /\ l.opens = {} /\ l.signals = {}
              /\ l.context = c /\ l.encoder = u.encoder.id
    <3>1. u.encoder.id # 0 /\ run.stream = u /\ run.kernels = vs
      BY <2>1, <2>8, <2>13
    <3>2. c \in Nat /\ L \in SUBSET Buffers
      OBVIOUS
    <3>3. MayUse(u, vs, r, w, c, L)
      BY <2>11 DEF MayUse
    <3>4. Coded(t, ls, c, L, Z) /\ Grown(u, vs, r, w, c, t, ls)
      BY <2>5, <2>7, <2>13, <3>1, <3>2, <3>3, DispatchKeeps
    <3> QED
      BY <3>4 DEF Grown
  <2>15. Planned(s, ks, plan, c, k + 1, t, ls)
    <3>1. PICK l \in MetalKernel :
            /\ ls = MetalStream!Encode(vs, u.issued + 1, l)
            /\ l.reads = r /\ l.writes = w /\ l.opens = {} /\ l.signals = {}
            /\ l.context = c /\ l.encoder = s.encoder.id
      BY <2>8, <2>14
    <3>2. PICK m \in Nat : m = u.issued + 1
      BY <2>9
    <3>3. m \notin DOMAIN vs
      <4>1. DOMAIN vs \subseteq 1 .. u.issued
        BY <2>7 DEF Coded, MetalTypes
      <4> QED
        BY <2>9, <3>2, <4>1
    <3>4. /\ DOMAIN ls = DOMAIN vs \cup {m} /\ ls[m] = l
          /\ \A i \in DOMAIN vs : ls[i] = vs[i]
      <4>1. ls = [i \in DOMAIN vs \cup {m} |-> IF i = m THEN l ELSE vs[i]]
        BY <3>1, <3>2 DEF MetalStream!Encode
      <4> QED
        BY ONLY <3>3, <4>1
    <3>5. \A i \in DOMAIN ks : i \in DOMAIN ls /\ ls[i] = ks[i]
      BY <2>7, <3>4 DEF Planned
    <3>6. \A i \in DOMAIN ls \ DOMAIN ks : \E j \in 1 .. k + 1 :
            /\ ls[i].reads = plan[j].reads /\ ls[i].writes = plan[j].writes
            /\ ls[i].opens = {} /\ ls[i].signals = {} /\ ls[i].context = c
            /\ ls[i].encoder = s.encoder.id
      <4> TAKE i \in DOMAIN ls \ DOMAIN ks
      <4>1. CASE i = m
        <5>1. k + 1 \in 1 .. k + 1
          BY <2>3
        <5> QED
          BY <2>2, <3>1, <3>4, <4>1, <5>1
      <4>2. CASE i # m
        <5>1. i \in DOMAIN vs \ DOMAIN ks /\ ls[i] = vs[i]
          BY <3>4, <4>2
        <5>2. PICK j \in 1 .. k :
                /\ vs[i].reads = plan[j].reads /\ vs[i].writes = plan[j].writes
                /\ vs[i].opens = {} /\ vs[i].signals = {} /\ vs[i].context = c
                /\ vs[i].encoder = s.encoder.id
          BY <2>7, <5>1 DEF Planned
        <5>3. j \in 1 .. k + 1
          OBVIOUS
        <5> QED
          BY <5>1, <5>2, <5>3
      <4> QED
        BY <4>1, <4>2
    <3>7. t = [s EXCEPT !.encoder = t.encoder, !.issued = s.issued + (k + 1)]
      <4>1. u.issued + 1 = s.issued + (k + 1)
        BY <2>9
      <4> QED
        BY <1>1, <2>8, <2>14, <4>1 DEF MetalTypes
    <3> QED
      BY <2>8, <2>14, <3>5, <3>6, <3>7 DEF Planned
  <2> QED
    BY <2>12, <2>14, <2>15
<1>4. n \in T
  <2> HIDE DEF Good
  <2>1. 0 \in T
    BY <1>2
  <2>2. \A k \in Nat : k \in T => k + 1 \in T
    BY <1>3
  <2> HIDE DEF T
  <2> QED
    BY <2>1, <2>2, NatSetInduction
<1> QED
  BY <1>4

\* The first kernel opens an encoder if there is none.
Opened(s, fl, ks, plan, c, L, Z, n, run) ==
  \E o : /\ Booked(o, fl, handlers) /\ o.encoder.id # 0
         /\ Coded(run.stream, run.kernels, c, L, Z)
         /\ Planned(o, ks, plan, c, n, run.stream, run.kernels)
         /\ MetalTypes(o, ks)
         /\ o.temporaries = s.temporaries /\ o.outputs = s.outputs
         /\ o.handlers = s.handlers /\ o.encoders = s.encoders /\ o.waits = s.waits
         /\ o.issued = s.issued

LEMMA PlanEncodes ==
  ASSUME NEW s, NEW ks, NEW c \in Nat, NEW L \in SUBSET Buffers, NEW Z \in SUBSET Buffers, L \cap Z = {},
         Coded(s, ks, 0, L, {}), \A i \in DOMAIN ks : Touched(ks[i]) \cap Z = {},
         NEW fl, Booked(s, fl, handlers),
         NEW n \in Nat \ {0}, NEW plan, Allowed(s, ks, plan, n, c, L),
         NEW R, Dispatched(R, [stream |-> s, kernels |-> ks], plan, n, c)
  PROVE  Opened(s, fl, ks, plan, c, L, Z, n, R[n])
<1>1. PICK o : o = MetalStream!GetCommandEncoder(s)
  OBVIOUS
<1>2. Coded(s, ks, c, L, Z)
  BY ContextBegins
<1>3. /\ Coded(o, ks, c, L, Z) /\ Booked(o, fl, handlers) /\ o.encoder.id # 0
      /\ o.temporaries = s.temporaries /\ o.outputs = s.outputs
      /\ o.handlers = s.handlers /\ o.encoders = s.encoders /\ o.waits = s.waits
      /\ o.issued = s.issued
  BY <1>1, <1>2, OpenEncoder
<1>4. MetalStream!GetCommandEncoder(o) = o
  BY <1>3 DEF MetalStream!GetCommandEncoder
<1>5. Allowed(o, ks, plan, n, c, L)
  BY <1>3 DEF Allowed
<1>6. PICK Q : Q = [k \in 0 .. n |-> IF k = 0 THEN [stream |-> o, kernels |-> ks] ELSE R[k]]
  OBVIOUS
<1>7. Q[n] = R[n]
  BY <1>6
<1>8. Dispatched(Q, [stream |-> o, kernels |-> ks], plan, n, c)
  <2>1. Q[0] = [stream |-> o, kernels |-> ks]
    BY <1>6
  <2>2. ASSUME NEW k \in 1 .. n PROVE Q[k] = MetalStream!Dispatch(Q[k - 1], plan[k], c)
    <3>1. Q[k] = MetalStream!Dispatch(R[k - 1], plan[k], c)
      BY <1>6 DEF Dispatched
    <3>2. CASE k = 1
      <4>1. k - 1 = 0 /\ R[k - 1] = [stream |-> s, kernels |-> ks]
        BY <3>2 DEF Dispatched
      <4>2. MetalStream!Dispatch([stream |-> s, kernels |-> ks], plan[k], c)
              = MetalStream!Dispatch([stream |-> o, kernels |-> ks], plan[k], c)
        BY <1>1, <1>4 DEF MetalStream!Dispatch
      <4> QED
        BY <2>1, <3>1, <4>1, <4>2
    <3>3. CASE k # 1
      <4>1. k - 1 \in 0 .. n /\ k - 1 # 0
        BY <3>3
      <4>2. Q[k - 1] = R[k - 1]
        BY <1>6, <4>1
      <4> QED
        BY <3>1, <4>2
    <3> QED
      BY <3>2, <3>3
  <2> QED
    BY <2>1, <2>2 DEF Dispatched
<1>9. /\ Coded(Q[n].stream, Q[n].kernels, c, L, Z)
      /\ Planned(o, ks, plan, c, n, Q[n].stream, Q[n].kernels)
  BY <1>3, <1>5, <1>8, PlanKeeps
<1> QED
  BY <1>1, <1>3, <1>7, <1>9 DEF Coded, Opened

\* What handlers free.
LEMMA FreesAppend ==
  ASSUME NEW hs \in Seq(MetalHandler), NEW h \in MetalHandler
  PROVE  /\ Append(hs, h) \in Seq(MetalHandler)
         /\ MetalStream!Frees(Append(hs, h)) = MetalStream!Frees(hs) \cup h.frees
         /\ \A n \in DOMAIN Append(hs, h) :
              Append(hs, h)[n] = h \/ \E m \in DOMAIN hs : Append(hs, h)[n] = hs[m]
<1>1. PICK gs : gs = Append(hs, h)
  OBVIOUS
<1>2. gs \in Seq(MetalHandler) /\ Len(gs) = Len(hs) + 1
  BY <1>1
<1>3. /\ DOMAIN gs = 1 .. Len(hs) + 1 /\ DOMAIN hs = 1 .. Len(hs) /\ Len(hs) \in Nat
      /\ gs[Len(hs) + 1] = h
      /\ \A n \in DOMAIN hs : gs[n] = hs[n]
  BY <1>1, <1>2
<1>4. \A n \in DOMAIN gs : n \in DOMAIN hs \/ n = Len(hs) + 1
  BY <1>3
<1>5. Len(hs) + 1 \in DOMAIN gs /\ \A n \in DOMAIN hs : n \in DOMAIN gs
  BY <1>3
<1>6. MetalStream!Frees(gs) = MetalStream!Frees(hs) \cup h.frees
  <2>1. ASSUME NEW b \in MetalStream!Frees(gs) PROVE b \in MetalStream!Frees(hs) \cup h.frees
    BY <1>3, <1>4, <2>1 DEF MetalStream!Frees
  <2>2. ASSUME NEW b \in MetalStream!Frees(hs) \cup h.frees PROVE b \in MetalStream!Frees(gs)
    BY <1>3, <1>5, <2>2 DEF MetalStream!Frees
  <2> QED
    BY <2>1, <2>2
<1> QED
  BY <1>1, <1>2, <1>3, <1>4, <1>6

\* The last handler keeps more alive.
LEMMA AddHandlerFacts ==
  ASSUME NEW s, NEW ks, MetalTypes(s, ks), NEW B \in SUBSET Buffers,
         NEW t, t = MetalStream!AddCompletedHandler(s, B)
  PROVE  /\ t = [s EXCEPT !.handlers = t.handlers] /\ t.handlers \in Seq(MetalHandler)
         /\ MetalStream!Frees(s.handlers) \cup B \subseteq MetalStream!Frees(t.handlers)
         /\ \A n \in DOMAIN t.handlers :
              t.handlers[n].fence = 0 \/
              \E m \in DOMAIN s.handlers : t.handlers[n].fence = s.handlers[m].fence
<1> DEFINE n == Len(s.handlers)
           h == [frees |-> B, fence |-> 0, outputs |-> {}]
<1>1. PICK hs : hs = s.handlers
  OBVIOUS
<1>2. hs \in Seq(MetalHandler) /\ s = [s EXCEPT !.handlers = hs]
  BY <1>1 DEF MetalTypes
<1>3. CASE B = {}
  BY <1>1, <1>2, <1>3 DEF MetalStream!AddCompletedHandler
<1>4. CASE B # {} /\ Len(hs) > 0 /\ hs[Len(hs)].fence = 0
  <2>1. PICK m \in DOMAIN hs : m = Len(hs)
    BY <1>2, <1>4
  <2>2. PICK gs : gs = [hs EXCEPT ![m].frees = @ \cup B]
    OBVIOUS
  <2>3. t = [s EXCEPT !.handlers = gs]
    BY <1>1, <1>4, <2>1, <2>2 DEF MetalStream!AddCompletedHandler
  <2>4. t.handlers = gs
    BY <2>3 DEF MetalTypes
  <2>5. hs[m] \in MetalHandler
    BY <1>2
  <2>6. /\ DOMAIN gs = DOMAIN hs /\ gs[m] = [hs[m] EXCEPT !.frees = @ \cup B]
        /\ \A i \in DOMAIN hs : i # m => gs[i] = hs[i]
    BY <2>2
  <2>7. /\ gs[m] \in MetalHandler /\ gs[m].fence = 0 /\ gs[m].frees = hs[m].frees \cup B
    BY <1>4, <2>1, <2>5, <2>6 DEF MetalHandler
  <2>8. gs \in Seq(MetalHandler)
    <3>1. DOMAIN hs = 1 .. Len(hs) /\ Len(hs) \in Nat
      BY <1>2
    <3>2. \A i \in DOMAIN hs : gs[i] \in MetalHandler
      <4> TAKE i \in DOMAIN hs
      <4>1. hs[i] \in MetalHandler
        BY <1>2
      <4> QED
        BY <2>6, <2>7, <4>1
    <3>3. gs = [i \in 1 .. Len(hs) |-> gs[i]]
      BY <2>2, <2>6, <3>1
    <3> QED
      BY ONLY <3>1, <3>2, <3>3, IsASeq
  <2>9. MetalStream!Frees(hs) \cup B \subseteq MetalStream!Frees(gs)
    <3> SUFFICES ASSUME NEW b \in MetalStream!Frees(hs) \cup B PROVE b \in MetalStream!Frees(gs)
      OBVIOUS
    <3>1. CASE b \in B
      BY <2>6, <2>7, <3>1 DEF MetalStream!Frees
    <3>2. CASE b \in MetalStream!Frees(hs)
      <4>1. PICK i \in DOMAIN hs : b \in hs[i].frees
        BY <3>2 DEF MetalStream!Frees
      <4>2. i \in DOMAIN gs /\ b \in gs[i].frees
        BY <2>6, <2>7, <4>1
      <4> QED
        BY <4>2 DEF MetalStream!Frees
    <3> QED
      BY <3>1, <3>2
  <2>10. \A i \in DOMAIN gs : gs[i].fence = 0 \/ gs[i].fence = hs[i].fence
    BY <2>6, <2>7
  <2> QED
    BY <1>1, <2>3, <2>4, <2>6, <2>8, <2>9, <2>10
<1>5. CASE B # {} /\ ~(Len(hs) > 0 /\ hs[Len(hs)].fence = 0)
  <2>1. t = [s EXCEPT !.handlers = Append(hs, h)]
    BY <1>1, <1>5 DEF MetalStream!AddCompletedHandler
  <2>2. h \in MetalHandler /\ h.fence = 0 /\ h.frees = B
    BY DEF MetalHandler
  <2>3. t.handlers = Append(hs, h)
    BY <2>1 DEF MetalTypes
  <2> HIDE DEF h
  <2>4. /\ Append(hs, h) \in Seq(MetalHandler)
        /\ MetalStream!Frees(Append(hs, h)) = MetalStream!Frees(hs) \cup h.frees
        /\ \A i \in DOMAIN Append(hs, h) :
             Append(hs, h)[i] = h \/ \E m \in DOMAIN hs : Append(hs, h)[i] = hs[m]
    BY <1>2, <2>2, FreesAppend
  <2> QED
    BY <1>1, <2>1, <2>2, <2>3, <2>4
<1> QED
  BY <1>3, <1>4, <1>5

\* Handlers do not matter for the order of kernels.
LEMMA AddHandlerKeeps ==
  ASSUME NEW s, NEW ks, NEW L \in SUBSET Buffers, NEW B \in SUBSET Buffers, NEW fl,
         Coded(s, ks, 0, L, {}), Booked(s, fl, handlers), Kept(s, fl, ks, L, B),
         NEW L2 \in SUBSET L, L \subseteq L2 \cup B,
         NEW t, t = MetalStream!AddCompletedHandler(s, B)
  PROVE  /\ Coded(t, ks, 0, L2, {}) /\ Booked(t, fl, handlers) /\ Kept(t, fl, ks, L2, {})
         /\ t.encoder = s.encoder /\ t.temporaries = s.temporaries
<1>1. MetalTypes(s, ks) /\ Homes(s, ks) /\ Current(s.encoder, ks, 0) /\ Tracked(s, ks, L)
      /\ Sequenced(s, ks, {})
  BY DEF Coded
<1>2. /\ t = [s EXCEPT !.handlers = t.handlers] /\ t.handlers \in Seq(MetalHandler)
      /\ MetalStream!Frees(s.handlers) \cup B \subseteq MetalStream!Frees(t.handlers)
      /\ \A n \in DOMAIN t.handlers :
           t.handlers[n].fence = 0 \/
           \E m \in DOMAIN s.handlers : t.handlers[n].fence = s.handlers[m].fence
  BY <1>1, AddHandlerFacts
<1>3. /\ t.encoder = s.encoder /\ t.temporaries = s.temporaries /\ t.outputs = s.outputs
      /\ t.encoders = s.encoders /\ t.waits = s.waits /\ t.issued = s.issued
      /\ t = [encoder |-> t.encoder, temporaries |-> t.temporaries, outputs |-> t.outputs,
              handlers |-> t.handlers, encoders |-> t.encoders, waits |-> t.waits,
              issued |-> t.issued]
  BY <1>1, <1>2 DEF MetalTypes
<1>4. MetalTypes(t, ks)
  BY <1>1, <1>2, <1>3 DEF MetalTypes
<1>5. Homes(t, ks)
  BY <1>1, <1>3 DEF Homes
<1>6. Tracked(t, ks, L2)
  BY <1>1, <1>3 DEF Tracked
<1>7. Sequenced(t, ks, {})
  BY <1>1, <1>3 DEF Sequenced, WillWait
<1>8. Booked(t, fl, handlers)
  <2>1. \A n \in DOMAIN t.handlers : t.handlers[n].fence \in t.encoders \cup {0}
    BY <1>2, <1>3 DEF Booked
  <2> QED
    BY <1>3, <2>1 DEF Booked
<1>9. \A x : HeldBehind(s, fl, x) \cup B \subseteq HeldBehind(t, fl, x)
  BY <1>2, <1>3 DEF HeldBehind
<1>10. Kept(t, fl, ks, L2, {})
  <2> SUFFICES ASSUME NEW n \in DOMAIN ks
               PROVE  /\ Touched(ks[n]) \subseteq L2 \cup HeldBehind(t, fl, ks[n].encoder)
                      /\ ks[n].reads \subseteq
                           {} \cup HeldBehind(t, fl, ks[n].encoder) \cup ks[n].writes
                             \cup UNION {ks[i].signals :
                                           i \in {j \in DOMAIN ks : ks[j].encoder = ks[n].encoder}}
    BY DEF Kept
  <2>1. HeldBehind(s, fl, ks[n].encoder) \cup B \subseteq HeldBehind(t, fl, ks[n].encoder)
    BY <1>9
  <2> QED
    BY <2>1 DEF Kept
<1> QED
  BY <1>1, <1>3, <1>4, <1>5, <1>6, <1>7, <1>8, <1>10 DEF Coded

\* The entries of the tables, and the handler, of an encoder that ends.
EndWaits(s) ==
  [x \in DOMAIN s.waits \cup {s.encoder.id} |->
     IF x = s.encoder.id
     THEN {s.outputs[b] : b \in s.encoder.inputs \ s.temporaries} \cap DOMAIN s.waits
     ELSE s.waits[x]]
EndOutputs(s) ==
  [b \in Buffers |->
     IF b \in s.encoder.outputs \ s.temporaries THEN s.encoder.id ELSE s.outputs[b]]
EndHandler(s) ==
  [frees |-> s.temporaries, fence |-> s.encoder.id,
   outputs |-> s.encoder.outputs \ s.temporaries]

Ended(s, t) ==
  /\ t.encoder = MetalStream!NoEncoder /\ t.temporaries = {}
  /\ t.encoders = s.encoders \cup {s.encoder.id}
  /\ DOMAIN t.waits = DOMAIN s.waits \cup {s.encoder.id}
  /\ \A x \in DOMAIN s.waits : t.waits[x] = s.waits[x]
  /\ t.handlers = Append(s.handlers, EndHandler(s)) /\ EndHandler(s) \in MetalHandler
  /\ EndHandler(s).frees = s.temporaries /\ EndHandler(s).fence = s.encoder.id

LEMMA EndEncodingIs ==
  ASSUME NEW s, s.encoder.id # 0
  PROVE  MetalStream!EndEncoding(s) =
           [s EXCEPT !.waits = EndWaits(s), !.outputs = EndOutputs(s),
                              !.handlers = Append(@, EndHandler(s)),
                     !.encoders = @ \cup {s.encoder.id}, !.temporaries = {},
                     !.encoder = MetalStream!NoEncoder]
  BY DEF MetalStream!EndEncoding, EndWaits, EndOutputs, EndHandler

\* An encoder that ends waits for those that made its inputs, and takes the
\* place of those that made its outputs.
LEMMA EndEncodingCoded ==
  ASSUME NEW s, NEW ks, NEW L \in SUBSET Buffers, Coded(s, ks, 0, L, {}), s.encoder.id # 0,
         NEW t, t = MetalStream!EndEncoding(s)
  PROVE  Coded(t, ks, 0, L, {}) /\ Ended(s, t)
<1> USE DEF Ended
<1>0. PICK e, ins, outs : /\ e = s.encoder /\ ins = e.inputs \ s.temporaries
                          /\ outs = e.outputs \ s.temporaries
  OBVIOUS
<1>1. MetalTypes(s, ks) /\ Homes(s, ks) /\ Current(e, ks, 0) /\ Tracked(s, ks, L)
      /\ Sequenced(s, ks, {})
  BY <1>0 DEF Coded
<1>2. PICK w, p, x : w = s.waits /\ p = s.outputs /\ x = s.encoder.id
  OBVIOUS
<1>3. PICK S : S = {p[b] : b \in ins} \cap DOMAIN w
  OBVIOUS
<1>30. PICK v, q, h : v = EndWaits(s) /\ q = EndOutputs(s) /\ h = EndHandler(s)
  OBVIOUS
<1>4. v = [y \in DOMAIN w \cup {x} |-> IF y = x THEN S ELSE w[y]]
  BY <1>0, <1>2, <1>3, <1>30 DEF EndWaits
<1>5. q = [b \in Buffers |-> IF b \in outs THEN x ELSE p[b]]
  BY <1>0, <1>2, <1>30 DEF EndOutputs
<1>6. h = [frees |-> s.temporaries, fence |-> x, outputs |-> outs]
  BY <1>0, <1>2, <1>30 DEF EndHandler
<1>31. t = [s EXCEPT !.waits = EndWaits(s), !.outputs = EndOutputs(s),
                    !.handlers = Append(@, EndHandler(s)),
                    !.encoders = @ \cup {s.encoder.id}, !.temporaries = {},
                    !.encoder = MetalStream!NoEncoder]
  BY EndEncodingIs
<1>7. t = [encoder |-> MetalStream!NoEncoder, temporaries |-> {}, outputs |-> q,
           handlers |-> Append(s.handlers, h), encoders |-> s.encoders \cup {x}, waits |-> v,
           issued |-> s.issued]
  BY ONLY <1>1, <1>2, <1>30, <1>31 DEF MetalTypes
<1>8. /\ t.encoder = MetalStream!NoEncoder /\ t.temporaries = {} /\ t.outputs = q
      /\ t.handlers = Append(s.handlers, h) /\ t.encoders = s.encoders \cup {x}
      /\ t.waits = v /\ t.issued = s.issued
  BY ONLY <1>7
<1>9. /\ x \in Nat \ {0} /\ x \notin DOMAIN w /\ e \in MetalEncoder
      /\ ins \subseteq Buffers /\ outs \subseteq Buffers
  BY <1>0, <1>1, <1>2 DEF MetalTypes, Homes, MetalEncoder
<1>10. Predecessors(w)
  BY <1>1, <1>2 DEF MetalTypes, Predecessors
<1>11. /\ Predecessors(v) /\ DOMAIN v = DOMAIN w \cup {x} /\ v[x] = S
       /\ \A y \in DOMAIN w : v[y] = w[y] /\ Reaching(w, y) \subseteq Reaching(v, y)
       /\ \A y \in S : Reaching(w, y) \subseteq Reaching(v, x)
       /\ x \in Reaching(v, x)
  <2>1. S \in SUBSET DOMAIN w
    BY <1>3
  <2> QED
    BY ONLY <1>4, <1>9, <1>10, <2>1, ReachingAdd
<1>12. h \in MetalHandler /\ h.frees = s.temporaries /\ h.fence = x
  BY <1>1, <1>6, <1>9 DEF MetalTypes, MetalHandler
<1>13. /\ MetalStream!NoEncoder \in MetalEncoder /\ MetalStream!NoEncoder.id = 0
       /\ MetalStream!NoEncoder.outputs = {}
  BY DEF MetalStream!NoEncoder, MetalEncoder
<1>14. MetalTypes(t, ks)
  <2>1. q \in [Buffers -> Nat]
    BY <1>1, <1>2, <1>5, <1>9 DEF MetalTypes
  <2>2. Append(s.handlers, h) \in Seq(MetalHandler)
    BY <1>1, <1>12 DEF MetalTypes
  <2>3. IsFiniteSet(DOMAIN v) /\ DOMAIN v \subseteq Nat \ {0}
    <3>1. IsFiniteSet(DOMAIN w) /\ DOMAIN w \subseteq Nat \ {0}
      BY <1>1, <1>2 DEF MetalTypes
    <3> QED
      BY <1>9, <1>11, <3>1, FS_AddElement
  <2>4. v \in [DOMAIN v -> SUBSET DOMAIN v]
    BY <1>11 DEF Predecessors
  <2>5. s.issued \in Nat /\ DOMAIN ks \subseteq 1 .. s.issued /\ ks \in [DOMAIN ks -> MetalKernel]
    BY <1>1 DEF MetalTypes
  <2>6. t = [encoder |-> t.encoder, temporaries |-> t.temporaries, outputs |-> t.outputs,
             handlers |-> t.handlers, encoders |-> t.encoders, waits |-> t.waits,
             issued |-> t.issued]
    BY <1>7, <1>8
  <2>7. {} \subseteq Buffers
    OBVIOUS
  <2> QED
    BY <1>8, <1>13, <2>1, <2>2, <2>3, <2>4, <2>5, <2>6, <2>7 DEF MetalTypes
<1>15. \A n \in DOMAIN ks :
         /\ ks[n].encoder \in DOMAIN v /\ ks[n].encoder # 0
         /\ ks[n].encoder # x => ks[n].encoder \in DOMAIN w
  BY <1>1, <1>2, <1>11 DEF Homes
<1>16. Homes(t, ks)
  <2>1. 0 \notin DOMAIN v
    BY <1>14, <1>8 DEF MetalTypes
  <2> QED
    BY <1>1, <1>8, <1>13, <1>15, <2>1 DEF Homes
<1>17. Current(t.encoder, ks, 0)
  BY <1>8, <1>13, <1>15 DEF Current
<1>18. ASSUME NEW i \in DOMAIN ks, NEW B, WillWait(s, ks[i].encoder, B, {})
       PROVE  \E y \in v[x] : ks[i].encoder \in Reaching(w, y) /\ y \in DOMAIN w
  <2>1. PICK b \in (B \cap e.inputs) \ s.temporaries :
          p[b] \in DOMAIN w /\ ks[i].encoder \in Reaching(w, p[b])
    BY <1>0, <1>2, <1>18 DEF WillWait
  <2>2. p[b] \in S
    BY <1>0, <1>3, <2>1
  <2> QED
    BY <1>11, <2>1, <2>2
<1>19. ASSUME NEW n \in DOMAIN ks, NEW b \in Changed(ks[n]) \cap L
       PROVE  q[b] \in DOMAIN v /\ ks[n].encoder \in Reaching(v, q[b])
  <2>1. b \in Buffers /\ b \notin s.temporaries
    BY <1>1 DEF Tracked
  <2>2. CASE ks[n].encoder = x
    <3>1. b \in outs
      BY <1>0, <1>1, <1>2, <2>1, <2>2 DEF Current
    <3> QED
      BY <1>5, <1>11, <2>1, <2>2, <3>1
  <2>3. CASE ks[n].encoder # x /\ b \notin outs
    <3>1. q[b] = p[b] /\ ks[n].encoder \in DOMAIN w
      BY <1>5, <1>15, <2>1, <2>3
    <3>2. p[b] \in DOMAIN w /\ ks[n].encoder \in Reaching(w, p[b])
      BY <1>1, <1>2, <3>1 DEF Tracked
    <3> QED
      BY <1>11, <3>1, <3>2
  <2>4. CASE ks[n].encoder # x /\ b \in outs
    <3>1. q[b] = x
      BY <1>5, <2>1, <2>4
    <3>2. PICK m \in DOMAIN ks : ks[m].encoder = x /\ b \in Changed(ks[m])
      BY <1>0, <1>1, <1>2, <2>4 DEF Current
    <3>3. n < m
      <4>1. n \in Nat /\ m \in Nat
        BY <1>1 DEF MetalTypes
      <4>2. ~(m < n)
        BY <1>1, <1>2, <2>4, <3>2 DEF Homes
      <4>3. m # n
        BY <2>4, <3>2
      <4> QED
        BY <4>1, <4>2, <4>3
    <3>4. b \in ks[m].writes
      <4>1. b \notin ks[m].opens
        BY <1>1, <3>3 DEF Homes, Touched
      <4> QED
        BY <3>2, <4>1 DEF Changed
    <3>5. MetalStream!Conflict(ks[n], ks[m])
      <4>1. ks[n].context = 0 \/ ks[n].context # ks[m].context
        BY <1>1, <2>4, <3>2 DEF Homes
      <4> QED
        BY <3>4, <4>1 DEF MetalStream!Conflict, Changed
    <3>6. WillWait(s, ks[n].encoder, ks[m].reads \cup ks[m].writes, {})
      BY <1>1, <1>2, <1>15, <2>4, <3>2, <3>3, <3>5 DEF Sequenced
    <3>7. PICK y \in v[x] : ks[n].encoder \in Reaching(w, y)
      BY <1>18, <3>6
    <3> QED
      BY <1>11, <3>1, <3>7
  <2> QED
    BY <2>2, <2>3, <2>4
<1>20. Tracked(t, ks, L)
  BY <1>8, <1>19 DEF Tracked
<1>21. Sequenced(t, ks, {})
  <2> SUFFICES ASSUME NEW i \in DOMAIN ks, NEW j \in DOMAIN ks, i < j,
                      MetalStream!Conflict(ks[i], ks[j])
               PROVE  LET f == ks[i].encoder
                          g == ks[j].encoder
                      IN  /\ f = g => ks[i].phase < ks[j].phase
                          /\ f \in DOMAIN t.waits /\ g = t.encoder.id =>
                               WillWait(t, f, ks[j].reads \cup ks[j].writes, {})
                          /\ f \in DOMAIN t.waits /\ g \in DOMAIN t.waits /\ f # g =>
                               \E y \in t.waits[g] : f \in Reaching(t.waits, y)
    BY DEF Sequenced
  <2>1. ks[i].encoder = ks[j].encoder => ks[i].phase < ks[j].phase
    BY <1>1 DEF Sequenced
  <2>2. ks[j].encoder # t.encoder.id
    BY <1>8, <1>13, <1>15
  <2>3. ASSUME ks[i].encoder # ks[j].encoder
        PROVE  \E y \in v[ks[j].encoder] : ks[i].encoder \in Reaching(v, y)
    <3>1. ks[i].encoder # x /\ ks[i].encoder \in DOMAIN w
      BY <1>1, <1>2, <1>15, <2>3 DEF Homes
    <3>2. CASE ks[j].encoder = x
      <4>1. WillWait(s, ks[i].encoder, ks[j].reads \cup ks[j].writes, {})
        BY <1>1, <1>2, <3>1, <3>2 DEF Sequenced
      <4>2. PICK y \in v[x] : ks[i].encoder \in Reaching(w, y) /\ y \in DOMAIN w
        BY <1>18, <4>1
      <4> QED
        BY <1>11, <3>2, <4>2
    <3>3. CASE ks[j].encoder # x
      <4>1. ks[j].encoder \in DOMAIN w
        BY <1>15, <3>3
      <4>2. PICK y \in w[ks[j].encoder] : ks[i].encoder \in Reaching(w, y)
        BY <1>1, <1>2, <2>3, <3>1, <4>1 DEF Sequenced
      <4>3. y \in DOMAIN w
        BY <1>10, <4>1, <4>2 DEF Predecessors
      <4> QED
        BY <1>11, <4>1, <4>2, <4>3
    <3> QED
      BY <3>2, <3>3
  <2> QED
    BY <1>8, <2>1, <2>2, <2>3
<1> QED
  BY <1>2, <1>8, <1>11, <1>12, <1>14, <1>30, <1>16, <1>17, <1>20, <1>21 DEF Coded

LEMMA EndEncodingKeeps ==
  ASSUME NEW s, NEW ks, NEW L \in SUBSET Buffers, NEW B, NEW fl,
         Coded(s, ks, 0, L, {}), Booked(s, fl, handlers), Kept(s, fl, ks, L, B),
         NEW t, t = MetalStream!EndEncoding(s)
  PROVE  /\ Coded(t, ks, 0, L, {}) /\ Booked(t, fl, handlers) /\ Kept(t, fl, ks, L, B)
         /\ t.encoder.id = 0 /\ t.temporaries = {}
<1>1. CASE s.encoder.id = 0
  <2>1. t = s
    BY <1>1 DEF MetalStream!EndEncoding
  <2>2. s.temporaries = {}
    BY <1>1 DEF Coded, Homes
  <2> QED
    BY <1>1, <2>1, <2>2
<1>2. CASE s.encoder.id # 0
  <2>1. PICK e : e = s.encoder
    OBVIOUS
  <2>2. PICK h : h = EndHandler(s)
    OBVIOUS
  <2>20. Coded(s, ks, 0, L, {}) /\ L \in SUBSET Buffers /\ s.encoder.id # 0
         /\ t = MetalStream!EndEncoding(s)
    BY <1>2
  <2>21. Coded(t, ks, 0, L, {}) /\ Ended(s, t)
    BY ONLY <2>20, EndEncodingCoded
  <2>4. /\ Coded(t, ks, 0, L, {})
        /\ t.encoder = MetalStream!NoEncoder /\ t.temporaries = {}
        /\ t.encoders = s.encoders \cup {e.id} /\ DOMAIN t.waits = DOMAIN s.waits \cup {e.id}
        /\ \A x \in DOMAIN s.waits : t.waits[x] = s.waits[x]
        /\ t.handlers = Append(s.handlers, h) /\ h \in MetalHandler
        /\ h.frees = s.temporaries /\ h.fence = e.id
    BY ONLY <2>1, <2>2, <2>21 DEF Ended
  <2>6. s.handlers \in Seq(MetalHandler)
    BY DEF Coded, MetalTypes
  <2>7. /\ MetalStream!Frees(t.handlers) = MetalStream!Frees(s.handlers) \cup s.temporaries
        /\ \A n \in DOMAIN t.handlers :
             t.handlers[n].fence = e.id \/ 
             \E m \in DOMAIN s.handlers : t.handlers[n].fence = s.handlers[m].fence
    BY <2>4, <2>6, FreesAppend
  <2>8. t.encoder.id = 0
    BY <2>4 DEF MetalStream!NoEncoder
  <2>9. \A x : HeldBehind(t, fl, x) = HeldBehind(s, fl, x)
    BY <2>4, <2>7 DEF HeldBehind
  <2>10. Kept(t, fl, ks, L, B)
    BY <2>9 DEF Kept
  <2>11. e.id \notin DOMAIN s.waits /\ e.id # 0
    BY <1>2, <2>1 DEF Coded, Homes
  <2>12. Booked(t, fl, handlers)
    <3>1. DOMAIN s.waits = s.encoders \cup UNION {fl[c].encoders : c \in DOMAIN fl}
      BY DEF Booked
    <3>2. DOMAIN t.waits = t.encoders \cup UNION {fl[c].encoders : c \in DOMAIN fl}
      BY <2>4, <3>1
    <3>3. \A c \in DOMAIN fl : e.id \notin fl[c].encoders /\ fl[c].encoders \subseteq DOMAIN s.waits
      BY <2>11, <3>1
    <3>4. \A c \in DOMAIN fl :
            /\ fl[c].encoders \cap t.encoders = {}
            /\ \A d \in DOMAIN fl : c # d => fl[c].encoders \cap fl[d].encoders = {}
            /\ \A x \in fl[c].encoders : t.waits[x] \subseteq UNION {fl[d].encoders : d \in 1 .. c}
            /\ \A n \in DOMAIN fl[c].handlers : fl[c].handlers[n].fence \in fl[c].encoders \cup {0}
      <4> TAKE c \in DOMAIN fl
      <4>1. /\ fl[c].encoders \cap s.encoders = {}
            /\ \A d \in DOMAIN fl : c # d => fl[c].encoders \cap fl[d].encoders = {}
            /\ \A x \in fl[c].encoders : s.waits[x] \subseteq UNION {fl[d].encoders : d \in 1 .. c}
            /\ \A n \in DOMAIN fl[c].handlers : fl[c].handlers[n].fence \in fl[c].encoders \cup {0}
        BY DEF Booked
      <4>2. fl[c].encoders \cap t.encoders = {}
        BY <2>4, <3>3, <4>1
      <4>3. \A x \in fl[c].encoders : t.waits[x] = s.waits[x]
        BY <2>4, <3>3
      <4> QED
        BY <4>1, <4>2, <4>3
    <3>5. \A n \in DOMAIN t.handlers : t.handlers[n].fence \in t.encoders \cup {0}
      BY <2>4, <2>7 DEF Booked
    <3>6. \A n \in DOMAIN handlers :
            handlers[n].fence \notin DOMAIN t.waits
            /\ (handlers[n].fence # 0 => handlers[n].fence # t.encoder.id)
      BY <2>1, <2>4, <2>8, <2>11 DEF Booked
    <3> QED
      BY <3>2, <3>4, <3>5, <3>6 DEF Booked
  <2> QED
    BY <2>4, <2>8, <2>10, <2>12
<1> QED
  BY <1>1, <1>2

\* The stream, its command buffers and the kernels between two operations.
Sound(s, fl, ks, L, B) ==
  Coded(s, ks, 0, L, {}) /\ Booked(s, fl, handlers) /\ Kept(s, fl, ks, L, B)

Flown(s, fl) == Append(fl, [handlers |-> s.handlers, encoders |-> s.encoders])

\* A command buffer is committed with what has ended.
LEMMA MetalCommitKeeps ==
  ASSUME NEW s, NEW ks, NEW L \in SUBSET Buffers, NEW B, NEW fl, Sound(s, fl, ks, L, B),
         s.encoder.id = 0, s.temporaries = {}
  PROVE  Sound(MetalStream!Emptied(s), Flown(s, fl), ks, L, B)
<1> USE DEF Sound
<1>0. PICK t, gl : t = MetalStream!Emptied(s) /\ gl = Flown(s, fl)
  OBVIOUS
<1>1. MetalTypes(s, ks) /\ Homes(s, ks) /\ Current(s.encoder, ks, 0) /\ Tracked(s, ks, L)
      /\ Sequenced(s, ks, {})
  BY DEF Coded
<1>2. t = [s EXCEPT !.handlers = <<>>, !.encoders = {}]
  BY <1>0 DEF MetalStream!Emptied
<1>3. /\ t.encoder = s.encoder /\ t.temporaries = s.temporaries /\ t.outputs = s.outputs
      /\ t.handlers = <<>> /\ t.encoders = {} /\ t.waits = s.waits /\ t.issued = s.issued
      /\ t = [encoder |-> t.encoder, temporaries |-> t.temporaries, outputs |-> t.outputs,
              handlers |-> t.handlers, encoders |-> t.encoders, waits |-> t.waits,
              issued |-> t.issued]
  BY ONLY <1>1, <1>2 DEF MetalTypes
<1>4. Coded(t, ks, 0, L, {})
  <2>1. <<>> \in Seq(MetalHandler)
    OBVIOUS
  <2>2. MetalTypes(t, ks)
    BY <1>1, <1>3, <2>1 DEF MetalTypes
  <2>3. Homes(t, ks)
    BY <1>1, <1>3 DEF Homes
  <2>4. Tracked(t, ks, L)
    BY <1>1, <1>3 DEF Tracked
  <2>5. Sequenced(t, ks, {})
    BY <1>1, <1>3 DEF Sequenced, WillWait
  <2> QED
    BY <1>1, <1>3, <2>2, <2>3, <2>4, <2>5 DEF Coded
<1>5. PICK cb : cb = [handlers |-> s.handlers, encoders |-> s.encoders]
  OBVIOUS
<1>6. fl \in Seq(CommandBuffer) /\ Len(fl) \in Nat /\ DOMAIN fl = 1 .. Len(fl)
  BY DEF Booked
<1>7. PICK n \in Nat : n = Len(fl)
  BY <1>6
<1>8. s.encoders \subseteq DOMAIN s.waits /\ DOMAIN s.waits \subseteq Nat
  BY <1>1 DEF Booked, MetalTypes
<1>9. cb \in CommandBuffer /\ cb.handlers = s.handlers /\ cb.encoders = s.encoders
  <2>1. s.encoders \in SUBSET Nat /\ s.handlers \in Seq(MetalHandler)
    BY <1>1, <1>8 DEF MetalTypes
  <2> QED
    BY <1>5, <2>1 DEF CommandBuffer
<1>10. /\ gl \in Seq(CommandBuffer) /\ DOMAIN gl = 1 .. n + 1 /\ gl[n + 1] = cb
       /\ \A c \in 1 .. n : gl[c] = fl[c]
       /\ DOMAIN fl = 1 .. n
  BY <1>0, <1>5, <1>6, <1>7, <1>9 DEF Flown
<1>11. \A c \in DOMAIN gl : c \in DOMAIN fl \/ c = n + 1
  BY <1>10
<1>12. n + 1 \in DOMAIN gl /\ n + 1 \notin DOMAIN fl /\ \A c \in DOMAIN fl : c \in DOMAIN gl
  BY <1>10
<1>13. \A c \in DOMAIN fl : gl[c] = fl[c] /\ \A d \in 1 .. c : d \in DOMAIN fl /\ gl[d] = fl[d]
  BY <1>10
<1>14. DOMAIN s.waits = UNION {gl[c].encoders : c \in DOMAIN gl}
  <2>1. DOMAIN s.waits = s.encoders \cup UNION {fl[c].encoders : c \in DOMAIN fl}
    BY DEF Booked
  <2>2. ASSUME NEW x \in DOMAIN s.waits PROVE x \in UNION {gl[c].encoders : c \in DOMAIN gl}
    <3>1. CASE x \in s.encoders
      BY <1>9, <1>10, <1>12, <3>1
    <3>2. CASE x \notin s.encoders
      <4>1. PICK c \in DOMAIN fl : x \in fl[c].encoders
        BY <2>1, <2>2, <3>2
      <4> QED
        BY <1>12, <1>13, <4>1
    <3> QED
      BY <3>1, <3>2
  <2>3. ASSUME NEW c \in DOMAIN gl PROVE gl[c].encoders \subseteq DOMAIN s.waits
    <3>1. CASE c \in DOMAIN fl
      BY <1>13, <2>1, <3>1
    <3>2. CASE c = n + 1
      BY <1>9, <1>10, <2>1, <3>2
    <3> QED
      BY <1>11, <3>1, <3>2
  <2> QED
    BY <2>2, <2>3
<1>15. Booked(t, gl, handlers)
  <2>1. ASSUME NEW c \in DOMAIN gl
        PROVE  /\ \A d \in DOMAIN gl : c # d => gl[c].encoders \cap gl[d].encoders = {}
               /\ \A x \in gl[c].encoders : s.waits[x] \subseteq UNION {gl[d].encoders : d \in 1 .. c}
               /\ \A i \in DOMAIN gl[c].handlers :
                    gl[c].handlers[i].fence \in gl[c].encoders \cup {0}
    <3>1. CASE c \in DOMAIN fl
      <4>1. /\ fl[c].encoders \cap s.encoders = {}
            /\ \A d \in DOMAIN fl : c # d => fl[c].encoders \cap fl[d].encoders = {}
            /\ \A x \in fl[c].encoders : s.waits[x] \subseteq UNION {fl[d].encoders : d \in 1 .. c}
            /\ \A i \in DOMAIN fl[c].handlers : fl[c].handlers[i].fence \in fl[c].encoders \cup {0}
        BY <3>1 DEF Booked
      <4>2. gl[c] = fl[c] /\ \A d \in 1 .. c : gl[d] = fl[d]
        BY <1>13, <3>1
      <4>3. UNION {fl[d].encoders : d \in 1 .. c} \subseteq UNION {gl[d].encoders : d \in 1 .. c}
        BY <4>2
      <4>4. \A d \in DOMAIN gl : c # d => gl[c].encoders \cap gl[d].encoders = {}
        BY <1>9, <1>10, <1>11, <1>13, <3>1, <4>1, <4>2
      <4> QED
        BY <4>1, <4>2, <4>3, <4>4
    <3>2. CASE c = n + 1
      <4>1. \A d \in DOMAIN fl : gl[d].encoders \cap s.encoders = {}
        BY <1>13 DEF Booked
      <4>2. \A d \in DOMAIN gl : c # d => gl[c].encoders \cap gl[d].encoders = {}
        BY <1>9, <1>10, <1>11, <3>2, <4>1
      <4>3. \A x \in s.encoders : s.waits[x] \subseteq DOMAIN s.waits
        BY <1>1, <1>8 DEF MetalTypes
      <4>4. 1 .. c = DOMAIN gl
        BY <1>10, <3>2
      <4>5. \A x \in gl[c].encoders : s.waits[x] \subseteq UNION {gl[d].encoders : d \in 1 .. c}
        BY <1>9, <1>10, <1>14, <3>2, <4>3, <4>4
      <4>6. \A i \in DOMAIN s.handlers : s.handlers[i].fence \in s.encoders \cup {0}
        BY DEF Booked
      <4> QED
        BY <1>9, <1>10, <3>2, <4>2, <4>5, <4>6
    <3> QED
      BY <1>11, <3>1, <3>2
  <2>2. /\ handlers \in Seq(MetalHandler)
        /\ \A i \in DOMAIN handlers : 
             handlers[i].fence \notin DOMAIN s.waits
             /\ (handlers[i].fence # 0 => handlers[i].fence # s.encoder.id)
    BY DEF Booked
  <2>3. DOMAIN t.handlers = {}
    BY <1>3
  <2> QED
    BY <1>3, <1>10, <1>14, <2>1, <2>2, <2>3 DEF Booked
<1>16. ASSUME NEW x \in DOMAIN s.waits PROVE HeldBehind(s, fl, x) \subseteq HeldBehind(t, gl, x)
  <2> SUFFICES ASSUME NEW b \in HeldBehind(s, fl, x) PROVE b \in HeldBehind(t, gl, x)
    OBVIOUS
  <2>1. CASE b \in MetalStream!Frees(s.handlers)
    <3>1. PICK c \in DOMAIN gl : x \in gl[c].encoders
      BY <1>14
    <3>2. c \in 1 .. n + 1
      BY <1>10
    <3>3. n + 1 \in {d \in DOMAIN gl : \E a \in 1 .. d : x \in gl[a].encoders}
      BY <1>12, <3>1, <3>2
    <3>4. b \in MetalStream!Frees(gl[n + 1].handlers)
      BY <1>9, <1>10, <2>1
    <3> QED
      BY <3>3, <3>4 DEF HeldBehind
  <2>2. CASE b \notin MetalStream!Frees(s.handlers)
    <3>1. PICK d \in DOMAIN fl : /\ \E a \in 1 .. d : x \in fl[a].encoders
                                 /\ b \in MetalStream!Frees(fl[d].handlers)
      BY <2>2 DEF HeldBehind
    <3>2. d \in DOMAIN gl /\ gl[d] = fl[d] /\ \E a \in 1 .. d : x \in gl[a].encoders
      BY <1>12, <1>13, <3>1
    <3> QED
      BY <3>1, <3>2 DEF HeldBehind
  <2> QED
    BY <2>1, <2>2
<1>17. \A i \in DOMAIN ks : ks[i].encoder \in DOMAIN s.waits
  BY <1>1 DEF Homes
<1>18. Kept(t, gl, ks, L, B)
  <2> SUFFICES ASSUME NEW i \in DOMAIN ks
               PROVE  /\ Touched(ks[i]) \subseteq L \cup HeldBehind(t, gl, ks[i].encoder)
                      /\ ks[i].reads \subseteq
                           B \cup HeldBehind(t, gl, ks[i].encoder) \cup ks[i].writes
                             \cup UNION {ks[m].signals :
                                           m \in {j \in DOMAIN ks : ks[j].encoder = ks[i].encoder}}
    BY DEF Kept
  <2>1. HeldBehind(s, fl, ks[i].encoder) \subseteq HeldBehind(t, gl, ks[i].encoder)
    BY <1>16, <1>17
  <2> QED
    BY <2>1 DEF Kept
<1> QED
  BY <1>0, <1>4, <1>15, <1>18

\* The end of gpu::eval.
LEMMA FinishKeeps ==
  ASSUME NEW s, NEW ks, NEW L \in SUBSET Buffers, NEW B \in SUBSET Buffers,
         Sound(s, flying, ks, L, B),
         NEW L2 \in SUBSET L, L \subseteq L2 \cup B,
         NEW needsCommit \in BOOLEAN, MetalStream!Finish(s, B, needsCommit)
  PROVE  Sound(stream', flying', ks, L2, {})
<1> USE DEF Sound
<1>1. CASE ~needsCommit
  <2>1. stream' = MetalStream!AddCompletedHandler(s, B) /\ flying' = flying
    BY <1>1 DEF MetalStream!Finish
  <2> QED
    BY <2>1, AddHandlerKeeps
<1>2. CASE needsCommit
  <2>1. PICK t, u : t = MetalStream!EndEncoding(s) /\ u = MetalStream!AddCompletedHandler(t, B)
    OBVIOUS
  <2>2. /\ Coded(t, ks, 0, L, {}) /\ Booked(t, flying, handlers) /\ Kept(t, flying, ks, L, B)
        /\ t.encoder.id = 0 /\ t.temporaries = {}
    BY <2>1, EndEncodingKeeps
  <2>3. /\ Coded(u, ks, 0, L2, {}) /\ Booked(u, flying, handlers) /\ Kept(u, flying, ks, L2, {})
        /\ u.encoder = t.encoder /\ u.temporaries = t.temporaries
    BY <2>1, <2>2, AddHandlerKeeps
  <2>4. MetalStream!Commit(u)
    BY <1>2, <2>1 DEF MetalStream!Finish
  <2>5. /\ stream' = MetalStream!Emptied(u)
        /\ flying' = Append(flying, [handlers |-> u.handlers, encoders |-> u.encoders])
    BY <2>4 DEF MetalStream!Commit, MetalStream!Committed
  <2>6. u.encoder.id = 0 /\ u.temporaries = {} /\ L2 \in SUBSET Buffers
    BY <2>2, <2>3
  <2>7. Sound(MetalStream!Emptied(u), Flown(u, flying), ks, L2, {})
    BY <2>3, <2>6, MetalCommitKeeps, SMTT(30) DEF Sound
  <2> QED
    BY <2>5, <2>7 DEF Sound, Flown
<1> QED
  BY <1>1, <1>2

\* What evaluating an operation is, when run is what its plan encodes.
Evaluated(run, tmps, ins, out) ==
  /\ kernels' = run.kernels /\ handlers' = handlers
  /\ \E gone \in SUBSET (ins \ {out}) : live' = (live \ gone) \cup {out}
  /\ \E needsCommit \in BOOLEAN :
       MetalStream!Finish([run.stream EXCEPT !.encoder = MetalStream!EndConcurrent(@),
                                             !.temporaries = @ \cup tmps],
                          ins \ {out}, needsCommit)

LEMMA EvalIs ==
  ASSUME NEW plan, NEW c, NEW tmps, NEW ins, NEW out,
         MetalStream!Eval(plan, c, tmps, ins, out)
  PROVE  Evaluated(FoldedAll([stream |-> stream, kernels |-> kernels], plan, c), tmps, ins, out)
  BY DEF MetalStream!Eval, MetalStream!FoldLeft, MetalStream!MapThenFoldSet, Folded, FoldedAll,
         MetalStream!KeptAlive, Evaluated

\* The concurrent context ends and the temporaries join those of the encoder.
LEMMA ContextEnds ==
  ASSUME NEW t, NEW ls, NEW c \in Nat, NEW L \in SUBSET Buffers, NEW Z \in SUBSET Buffers,
         Coded(t, ls, c, L, Z), t.encoder.id # 0, L \cap Z = {},
         NEW out \in Buffers, out \notin t.temporaries \cup Z,
         \A n \in DOMAIN ls : 
           ls[n].encoder \in DOMAIN t.waits => out \in L \/ out \notin Changed(ls[n]),
         NEW d, d = [t EXCEPT !.encoder = MetalStream!EndConcurrent(@),
                              !.temporaries = @ \cup Z]
  PROVE  Coded(d, ls, 0, L \cup {out}, {})
<1>1. MetalTypes(t, ls) /\ Homes(t, ls) /\ Current(t.encoder, ls, c) /\ Tracked(t, ls, L)
      /\ Sequenced(t, ls, Z)
  BY DEF Coded
<1>2. PICK e, f : e = t.encoder /\ f = MetalStream!EndConcurrent(e)
  OBVIOUS
<1>3. e \in MetalEncoder
  BY <1>1, <1>2 DEF MetalTypes
<1>4. /\ f \in MetalEncoder /\ f.id = e.id /\ f.inputs = e.inputs /\ f.outputs = e.outputs
      /\ f.phase = e.phase /\ f.prev = e.prev \cup e.concurrent
  BY <1>2, <1>3 DEF MetalStream!EndConcurrent, MetalEncoder
<1>5. d = [t EXCEPT !.encoder = f, !.temporaries = t.temporaries \cup Z]
  BY <1>2
<1>6. /\ d.encoder = f /\ d.temporaries = t.temporaries \cup Z /\ d.outputs = t.outputs
      /\ d.handlers = t.handlers /\ d.encoders = t.encoders /\ d.waits = t.waits
      /\ d.issued = t.issued
      /\ d = [encoder |-> d.encoder, temporaries |-> d.temporaries, outputs |-> d.outputs,
              handlers |-> d.handlers, encoders |-> d.encoders, waits |-> d.waits,
              issued |-> d.issued]
  BY ONLY <1>1, <1>5 DEF MetalTypes
<1>7. MetalTypes(d, ls)
  BY <1>1, <1>4, <1>6 DEF MetalTypes
<1>8. Homes(d, ls)
  BY <1>1, <1>2, <1>4, <1>6 DEF Homes
<1>9. Current(f, ls, 0)
  <2>1. ASSUME NEW n \in DOMAIN ls, ls[n].encoder = f.id, ls[n].phase = f.phase
        PROVE  Changed(ls[n]) \subseteq f.prev
    <3>1. Changed(ls[n]) \subseteq
            e.prev \cup (IF c # 0 /\ ls[n].context = c THEN e.concurrent ELSE {})
      BY <1>1, <1>2, <1>4, <2>1 DEF Current
    <3> QED
      BY <1>4, <3>1
  <2> QED
    BY <1>1, <1>2, <1>4, <2>1 DEF Current
<1>10. Tracked(d, ls, L \cup {out})
  <2>1. d.temporaries \cap (L \cup {out}) = {}
    BY <1>1, <1>6 DEF Tracked
  <2> QED
    BY <1>1, <1>6, <2>1 DEF Tracked
<1>11. \A x, B : WillWait(t, x, B, Z) => WillWait(d, x, B, {})
  BY <1>2, <1>4, <1>6 DEF WillWait
<1>12. Sequenced(d, ls, {})
  BY <1>1, <1>2, <1>4, <1>6, <1>11 DEF Sequenced
<1> QED
  BY <1>6, <1>7, <1>8, <1>9, <1>10, <1>12 DEF Coded

\* What the inputs, temporaries and the output of an operation are.
PlanUses(plan, n, tmps, ins, out) ==
  /\ ins \subseteq live /\ tmps \cap live = {} /\ tmps \subseteq Buffers
  /\ out \in Buffers /\ out \notin stream.temporaries \cup tmps
  /\ \A k \in 1 .. n :
       /\ plan[k].reads \subseteq (ins \ {out}) \cup tmps \cup plan[k].writes
       /\ plan[k].writes \subseteq tmps \cup {out}
  /\ \A i \in DOMAIN kernels :
       /\ Touched(kernels[i]) \cap tmps = {}
       /\ out \in live \/ out \notin Changed(kernels[i])

LEMMA MetalEvalKeeps ==
  ASSUME MetalOrder, NEW c \in Nat, NEW n \in Nat \ {0}, NEW plan, DOMAIN plan = 1 .. n,
         NEW tmps, NEW ins, NEW out, PlanUses(plan, n, tmps, ins, out),
         Allowed(stream, kernels, plan, n, c, live),
         MetalStream!Eval(plan, c, tmps, ins, out)
  PROVE  MetalOrder'
<1>1. /\ live \in SUBSET Buffers /\ Coded(stream, kernels, 0, live, {})
      /\ Booked(stream, flying, handlers) /\ Kept(stream, flying, kernels, live, {})
  BY DEF MetalOrder
<1>2. /\ ins \subseteq live /\ tmps \cap live = {} /\ tmps \in SUBSET Buffers
      /\ out \in Buffers /\ out \notin stream.temporaries \cup tmps
      /\ \A k \in 1 .. n :
           /\ plan[k].reads \subseteq (ins \ {out}) \cup tmps \cup plan[k].writes
           /\ plan[k].writes \subseteq tmps \cup {out}
      /\ \A i \in DOMAIN kernels :
           /\ Touched(kernels[i]) \cap tmps = {}
           /\ out \in live \/ out \notin Changed(kernels[i])
  BY DEF PlanUses
<1>3. PICK base, run : /\ base = [stream |-> stream, kernels |-> kernels]
                       /\ run = FoldedAll(base, plan, c)
  OBVIOUS
<1>4. PICK t, ls, d : /\ t = run.stream /\ ls = run.kernels
                      /\ d = [t EXCEPT !.encoder = MetalStream!EndConcurrent(@),
                                       !.temporaries = @ \cup tmps]
  OBVIOUS
<1>5. /\ kernels' = ls /\ handlers' = handlers
      /\ \E gone \in SUBSET (ins \ {out}) : live' = (live \ gone) \cup {out}
      /\ \E needsCommit \in BOOLEAN : MetalStream!Finish(d, ins \ {out}, needsCommit)
  <2>1. Evaluated(run, tmps, ins, out)
    BY <1>3, EvalIs
  <2> QED
    BY <1>4, <2>1 DEF Evaluated
<1>6. PICK R : Dispatched(R, base, plan, n, c) /\ R[n] = run
  BY <1>3, FoldSteps
<1>7. PICK o : /\ Booked(o, flying, handlers) /\ o.encoder.id # 0
               /\ Coded(t, ls, c, live, tmps) /\ Planned(o, kernels, plan, c, n, t, ls)
               /\ MetalTypes(o, kernels)
               /\ o.temporaries = stream.temporaries /\ o.outputs = stream.outputs
               /\ o.handlers = stream.handlers /\ o.encoders = stream.encoders
               /\ o.waits = stream.waits /\ o.issued = stream.issued
  <2>1. \A i \in DOMAIN kernels : Touched(kernels[i]) \cap tmps = {}
    BY <1>2
  <2>2. live \cap tmps = {}
    BY <1>2
  <2>3. Dispatched(R, [stream |-> stream, kernels |-> kernels], plan, n, c)
    BY <1>3, <1>6
  <2>4. Opened(stream, flying, kernels, plan, c, live, tmps, n, R[n])
    BY <1>1, <1>2, <2>1, <2>2, <2>3, PlanEncodes
  <2> QED
    BY <1>4, <1>6, <2>4 DEF Opened
<1>8. /\ t = [o EXCEPT !.encoder = t.encoder, !.issued = o.issued + n]
      /\ t.encoder.id = o.encoder.id
      /\ \A i \in DOMAIN kernels : i \in DOMAIN ls /\ ls[i] = kernels[i]
      /\ \A i \in DOMAIN ls \ DOMAIN kernels : \E j \in 1 .. n :
           /\ ls[i].reads = plan[j].reads /\ ls[i].writes = plan[j].writes
           /\ ls[i].opens = {} /\ ls[i].signals = {} /\ ls[i].context = c
           /\ ls[i].encoder = o.encoder.id
  BY <1>7 DEF Planned
<1>9. /\ t.temporaries = stream.temporaries /\ t.outputs = stream.outputs
      /\ t.handlers = stream.handlers /\ t.encoders = stream.encoders
      /\ t.waits = stream.waits
  BY ONLY <1>7, <1>8 DEF MetalTypes
<1>10. /\ d.temporaries = stream.temporaries \cup tmps /\ d.outputs = stream.outputs
       /\ d.handlers = stream.handlers /\ d.encoders = stream.encoders
       /\ d.waits = stream.waits /\ d.encoder.id = o.encoder.id
  <2>1. MetalTypes(t, ls)
    BY <1>7 DEF Coded
  <2>2. MetalStream!EndConcurrent(t.encoder).id = t.encoder.id
    BY <2>1 DEF MetalTypes, MetalEncoder, MetalStream!EndConcurrent
  <2> QED
    BY <1>4, <1>8, <1>9, <2>1, <2>2 DEF MetalTypes
<1>11. Coded(d, ls, 0, live \cup {out}, {})
  <2>1. \A i \in DOMAIN ls :
          ls[i].encoder \in DOMAIN t.waits => out \in live \/ out \notin Changed(ls[i])
    <3> TAKE i \in DOMAIN ls
    <3>1. CASE i \in DOMAIN kernels
      BY <1>2, <1>8, <3>1
    <3>2. CASE i \notin DOMAIN kernels
      <4>1. t.encoder.id \notin DOMAIN t.waits
        BY <1>7 DEF Coded, Homes
      <4> QED
        BY <1>8, <3>2, <4>1
    <3> QED
      BY <3>1, <3>2
  <2>2. t.encoder.id # 0 /\ live \cap tmps = {} /\ out \in Buffers /\ out \notin t.temporaries \cup tmps
    BY <1>2, <1>7, <1>8, <1>9
  <2> QED
    BY <1>1, <1>2, <1>4, <1>7, <2>1, <2>2, ContextEnds
<1>12. Booked(d, flying, handlers)
  BY <1>7, <1>10 DEF Booked
<1>13. Kept(d, flying, ls, live \cup {out}, ins \ {out})
  <2> SUFFICES ASSUME NEW i \in DOMAIN ls
               PROVE  /\ Touched(ls[i]) \subseteq
                           (live \cup {out}) \cup HeldBehind(d, flying, ls[i].encoder)
                      /\ ls[i].reads \subseteq
                           (ins \ {out}) \cup HeldBehind(d, flying, ls[i].encoder) \cup ls[i].writes
                             \cup UNION {ls[m].signals :
                                           m \in {j \in DOMAIN ls : ls[j].encoder = ls[i].encoder}}
    BY DEF Kept
  <2>1. \A x : HeldBehind(d, flying, x) = HeldBehind(stream, flying, x) \cup tmps
    BY <1>10 DEF HeldBehind
  <2>2. CASE i \in DOMAIN kernels
    <3>1. /\ Touched(kernels[i]) \subseteq live \cup HeldBehind(stream, flying, kernels[i].encoder)
          /\ kernels[i].reads \subseteq
               {} \cup HeldBehind(stream, flying, kernels[i].encoder) \cup kernels[i].writes
                 \cup UNION {kernels[m].signals :
                               m \in {j \in DOMAIN kernels : kernels[j].encoder = kernels[i].encoder}}
      BY <1>1, <2>2 DEF Kept
    <3>2. UNION {kernels[m].signals :
                   m \in {j \in DOMAIN kernels : kernels[j].encoder = kernels[i].encoder}}
            \subseteq UNION {ls[m].signals :
                               m \in {j \in DOMAIN ls : ls[j].encoder = ls[i].encoder}}
      BY <1>8, <2>2
    <3>3. ls[i] = kernels[i]
      BY <1>8, <2>2
    <3> QED
      BY <2>1, <3>1, <3>2, <3>3
  <2>3. CASE i \notin DOMAIN kernels
    <3>1. PICK j \in 1 .. n : /\ ls[i].reads = plan[j].reads /\ ls[i].writes = plan[j].writes
                              /\ ls[i].opens = {}
      BY <1>8, <2>3
    <3>2. Touched(ls[i]) = plan[j].reads \cup plan[j].writes
      BY <3>1 DEF Touched, Changed
    <3> QED
      BY <1>2, <2>1, <3>1, <3>2
  <2> QED
    BY <2>2, <2>3
<1>14. PICK gone \in SUBSET (ins \ {out}) : live' = (live \ gone) \cup {out}
  BY <1>5
<1>15. PICK needsCommit \in BOOLEAN : MetalStream!Finish(d, ins \ {out}, needsCommit)
  BY <1>5
<1>16. Sound(stream', flying', ls, live', {})
  <2>1. /\ live \cup {out} \in SUBSET Buffers /\ ins \ {out} \in SUBSET Buffers
        /\ live' \in SUBSET (live \cup {out})
        /\ live \cup {out} \subseteq live' \cup (ins \ {out})
    BY <1>1, <1>2, <1>14
  <2>2. Sound(d, flying, ls, live \cup {out}, ins \ {out})
    BY <1>11, <1>12, <1>13 DEF Sound
  <2> QED
    BY <1>15, <2>1, <2>2, FinishKeeps
<1>17. live' \subseteq Buffers
  BY <1>1, <1>2, <1>14
<1>18. /\ Coded(stream, kernels, 0, live, {})' /\ Booked(stream, flying, handlers)'
       /\ Kept(stream, flying, kernels, live, {})'
  BY <1>5, <1>16 DEF Sound
<1> QED
  BY <1>17, <1>18 DEF MetalOrder

\* A buffer that malloc returns no kernel uses; one that is donated no kernel
\* reads but in an encoder that makes it known, or to write it.
LEMMA FreshFacts ==
  ASSUME MetalOrder, NEW b, MetalStream!Fresh(b)
  PROVE  /\ b \in Buffers /\ b \notin live /\ b \notin stream.temporaries
         /\ \A n \in DOMAIN kernels : b \notin Touched(kernels[n])
<1>1. b \in Buffers /\ b \notin live /\ b \notin MetalStream!Retained
  BY DEF MetalStream!Fresh, MetalStream!Free
<1>2. \A x : HeldBehind(stream, flying, x) \subseteq MetalStream!Retained
  BY DEF HeldBehind, MetalStream!Retained
<1>3. \A n \in DOMAIN kernels :
        Touched(kernels[n]) \subseteq live \cup HeldBehind(stream, flying, kernels[n].encoder)
  BY DEF MetalOrder, Kept
<1>4. b \notin stream.temporaries
  BY <1>1 DEF MetalStream!Retained
<1> QED
  BY <1>1, <1>2, <1>3, <1>4

LEMMA DonatableFacts ==
  ASSUME MetalOrder, NEW b, MetalStream!Donatable(b)
  PROVE  /\ b \in live /\ b \notin stream.temporaries
         /\ \A n \in DOMAIN kernels : b \in kernels[n].reads => b \in kernels[n].writes
<1>1. b \in live /\ b \notin MetalStream!Retained
  BY DEF MetalStream!Donatable
<1>2. \A x : HeldBehind(stream, flying, x) \subseteq MetalStream!Retained
  BY DEF HeldBehind, MetalStream!Retained
<1>3. \A n \in DOMAIN kernels : kernels[n].signals \subseteq MetalStream!Retained
  BY DEF MetalStream!Retained
<1>4. ASSUME NEW n \in DOMAIN kernels, b \in kernels[n].reads PROVE b \in kernels[n].writes
  <2>1. kernels[n].reads \subseteq
          {} \cup HeldBehind(stream, flying, kernels[n].encoder) \cup kernels[n].writes
            \cup UNION {kernels[i].signals :
                          i \in {j \in DOMAIN kernels : kernels[j].encoder = kernels[n].encoder}}
    BY DEF MetalOrder, Kept
  <2> QED
    BY <1>1, <1>2, <1>3, <1>4, <2>1
<1>5. b \notin stream.temporaries
  BY <1>1 DEF MetalStream!Retained
<1> QED
  BY <1>1, <1>4, <1>5

\* What a live buffer, or one that no kernel uses, may be written over.
LEMMA OutputFacts ==
  ASSUME MetalOrder, NEW out, MetalStream!Fresh(out) \/ MetalStream!Donatable(out)
  PROVE  /\ out \in Buffers /\ out \notin stream.temporaries
         /\ \A n \in DOMAIN kernels : /\ out \in kernels[n].reads => out \in kernels[n].writes
                                      /\ out \in live \/ out \notin Changed(kernels[n])
  BY FreshFacts, DonatableFacts DEF MetalOrder, Touched

LEMMA ComputeKeeps ==
  ASSUME MetalOrder, NEW ins \in SUBSET live, NEW out \in Buffers, MetalStream!Compute(ins, out)
  PROVE  MetalOrder'
<1>1. PICK plan : plan = <<MetalStream!Kernel(ins, {out})>>
  OBVIOUS
<1>2. /\ MetalStream!Fresh(out) \/ MetalStream!Donatable(out)
      /\ MetalStream!Eval(plan, 0, {}, ins, out)
  BY <1>1 DEF MetalStream!Compute
<1>3. /\ DOMAIN plan = 1 .. 1
      /\ \A k \in 1 .. 1 : plan[k] = MetalStream!Kernel(ins, {out})
  BY <1>1
<1>4. \A k \in 1 .. 1 : plan[k].reads = ins /\ plan[k].writes = {out}
  BY <1>3 DEF MetalStream!Kernel
<1>5. /\ out \notin stream.temporaries
      /\ \A n \in DOMAIN kernels : /\ out \in kernels[n].reads => out \in kernels[n].writes
                                   /\ out \in live \/ out \notin Changed(kernels[n])
  BY <1>2, OutputFacts
<1>6. PlanUses(plan, 1, {}, ins, out)
  BY <1>4, <1>5 DEF PlanUses
<1>7. Allowed(stream, kernels, plan, 1, 0, live)
  <2>1. ins \subseteq Buffers
    BY DEF MetalOrder
  <2>2. \A k \in 1 .. 1 : 1 .. k - 1 = {}
    OBVIOUS
  <2> QED
    BY <1>3, <1>4, <1>5, <2>1, <2>2 DEF Allowed
<1>8. 0 \in Nat /\ 1 \in Nat \ {0} /\ DOMAIN plan = 1 .. 1
      /\ MetalStream!Eval(plan, 0, {}, ins, out)
  BY <1>2, <1>3
<1> QED
  BY <1>6, <1>7, <1>8, MetalEvalKeeps

\* Two kernels, the second on what the first makes in a temporary.
LEMMA TwoKernels ==
  ASSUME MetalOrder, NEW r \in SUBSET live, NEW others \in SUBSET live, NEW tmp, NEW out,
         MetalStream!Fresh(tmp), tmp # out, out \notin r,
         MetalStream!Fresh(out) \/ MetalStream!Donatable(out),
         NEW ins, ins = others \cup r,
         NEW plan, plan = <<MetalStream!Kernel(r, {tmp}),
                            MetalStream!Kernel(others \cup {tmp}, {out})>>,
         MetalStream!Eval(plan, 0, {tmp}, ins, out)
  PROVE  MetalOrder'
<1>1. /\ DOMAIN plan = 1 .. 2
      /\ plan[1] = MetalStream!Kernel(r, {tmp})
      /\ plan[2] = MetalStream!Kernel(others \cup {tmp}, {out})
  OBVIOUS
<1>2. /\ plan[1].reads = r /\ plan[1].writes = {tmp}
      /\ plan[2].reads = others \cup {tmp} /\ plan[2].writes = {out}
  BY <1>1 DEF MetalStream!Kernel
<1>3. /\ out \in Buffers /\ out \notin stream.temporaries
      /\ \A n \in DOMAIN kernels : /\ out \in kernels[n].reads => out \in kernels[n].writes
                                   /\ out \in live \/ out \notin Changed(kernels[n])
  BY OutputFacts
<1>4. /\ tmp \in Buffers /\ tmp \notin live /\ tmp \notin stream.temporaries
      /\ \A n \in DOMAIN kernels : tmp \notin Touched(kernels[n])
  BY FreshFacts
<1>5. \A k \in 1 .. 2 : k = 1 \/ k = 2
  OBVIOUS
<1>6. PlanUses(plan, 2, {tmp}, ins, out)
  <2>1. \A k \in 1 .. 2 :
          /\ plan[k].reads \subseteq (ins \ {out}) \cup {tmp} \cup plan[k].writes
          /\ plan[k].writes \subseteq {tmp} \cup {out}
    BY <1>2, <1>5
  <2> QED
    BY <1>3, <1>4, <2>1 DEF PlanUses
<1>7. live \subseteq Buffers
  BY DEF MetalOrder
<1>8. Allowed(stream, kernels, plan, 2, 0, live)
  <2>1. ASSUME NEW k \in 1 .. 2
        PROVE  /\ plan[k] = MetalStream!Kernel(plan[k].reads, plan[k].writes)
               /\ plan[k].reads \subseteq Buffers /\ plan[k].writes \subseteq Buffers
    BY <1>1, <1>2, <1>3, <1>4, <1>5, <1>7
  <2>2. ASSUME NEW k \in 1 .. 2, NEW j \in 1 .. k - 1
        PROVE  plan[j].reads \cap plan[k].writes \subseteq plan[j].writes
    <3>1. k = 2 /\ j = 1
      OBVIOUS
    <3> QED
      BY <1>2, <3>1
  <2>3. ASSUME NEW k \in 1 .. 2, NEW i \in DOMAIN kernels
        PROVE  /\ kernels[i].reads \cap plan[k].writes \subseteq kernels[i].writes
               /\ Changed(kernels[i]) \cap (plan[k].reads \cup plan[k].writes) \subseteq live
    <3>1. tmp \notin kernels[i].reads /\ tmp \notin Changed(kernels[i])
      BY <1>4 DEF Touched
    <3>2. CASE k = 1
      BY <1>2, <3>1, <3>2
    <3>3. CASE k = 2
      BY <1>2, <1>3, <3>1, <3>3, ZenonT(60)
    <3> QED
      BY <1>5, <3>2, <3>3
  <2> QED
    BY <2>1, <2>2, <2>3 DEF Allowed
<1>9. 0 \in Nat /\ 2 \in Nat \ {0} /\ DOMAIN plan = 1 .. 2
      /\ MetalStream!Eval(plan, 0, {tmp}, ins, out)
  BY <1>1
<1> QED
  BY <1>6, <1>8, <1>9, MetalEvalKeeps

LEMMA ComputeOnCopyKeeps ==
  ASSUME MetalOrder, NEW x \in live, NEW others \in SUBSET live, NEW tmp \in Buffers,
         NEW out \in Buffers, x \notin others, MetalStream!ComputeOnCopy(x, others, tmp, out)
  PROVE  MetalOrder'
<1>1. /\ MetalStream!Fresh(tmp) /\ tmp # out
      /\ MetalStream!Fresh(out) \/ (out \in others /\ MetalStream!Donatable(out))
      /\ MetalStream!Eval(<<MetalStream!Kernel({x}, {tmp}),
                            MetalStream!Kernel(others \cup {tmp}, {out})>>, 0, {tmp},
                          others \cup {x}, out)
  BY DEF MetalStream!ComputeOnCopy
<1>2. {x} \in SUBSET live /\ out \notin {x}
  BY <1>1, FreshFacts
<1> QED
  BY <1>1, <1>2, TwoKernels

LEMMA DynamicSliceKeeps ==
  ASSUME MetalOrder, ~DonateIndices, NEW x \in live, NEW indices \in live,
         NEW offset \in Buffers, NEW out \in Buffers,
         MetalStream!DynamicSlice(x, indices, offset, out)
  PROVE  MetalOrder'
<1>1. /\ MetalStream!Fresh(offset) /\ offset # out /\ MetalStream!Fresh(out)
      /\ MetalStream!Eval(<<MetalStream!Kernel({indices}, {offset}),
                            MetalStream!Kernel({x, offset}, {out})>>, 0, {offset},
                          {x, indices}, out)
  BY DEF MetalStream!DynamicSlice
<1>2. {x, offset} = {x} \cup {offset} /\ {x, indices} = {x} \cup {indices}
  OBVIOUS
<1>3. {x} \in SUBSET live /\ {indices} \in SUBSET live /\ out \notin {indices}
  BY <1>1, FreshFacts
<1>4. MetalStream!Eval(<<MetalStream!Kernel({indices}, {offset}),
                         MetalStream!Kernel({x} \cup {offset}, {out})>>, 0, {offset},
                       {x} \cup {indices}, out)
  BY <1>1, <1>2
<1> QED
  BY <1>1, <1>3, <1>4, TwoKernels

LEMMA ConcatenateKeeps ==
  ASSUME MetalOrder, NEW ins \in SUBSET live, ins # {}, NEW out \in Buffers,
         MetalStream!Concatenate(ins, out)
  PROVE  MetalOrder'
<1>1. PICK S : S = {MetalStream!Kernel({b}, {out}) : b \in ins}
  OBVIOUS
<1>2. PICK plan : plan = MetalStream!SetToSeq(S)
  OBVIOUS
<1>3. PICK C, c : /\ C = {kernels[n].context : n \in DOMAIN kernels} \cup {0}
                  /\ c = MetalStream!Max(C) + 1
  OBVIOUS
<1>4. MetalStream!Fresh(out) /\ MetalStream!Eval(plan, c, {}, ins, out)
  BY <1>1, <1>2, <1>3 DEF MetalStream!Concatenate
<1>5. /\ out \in Buffers /\ out \notin live /\ out \notin stream.temporaries
      /\ \A n \in DOMAIN kernels : out \notin Touched(kernels[n])
  BY <1>4, FreshFacts
<1>6. IsFiniteSet(S) /\ S # {}
  <2>1. ins \subseteq Buffers
    BY DEF MetalOrder
  <2>2. IsFiniteSet(ins)
    BY <2>1, DevicesAssumption, FS_Subset
  <2>3. PICK f : f = [b \in ins |-> MetalStream!Kernel({b}, {out})]
    OBVIOUS
  <2>4. S = {f[b] : b \in DOMAIN f} /\ DOMAIN f = ins
    BY <1>1, <2>3
  <2>5. IsFiniteSet(S)
    BY <2>2, <2>4, ValuesFinite
  <2> QED
    BY <1>1, <2>5
<1>7. PICK n \in Nat \ {0} : DOMAIN plan = 1 .. n /\ \A k \in 1 .. n : plan[k] \in S
  <2>1. Cardinality(S) \in Nat /\ plan \in [1 .. Cardinality(S) -> S]
    BY <1>2, <1>6, SetToSeqFacts
  <2>2. Cardinality(S) # 0
    BY <1>6, FS_EmptySet
  <2> QED
    BY <2>1, <2>2
<1>8. \A k \in 1 .. n : \E b \in ins : /\ plan[k] = MetalStream!Kernel({b}, {out})
                                       /\ plan[k].reads = {b} /\ plan[k].writes = {out}
  <2> TAKE k \in 1 .. n
  <2>1. PICK b \in ins : plan[k] = MetalStream!Kernel({b}, {out})
    BY <1>1, <1>7
  <2>2. plan[k].reads = {b} /\ plan[k].writes = {out}
    BY ONLY <2>1 DEF MetalStream!Kernel
  <2> QED
    BY <2>1, <2>2
<1>9. c \in Nat \ {0} /\ \A i \in DOMAIN kernels : kernels[i].context # c
  <2>1. MetalTypes(stream, kernels)
    BY DEF MetalOrder, Coded
  <2>2. \A i \in DOMAIN kernels : kernels[i].context \in Nat
    BY <2>1 DEF MetalTypes, MetalKernel
  <2>3. IsFiniteSet(C)
    <3>1. IsFiniteSet(DOMAIN kernels)
      <4>1. DOMAIN kernels \subseteq 1 .. stream.issued /\ stream.issued \in Nat
        BY <2>1 DEF MetalTypes
      <4>2. IsFiniteSet(1 .. stream.issued)
        BY <4>1, FS_Interval
      <4> QED
        BY <4>1, <4>2, FS_Subset
    <3>2. PICK f : f = [i \in DOMAIN kernels |-> kernels[i].context]
      OBVIOUS
    <3>3. C = {f[i] : i \in DOMAIN f} \cup {0} /\ DOMAIN f = DOMAIN kernels
      BY <1>3, <3>2
    <3>4. IsFiniteSet({f[i] : i \in DOMAIN f})
      BY <3>1, <3>3, ValuesFinite
    <3> QED
      BY <3>3, <3>4, FS_AddElement
  <2>4. C \subseteq Nat /\ C # {}
    BY <1>3, <2>2
  <2>5. PICK m \in C : \A y \in C : y <= m
    BY <2>3, <2>4, GreatestNat
  <2>6. MetalStream!Max(C) = m
    BY <2>4, <2>5, MaxIs
  <2>7. m \in Nat /\ c = m + 1 /\ \A i \in DOMAIN kernels : kernels[i].context <= m
    BY <1>3, <2>4, <2>5, <2>6
  <2> QED
    BY <2>2, <2>7
<1>10. PlanUses(plan, n, {}, ins, out)
  <2>1. \A k \in 1 .. n :
          /\ plan[k].reads \subseteq (ins \ {out}) \cup {} \cup plan[k].writes
          /\ plan[k].writes \subseteq {} \cup {out}
    BY <1>5, <1>8
  <2> QED
    BY <1>5, <2>1 DEF PlanUses, Touched
<1>11. Allowed(stream, kernels, plan, n, c, live)
  <2>1. live \subseteq Buffers
    BY DEF MetalOrder
  <2>2. ASSUME NEW k \in 1 .. n
        PROVE  /\ plan[k] = MetalStream!Kernel(plan[k].reads, plan[k].writes)
               /\ plan[k].reads \subseteq Buffers /\ plan[k].writes \subseteq Buffers
               /\ plan[k].reads \subseteq live /\ plan[k].writes = {out}
    BY <1>5, <1>8, <2>1
  <2>3. ASSUME NEW k \in 1 .. n, NEW j \in 1 .. k - 1
        PROVE  plan[j].reads \cap plan[k].writes \subseteq plan[j].writes
    <3>1. j \in 1 .. n
      OBVIOUS
    <3> QED
      BY <2>2, <3>1
  <2>4. ASSUME NEW k \in 1 .. n, NEW i \in DOMAIN kernels
        PROVE  /\ kernels[i].reads \cap plan[k].writes \subseteq kernels[i].writes
               /\ Changed(kernels[i]) \cap (plan[k].reads \cup plan[k].writes) \subseteq live
    BY <1>5, <2>2 DEF Touched
  <2> QED
    BY <1>9, <2>2, <2>3, <2>4 DEF Allowed
<1> QED
  BY <1>4, <1>7, <1>9, <1>10, <1>11, MetalEvalKeeps

LEMMA SynchronizerKeeps ==
  ASSUME MetalOrder, NEW out, MetalStream!Synchronizer(out)
  PROVE  MetalOrder'
<1>1. /\ out \in live /\ live' = live \ {out} /\ kernels' = kernels /\ handlers' = handlers
      /\ MetalStream!Finish(stream, {out}, FALSE)
  BY DEF MetalStream!Synchronizer
<1>2. live \in SUBSET Buffers /\ Sound(stream, flying, kernels, live, {})
  BY DEF MetalOrder, Sound
<1>3. Sound(stream, flying, kernels, live, {out})
  <2>1. Kept(stream, flying, kernels, live, {out})
    BY <1>2 DEF Sound, Kept
  <2> QED
    BY <1>2, <2>1 DEF Sound
<1>4. Sound(stream', flying', kernels, live', {})
  <2>1. {out} \in SUBSET Buffers /\ live' \in SUBSET live /\ live \subseteq live' \cup {out}
        /\ FALSE \in BOOLEAN
    BY <1>1, <1>2
  <2> QED
    BY <1>1, <1>2, <1>3, <2>1, FinishKeeps
<1> QED
  BY <1>1, <1>2, <1>4 DEF Sound, MetalOrder

LEMMA EventWaitOrSignalKeeps ==
  ASSUME MetalOrder, MetalStream!EventWaitOrSignal
  PROVE  MetalOrder'
<1>1. /\ stream' = MetalStream!EndEncoding(stream) /\ live' = live /\ flying' = flying
      /\ handlers' = handlers /\ kernels' = kernels
  BY DEF MetalStream!EventWaitOrSignal
<1>2. /\ Coded(stream', kernels, 0, live, {}) /\ Booked(stream', flying, handlers)
      /\ Kept(stream', flying, kernels, live, {})
  BY <1>1, EndEncodingKeeps DEF MetalOrder
<1> QED
  BY <1>1, <1>2 DEF MetalOrder

LEMMA FinalizeKeeps ==
  ASSUME MetalOrder, MetalStream!Finalize
  PROVE  MetalOrder'
<1>1. PICK t : t = MetalStream!EndEncoding(stream)
  OBVIOUS
<1>2. /\ stream' = MetalStream!Emptied(t) /\ flying' = Flown(t, flying) /\ live' = live
      /\ handlers' = handlers /\ kernels' = kernels
  BY <1>1 DEF MetalStream!Finalize, MetalStream!Commit, MetalStream!Committed, Flown
<1>3. /\ Coded(t, kernels, 0, live, {}) /\ Booked(t, flying, handlers)
      /\ Kept(t, flying, kernels, live, {}) /\ t.encoder.id = 0 /\ t.temporaries = {}
  BY <1>1, EndEncodingKeeps DEF MetalOrder
<1>4. Sound(MetalStream!Emptied(t), Flown(t, flying), kernels, live, {})
  BY <1>3, MetalCommitKeeps DEF Sound, MetalOrder
<1> QED
  BY <1>2, <1>4 DEF Sound, MetalOrder

\* The handler of an encoder that has ended forgets nothing that anyone still
\* waits for.
LEMMA HandlerKeeps ==
  ASSUME MetalOrder, MetalStream!Handler
  PROVE  MetalOrder'
<1>1. PICK h : h = Head(handlers)
  OBVIOUS
<1>2. /\ handlers # <<>> /\ handlers' = Tail(handlers)
      /\ stream' = [stream EXCEPT !.outputs = MetalStream!Erased(@, h)]
      /\ live' = live /\ flying' = flying /\ kernels' = kernels
  BY <1>1 DEF MetalStream!Handler
<1>3. /\ Coded(stream, kernels, 0, live, {}) /\ Booked(stream, flying, handlers)
      /\ Kept(stream, flying, kernels, live, {}) /\ live \subseteq Buffers
  BY DEF MetalOrder
<1>4. /\ MetalTypes(stream, kernels) /\ Homes(stream, kernels)
      /\ Current(stream.encoder, kernels, 0) /\ Tracked(stream, kernels, live)
      /\ Sequenced(stream, kernels, {})
  BY <1>3 DEF Coded
<1>5. PICK q : q = MetalStream!Erased(stream.outputs, h)
  OBVIOUS
<1>6. stream' = [stream EXCEPT !.outputs = q]
  BY <1>2, <1>5
<1>7. /\ stream'.encoder = stream.encoder /\ stream'.temporaries = stream.temporaries
      /\ stream'.outputs = q /\ stream'.handlers = stream.handlers
      /\ stream'.encoders = stream.encoders /\ stream'.waits = stream.waits
      /\ stream'.issued = stream.issued
      /\ stream' = [encoder |-> stream'.encoder, temporaries |-> stream'.temporaries,
                    outputs |-> stream'.outputs, handlers |-> stream'.handlers,
                    encoders |-> stream'.encoders, waits |-> stream'.waits,
                    issued |-> stream'.issued]
  BY ONLY <1>4, <1>6 DEF MetalTypes
<1>8. handlers \in Seq(MetalHandler) /\ h \in MetalHandler /\ h.fence \notin DOMAIN stream.waits
  BY <1>1, <1>2, <1>3 DEF Booked
<1>9. /\ q \in [Buffers -> Nat]
      /\ \A b \in Buffers : stream.outputs[b] \in DOMAIN stream.waits => q[b] = stream.outputs[b]
  BY <1>4, <1>5, <1>8 DEF MetalTypes, MetalStream!Erased
<1>10. MetalTypes(stream', kernels)
  BY <1>4, <1>7, <1>9 DEF MetalTypes
<1>11. Homes(stream', kernels)
  BY <1>4, <1>7 DEF Homes
<1>12. Tracked(stream', kernels, live)
  BY <1>3, <1>4, <1>7, <1>9 DEF Tracked
<1>13. ASSUME NEW x, NEW B, WillWait(stream, x, B, {}) PROVE WillWait(stream', x, B, {})
  <2>1. PICK b \in (B \cap stream.encoder.inputs) \ stream.temporaries :
          stream.outputs[b] \in DOMAIN stream.waits /\ x \in Reaching(stream.waits, stream.outputs[b])
    BY <1>13 DEF WillWait
  <2>2. b \in Buffers
    BY <1>4 DEF MetalTypes, MetalEncoder
  <2> QED
    BY <1>7, <1>9, <2>1, <2>2 DEF WillWait
<1>14. Sequenced(stream', kernels, {})
  BY <1>4, <1>7, <1>13 DEF Sequenced
<1>15. Coded(stream', kernels, 0, live, {})
  BY <1>4, <1>7, <1>10, <1>11, <1>12, <1>14 DEF Coded
<1>16. Booked(stream', flying, handlers')
  <2>1. /\ handlers' \in Seq(MetalHandler)
        /\ \A n \in DOMAIN handlers' : \E m \in DOMAIN handlers : handlers'[n] = handlers[m]
    <3>1. Len(handlers') = Len(handlers) - 1 /\ handlers' \in Seq(MetalHandler)
      BY <1>2, <1>8
    <3>2. \A n \in DOMAIN handlers' : n + 1 \in DOMAIN handlers /\ handlers'[n] = handlers[n + 1]
      BY <1>2, <1>8, <3>1
    <3> QED
      BY <3>1, <3>2
  <2> QED
    BY <1>3, <1>7, <2>1 DEF Booked
<1>17. Kept(stream', flying, kernels, live, {})
  <2>1. \A x : HeldBehind(stream', flying, x) = HeldBehind(stream, flying, x)
    BY <1>7 DEF HeldBehind
  <2> QED
    BY <1>3, <2>1 DEF Kept
<1> QED
  BY <1>2, <1>3, <1>15, <1>16, <1>17 DEF MetalOrder

LEMMA FenceUpdateKeeps ==
  ASSUME MetalOrder, NEW x, MetalStream!FenceUpdate(x)
  PROVE  MetalOrder'
<1>1. PICK new : new = MetalStream!Dispatch([stream |-> stream, kernels |-> kernels],
                                            MetalStream!Kernel({x}, {}), 0)
  OBVIOUS
<1>2. PICK s : s = [new.stream EXCEPT !.encoder = MetalStream!MaybeInsertBarrier(
                                                    MetalStream!Barrier(@)),
                                      !.issued = @ + 1]
  OBVIOUS
<1>3. PICK k : k = [reads |-> {x}, writes |-> {}, opens |-> {}, signals |-> {x}, context |-> 0,
                    encoder |-> s.encoder.id, phase |-> s.encoder.phase]
  OBVIOUS
<1>4. /\ x \in live /\ stream' = s /\ kernels' = MetalStream!Encode(new.kernels, s.issued, k)
      /\ live' = live /\ flying' = flying /\ handlers' = handlers
  BY <1>1, <1>2, <1>3 DEF MetalStream!FenceUpdate
<1>5. /\ live \in SUBSET Buffers /\ Coded(stream, kernels, 0, live, {})
      /\ Booked(stream, flying, handlers) /\ Kept(stream, flying, kernels, live, {})
  BY DEF MetalOrder
<1>6. PICK o : o = MetalStream!GetCommandEncoder(stream)
  OBVIOUS
<1>7. /\ Coded(o, kernels, 0, live, {}) /\ Booked(o, flying, handlers) /\ o.encoder.id # 0
      /\ o.temporaries = stream.temporaries /\ o.handlers = stream.handlers
  BY <1>5, <1>6, OpenEncoder
<1>8. MetalStream!GetCommandEncoder(o) = o
  BY <1>7 DEF MetalStream!GetCommandEncoder
<1>9. PICK run : run = [stream |-> o, kernels |-> kernels]
  OBVIOUS
<1>10. new = MetalStream!Dispatch(run, MetalStream!Kernel({x}, {}), 0)
  BY <1>1, <1>6, <1>8, <1>9 DEF MetalStream!Dispatch
<1>11. MayUse(o, kernels, {x}, {}, 0, live)
  BY <1>4, <1>5 DEF MayUse
<1>12. PICK t, ls : t = new.stream /\ ls = new.kernels
  OBVIOUS
<1>13. Coded(t, ls, 0, live, {}) /\ Grown(o, kernels, {x}, {}, 0, t, ls)
  <2>1. 0 \in Nat /\ {x} \in SUBSET Buffers /\ {} \in SUBSET Buffers /\ live \cap {} = {}
        /\ run.stream = o /\ run.kernels = kernels
    BY <1>4, <1>5, <1>9
  <2> QED
    BY <1>5, <1>7, <1>10, <1>11, <1>12, <2>1, DispatchKeeps
<1>14. PICK l \in MetalKernel :
         /\ ls = MetalStream!Encode(kernels, o.issued + 1, l)
         /\ l.reads = {x} /\ l.writes = {} /\ l.opens = {} /\ l.signals = {}
         /\ l.context = 0 /\ l.encoder = o.encoder.id
  BY <1>13 DEF Grown
<1>15. /\ t.encoder.id = o.encoder.id /\ t.temporaries = o.temporaries /\ t.handlers = o.handlers
       /\ t.encoders = o.encoders /\ t.waits = o.waits /\ t.outputs = o.outputs
       /\ t.issued = o.issued + 1
  <2>1. t = [o EXCEPT !.encoder = t.encoder, !.issued = @ + 1] /\ t.encoder.id = o.encoder.id
    BY <1>13 DEF Grown
  <2>2. MetalTypes(o, kernels)
    BY <1>7 DEF Coded
  <2> QED
    BY ONLY <2>1, <2>2 DEF MetalTypes
<1>16. PICK e, f : /\ e = t.encoder 
                   /\ f = MetalStream!MaybeInsertBarrier(MetalStream!Barrier(e))
  OBVIOUS
<1>17. MetalTypes(t, ls) /\ e \in MetalEncoder /\ Current(e, ls, 0)
  BY <1>13, <1>16 DEF Coded, MetalTypes
<1>18. /\ f \in MetalEncoder /\ f.id = e.id /\ f.inputs = e.inputs /\ f.outputs = e.outputs
       /\ e.phase < f.phase
  <2>1. PICK g : g = MetalStream!Barrier(e)
    OBVIOUS
  <2>2. /\ g \in MetalEncoder /\ g.id = e.id /\ g.inputs = e.inputs /\ g.outputs = e.outputs
        /\ g.phase = e.phase + 1 /\ e.phase \in Nat
    BY <1>17, <2>1 DEF MetalStream!Barrier, MetalEncoder
  <2>3. CASE g.needsBarrier
    <3>1. PICK h : h = MetalStream!Barrier(g)
      OBVIOUS
    <3>2. /\ h \in MetalEncoder /\ h.id = g.id /\ h.inputs = g.inputs /\ h.outputs = g.outputs
          /\ h.phase = g.phase + 1
      BY <2>2, <3>1 DEF MetalStream!Barrier, MetalEncoder
    <3>3. f = [h EXCEPT !.needsBarrier = FALSE, !.prev = g.next, !.next = {}]
      BY <1>16, <2>1, <2>3, <3>1 DEF MetalStream!MaybeInsertBarrier
    <3>4. f \in MetalEncoder /\ f.id = h.id /\ f.inputs = h.inputs /\ f.outputs = h.outputs
          /\ f.phase = h.phase
      BY <2>2, <3>2, <3>3 DEF MetalEncoder
    <3> QED
      BY <2>2, <3>2, <3>4
  <2>4. CASE ~g.needsBarrier
    <3>1. f = [g EXCEPT !.prev = @ \cup g.next, !.next = {}]
      BY <1>16, <2>1, <2>4 DEF MetalStream!MaybeInsertBarrier
    <3>2. f \in MetalEncoder /\ f.id = g.id /\ f.inputs = g.inputs /\ f.outputs = g.outputs
          /\ f.phase = g.phase
      BY <2>2, <3>1 DEF MetalEncoder
    <3> QED
      BY <2>2, <3>2
  <2> QED
    BY <2>3, <2>4
<1>19. /\ s = [t EXCEPT !.encoder = f, !.issued = @ + 1]
       /\ s.encoder = f /\ s.issued = t.issued + 1 /\ s.temporaries = t.temporaries
       /\ s.handlers = t.handlers /\ s.encoders = t.encoders /\ s.waits = t.waits
  <2>1. s = [t EXCEPT !.encoder = f, !.issued = @ + 1]
    BY <1>2, <1>12, <1>16
  <2> QED
    BY <1>17, <2>1 DEF MetalTypes
<1>20. k \in MetalKernel /\ k.encoder = e.id /\ k.context = 0 /\ k.phase = f.phase
       /\ k.reads = {x} /\ k.writes = {} /\ k.opens = {} /\ k.signals = {x} /\ Changed(k) = {}
  BY <1>3, <1>4, <1>5, <1>18, <1>19 DEF MetalKernel, MetalEncoder, Changed
<1>21. PICK m \in Nat : m = o.issued + 1
  BY <1>7 DEF Coded, MetalTypes
<1>22. DOMAIN ls = DOMAIN kernels \cup {m} /\ ls[m] = l /\ \A i \in DOMAIN kernels : ls[i] = kernels[i]
  <2>1. m \notin DOMAIN kernels
    BY <1>7, <1>21 DEF Coded, MetalTypes
  <2>2. ls = [i \in DOMAIN kernels \cup {m} |-> IF i = m THEN l ELSE kernels[i]]
    BY <1>14, <1>21 DEF MetalStream!Encode
  <2> QED
    BY ONLY <2>1, <2>2
<1>23. x \in e.inputs
  <2>1. m \in DOMAIN ls /\ ls[m].encoder = e.id /\ x \in ls[m].reads
    BY <1>14, <1>15, <1>16, <1>22
  <2> QED
    BY <1>17, <2>1 DEF Current
<1>24. Coded(s, kernels', 0, live, {})
  <2>1. kernels' = MetalStream!Encode(ls, t.issued + 1, k)
    BY <1>4, <1>12, <1>19
  <2>2. \A n \in DOMAIN ls :
           /\ ls[n].encoder = e.id /\ ls[n].phase = f.phase /\ (0 = 0 \/ ls[n].context # 0) =>
                Changed(ls[n]) \cap (k.reads \cup k.writes) = {}
           /\ ls[n].reads \cap k.writes \subseteq ls[n].writes
           /\ ls[n].encoder \in DOMAIN t.waits =>
                Changed(ls[n]) \cap (k.reads \cup k.writes) \subseteq live
           /\ k.opens \cap Touched(ls[n]) = {}
           /\ 0 # 0 /\ ls[n].context = 0 => ls[n].encoder = e.id
    <3> TAKE n \in DOMAIN ls
    <3>1. ls[n].encoder = e.id => ls[n].phase <= e.phase
      BY <1>17 DEF Current
    <3>2. ls[n].encoder = e.id => ls[n].phase # f.phase
      <4>1. ls[n].phase \in Nat /\ e.phase \in Nat /\ f.phase \in Nat
        BY <1>17, <1>18 DEF MetalTypes, MetalKernel, MetalEncoder
      <4> QED
        BY <1>18, <3>1, <4>1
    <3> QED
      BY <1>4, <1>20, <3>2
  <2>3. /\ e.id # 0 /\ e.phase <= f.phase /\ f.phase # e.phase
        /\ e.inputs \cup k.reads \cup k.writes \subseteq f.inputs
        /\ f.outputs = e.outputs \cup Changed(k)
        /\ Changed(k) \subseteq f.prev \cup (IF 0 # 0 THEN f.concurrent ELSE {})
    <3>1. f.phase \in Nat /\ e.phase \in Nat
      BY <1>17, <1>18 DEF MetalEncoder
    <3> QED
      BY <1>7, <1>15, <1>16, <1>18, <1>20, <1>23, <3>1
  <2>4. 0 \in Nat /\ {} \in SUBSET Buffers /\ live \cap {} = {}
    OBVIOUS
  <2>5. /\ e = t.encoder /\ f \in MetalEncoder /\ f.id = e.id /\ live \in SUBSET Buffers
        /\ k \in MetalKernel /\ k.encoder = e.id /\ k.context = 0 /\ k.phase = f.phase
        /\ f.phase = e.phase => e.prev \subseteq f.prev /\ e.concurrent \subseteq f.concurrent
        /\ s = [t EXCEPT !.encoder = f, !.issued = @ + 1]
        /\ Coded(t, ls, 0, live, {})
    BY <1>5, <1>13, <1>16, <1>18, <1>19, <1>20, <2>3
  <2> QED
    BY ONLY <2>1, <2>2, <2>3, <2>4, <2>5, EncodeKeeps
<1>25. Booked(s, flying, handlers)
  BY <1>7, <1>15, <1>16, <1>18, <1>19 DEF Booked
<1>26. Kept(s, flying, kernels', live, {})
  <2>1. PICK u \in Nat : u = t.issued + 1
    BY <1>17 DEF MetalTypes
  <2>2. u \notin DOMAIN ls
    BY <1>17, <2>1 DEF MetalTypes
  <2>3. kernels' = [i \in DOMAIN ls \cup {u} |-> IF i = u THEN k ELSE ls[i]]
    BY <1>4, <1>12, <1>19, <2>1 DEF MetalStream!Encode
  <2>4. DOMAIN kernels' = DOMAIN kernels \cup {m, u} /\ kernels'[u] = k /\ kernels'[m] = l
        /\ \A i \in DOMAIN kernels : kernels'[i] = kernels[i]
    BY ONLY <1>22, <2>2, <2>3
  <2>5. \A y : HeldBehind(s, flying, y) = HeldBehind(stream, flying, y)
    BY <1>7, <1>15, <1>19 DEF HeldBehind
  <2> SUFFICES ASSUME NEW i \in DOMAIN kernels'
               PROVE  /\ Touched(kernels'[i]) \subseteq
                           live \cup HeldBehind(s, flying, kernels'[i].encoder)
                      /\ kernels'[i].reads \subseteq
                           {} \cup HeldBehind(s, flying, kernels'[i].encoder) \cup kernels'[i].writes
                             \cup UNION {kernels'[a].signals : a \in
                                    {j \in DOMAIN kernels' : kernels'[j].encoder = kernels'[i].encoder}}
    BY DEF Kept
  <2>6. CASE i \in DOMAIN kernels
    <3>1. /\ Touched(kernels[i]) \subseteq live \cup HeldBehind(stream, flying, kernels[i].encoder)
          /\ kernels[i].reads \subseteq
               {} \cup HeldBehind(stream, flying, kernels[i].encoder) \cup kernels[i].writes
                 \cup UNION {kernels[a].signals :
                               a \in {j \in DOMAIN kernels : kernels[j].encoder = kernels[i].encoder}}
      BY <1>5, <2>6 DEF Kept
    <3>2. UNION {kernels[a].signals :
                   a \in {j \in DOMAIN kernels : kernels[j].encoder = kernels[i].encoder}}
            \subseteq UNION {kernels'[a].signals :
                   a \in {j \in DOMAIN kernels' : kernels'[j].encoder = kernels'[i].encoder}}
      BY <2>4, <2>6
    <3>3. kernels'[i] = kernels[i]
      BY <2>4, <2>6
    <3> QED
      BY <2>5, <3>1, <3>2, <3>3
  <2>7. CASE i \in {m, u}
    <3>1. kernels'[i].reads = {x} /\ Touched(kernels'[i]) = {x} /\ kernels'[i].encoder = e.id
      BY <1>14, <1>15, <1>16, <1>20, <2>4, <2>7 DEF Touched, Changed
    <3>2. u \in DOMAIN kernels' /\ kernels'[u].encoder = e.id /\ kernels'[u].signals = {x}
      BY <1>20, <2>4
    <3> QED
      BY <1>4, <3>1, <3>2
  <2> QED
    BY <2>4, <2>6, <2>7
<1> QED
  BY <1>4, <1>5, <1>24, <1>25, <1>26 DEF MetalOrder

LEMMA FenceWaitKeeps ==
  ASSUME MetalOrder, NEW x, MetalStream!FenceWait(x)
  PROVE  MetalOrder'
<1>1. PICK o : o = MetalStream!GetCommandEncoder(stream)
  OBVIOUS
<1>2. PICK e, f : /\ e = o.encoder
                  /\ f = MetalStream!MaybeInsertBarrier(
                           MetalStream!RegisterOutputs(e, {x}, FALSE))
  OBVIOUS
<1>3. PICK k : k = [reads |-> {}, writes |-> {}, opens |-> {x}, signals |-> {}, context |-> 0,
                    encoder |-> f.id, phase |-> f.phase]
  OBVIOUS
<1>4. /\ MetalStream!Fresh(x) /\ live' = live \cup {x}
      /\ stream' = [o EXCEPT !.encoder = f, !.issued = @ + 1]
      /\ kernels' = MetalStream!Encode(kernels, o.issued + 1, k)
      /\ flying' = flying /\ handlers' = handlers
  BY <1>1, <1>2, <1>3 DEF MetalStream!FenceWait
<1>5. /\ live \in SUBSET Buffers /\ Coded(stream, kernels, 0, live, {})
      /\ Booked(stream, flying, handlers) /\ Kept(stream, flying, kernels, live, {})
  BY DEF MetalOrder
<1>6. /\ x \in Buffers /\ x \notin live /\ x \notin stream.temporaries
      /\ \A n \in DOMAIN kernels : x \notin Touched(kernels[n])
  BY <1>4, FreshFacts
<1>7. /\ Coded(o, kernels, 0, live, {}) /\ Booked(o, flying, handlers) /\ o.encoder.id # 0
      /\ o.temporaries = stream.temporaries /\ o.handlers = stream.handlers
  BY <1>1, <1>5, OpenEncoder
<1>8. Coded(o, kernels, 0, live \cup {x}, {})
  <2>1. Tracked(o, kernels, live)
    BY <1>7 DEF Coded
  <2>2. \A n \in DOMAIN kernels : Changed(kernels[n]) \cap (live \cup {x}) \subseteq live
    BY <1>6 DEF Touched
  <2>3. Tracked(o, kernels, live \cup {x})
    BY <1>6, <1>7, <2>1, <2>2 DEF Tracked
  <2> QED
    BY <1>7, <2>3 DEF Coded
<1>9. MetalTypes(o, kernels) /\ e \in MetalEncoder
  BY <1>2, <1>7 DEF Coded, MetalTypes
<1>10. /\ f \in MetalEncoder /\ f.id = e.id /\ f.inputs = e.inputs
       /\ f.outputs = e.outputs \cup {x} /\ e.phase <= f.phase
       /\ f.phase = e.phase => e.prev \subseteq f.prev
       /\ e.concurrent \subseteq f.concurrent /\ x \in f.prev
  <2>1. PICK g : g = MetalStream!RegisterOutputs(e, {x}, FALSE)
    OBVIOUS
  <2>2. g = [e EXCEPT !.outputs = @ \cup {x}, !.concurrent = @, !.next = @ \cup {x}]
    BY <2>1 DEF MetalStream!RegisterOutputs
  <2>3. /\ g \in MetalEncoder /\ g.id = e.id /\ g.inputs = e.inputs
        /\ g.outputs = e.outputs \cup {x} /\ g.phase = e.phase /\ e.phase \in Nat
        /\ g.prev = e.prev /\ g.next = e.next \cup {x} /\ g.concurrent = e.concurrent
    BY <1>6, <1>9, <2>2 DEF MetalEncoder
  <2>4. CASE g.needsBarrier
    <3>1. PICK h : h = MetalStream!Barrier(g)
      OBVIOUS
    <3>2. /\ h \in MetalEncoder /\ h.id = g.id /\ h.inputs = g.inputs /\ h.outputs = g.outputs
          /\ h.phase = g.phase + 1 /\ h.concurrent = g.concurrent
      BY <2>3, <3>1 DEF MetalStream!Barrier, MetalEncoder
    <3>3. f = [h EXCEPT !.needsBarrier = FALSE, !.prev = g.next, !.next = {}]
      BY <1>2, <2>1, <2>4, <3>1 DEF MetalStream!MaybeInsertBarrier
    <3>4. f \in MetalEncoder /\ f.id = h.id /\ f.inputs = h.inputs /\ f.outputs = h.outputs
          /\ f.phase = h.phase /\ f.concurrent = h.concurrent /\ f.prev = g.next
      BY <2>3, <3>2, <3>3 DEF MetalEncoder
    <3> QED
      BY <2>3, <3>2, <3>4
  <2>5. CASE ~g.needsBarrier
    <3>1. f = [g EXCEPT !.prev = @ \cup g.next, !.next = {}]
      BY <1>2, <2>1, <2>5 DEF MetalStream!MaybeInsertBarrier
    <3>2. f \in MetalEncoder /\ f.id = g.id /\ f.inputs = g.inputs /\ f.outputs = g.outputs
          /\ f.phase = g.phase /\ f.concurrent = g.concurrent /\ f.prev = g.prev \cup g.next
      BY <2>3, <3>1 DEF MetalEncoder
    <3> QED
      BY <2>3, <3>2
  <2> QED
    BY <2>4, <2>5
<1>11. /\ k \in MetalKernel /\ k.encoder = e.id /\ k.context = 0 /\ k.phase = f.phase
       /\ k.reads = {} /\ k.writes = {} /\ k.opens = {x} /\ Changed(k) = {x} /\ Touched(k) = {x}
  BY <1>3, <1>6, <1>10 DEF MetalKernel, MetalEncoder, Changed, Touched
<1>12. Coded(stream', kernels', 0, live', {})
  <2>1. PICK L \in SUBSET Buffers : L = live \cup {x}
    BY <1>5, <1>6
  <2>2. \A n \in DOMAIN kernels :
           /\ kernels[n].encoder = e.id /\ kernels[n].phase = f.phase /\ (0 = 0 \/ kernels[n].context # 0) =>
                Changed(kernels[n]) \cap (k.reads \cup k.writes) = {}
           /\ kernels[n].reads \cap k.writes \subseteq kernels[n].writes
           /\ kernels[n].encoder \in DOMAIN o.waits =>
                Changed(kernels[n]) \cap (k.reads \cup k.writes) \subseteq L
           /\ k.opens \cap Touched(kernels[n]) = {}
           /\ 0 # 0 /\ kernels[n].context = 0 => kernels[n].encoder = e.id
    BY <1>6, <1>11
  <2>3. /\ e = o.encoder /\ e.id # 0 /\ f \in MetalEncoder /\ f.id = e.id /\ e.phase <= f.phase
        /\ k \in MetalKernel /\ k.encoder = e.id /\ k.context = 0 /\ k.phase = f.phase
        /\ f.phase = e.phase => e.prev \subseteq f.prev /\ e.concurrent \subseteq f.concurrent
        /\ e.inputs \cup k.reads \cup k.writes \subseteq f.inputs
        /\ f.outputs = e.outputs \cup Changed(k)
        /\ Changed(k) \subseteq f.prev \cup (IF 0 # 0 THEN f.concurrent ELSE {})
        /\ Coded(o, kernels, 0, L, {})
        /\ 0 \in Nat /\ {} \in SUBSET Buffers /\ L \cap {} = {}
    BY <1>2, <1>7, <1>8, <1>10, <1>11, <2>1
  <2>4. PICK t, ls : /\ t = [o EXCEPT !.encoder = f, !.issued = @ + 1]
                     /\ ls = MetalStream!Encode(kernels, o.issued + 1, k)
    OBVIOUS
  <2>5. Coded(t, ls, 0, L, {})
    BY ONLY <2>2, <2>3, <2>4, EncodeKeeps
  <2> QED
    BY <1>4, <2>1, <2>4, <2>5
<1>13. /\ stream'.encoder = f /\ stream'.temporaries = o.temporaries
       /\ stream'.handlers = o.handlers /\ stream'.encoders = o.encoders
       /\ stream'.waits = o.waits
  BY ONLY <1>4, <1>9 DEF MetalTypes
<1>14. Booked(stream', flying, handlers)
  BY <1>2, <1>7, <1>10, <1>13, ZenonT(60) DEF Booked
<1>15. Kept(stream', flying, kernels', live', {})
  <2>1. PICK u \in Nat : u = o.issued + 1
    BY <1>9 DEF MetalTypes
  <2>2. u \notin DOMAIN kernels
    BY <1>9, <2>1 DEF MetalTypes
  <2>3. kernels' = [i \in DOMAIN kernels \cup {u} |-> IF i = u THEN k ELSE kernels[i]]
    BY <1>4, <2>1 DEF MetalStream!Encode
  <2>4. DOMAIN kernels' = DOMAIN kernels \cup {u} /\ kernels'[u] = k
        /\ \A i \in DOMAIN kernels : kernels'[i] = kernels[i]
    BY ONLY <2>2, <2>3
  <2>5. \A y : HeldBehind(stream', flying, y) = HeldBehind(stream, flying, y)
    BY <1>7, <1>13 DEF HeldBehind
  <2> SUFFICES ASSUME NEW i \in DOMAIN kernels'
               PROVE  /\ Touched(kernels'[i]) \subseteq
                           live' \cup HeldBehind(stream', flying, kernels'[i].encoder)
                      /\ kernels'[i].reads \subseteq
                           {} \cup HeldBehind(stream', flying, kernels'[i].encoder)
                             \cup kernels'[i].writes
                             \cup UNION {kernels'[a].signals : a \in
                                    {j \in DOMAIN kernels' : kernels'[j].encoder = kernels'[i].encoder}}
    BY DEF Kept
  <2>6. CASE i \in DOMAIN kernels
    <3>1. /\ Touched(kernels[i]) \subseteq live \cup HeldBehind(stream, flying, kernels[i].encoder)
          /\ kernels[i].reads \subseteq
               {} \cup HeldBehind(stream, flying, kernels[i].encoder) \cup kernels[i].writes
                 \cup UNION {kernels[a].signals :
                               a \in {j \in DOMAIN kernels : kernels[j].encoder = kernels[i].encoder}}
      BY <1>5, <2>6 DEF Kept
    <3>2. UNION {kernels[a].signals :
                   a \in {j \in DOMAIN kernels : kernels[j].encoder = kernels[i].encoder}}
            \subseteq UNION {kernels'[a].signals :
                   a \in {j \in DOMAIN kernels' : kernels'[j].encoder = kernels'[i].encoder}}
      BY <2>4, <2>6
    <3>3. kernels'[i] = kernels[i]
      BY <2>4, <2>6
    <3> QED
      BY <1>4, <2>5, <3>1, <3>2, <3>3
  <2>7. CASE i = u
    BY <1>4, <1>11, <2>4, <2>7
  <2> QED
    BY <2>4, <2>6, <2>7
<1> QED
  BY <1>4, <1>5, <1>6, <1>12, <1>14, <1>15 DEF MetalOrder

\* The oldest command buffer ends, with its encoders and their kernels.
LEMMA CompleteKeeps ==
  ASSUME MetalOrder, MetalStream!Complete
  PROVE  MetalOrder'
<1>1. PICK done : done = Head(flying).encoders
  OBVIOUS
<1>2. PICK w, v : /\ w = stream.waits
                  /\ v = [x \in DOMAIN w \ done |-> w[x] \ done]
  BY ZenonT(60)
<1>3. /\ flying # <<>> /\ flying' = Tail(flying) /\ live' = live
      /\ handlers' = handlers \o Head(flying).handlers
      /\ stream' = [stream EXCEPT !.waits = v]
      /\ kernels' = [n \in {m \in DOMAIN kernels : kernels[m].encoder \notin done} |-> kernels[n]]
  <2>1. /\ flying # <<>> /\ flying' = Tail(flying) /\ live' = live
        /\ handlers' = handlers \o Head(flying).handlers
        /\ stream' = [stream EXCEPT !.waits = [x \in DOMAIN stream.waits \ done |-> @[x] \ done]]
        /\ kernels' = [n \in {m \in DOMAIN kernels : kernels[m].encoder \notin done} |-> kernels[n]]
    BY <1>1, SMTT(30) DEF MetalStream!Complete
  <2> QED
    BY <1>2, <2>1
<1>4. /\ Coded(stream, kernels, 0, live, {}) /\ Booked(stream, flying, handlers)
      /\ Kept(stream, flying, kernels, live, {}) /\ live \subseteq Buffers
  BY DEF MetalOrder
<1>5. /\ MetalTypes(stream, kernels) /\ Homes(stream, kernels)
      /\ Current(stream.encoder, kernels, 0) /\ Tracked(stream, kernels, live)
      /\ Sequenced(stream, kernels, {})
  BY <1>4 DEF Coded
<1>6. PICK n \in Nat \ {0} : /\ DOMAIN flying = 1 .. n /\ flying[1] = Head(flying)
                             /\ flying \in Seq(CommandBuffer)
                             /\ flying' \in Seq(CommandBuffer)
                             /\ DOMAIN flying' = 1 .. n - 1
                             /\ \A c \in 1 .. n - 1 : flying'[c] = flying[c + 1]
  <2>1. flying \in Seq(CommandBuffer) /\ flying # <<>> /\ flying' = Tail(flying)
    BY <1>3, <1>4 DEF Booked
  <2>2. Len(flying) \in Nat \ {0} /\ DOMAIN flying = 1 .. Len(flying) /\ flying[1] = Head(flying)
        /\ flying' \in Seq(CommandBuffer) /\ Len(flying') = Len(flying) - 1
        /\ DOMAIN flying' = 1 .. Len(flying')
        /\ \A c \in 1 .. Len(flying) - 1 : flying'[c] = flying[c + 1]
    BY <2>1
  <2> QED
    BY <2>1, <2>2, ZenonT(20)
<1>7. /\ 1 \in DOMAIN flying /\ done = flying[1].encoders /\ done \subseteq DOMAIN w
      /\ \A x \in done : w[x] \subseteq done
  <2>1. 1 \in DOMAIN flying /\ done = flying[1].encoders
    BY <1>1, <1>6
  <2>2. \A x \in done : w[x] \subseteq UNION {flying[d].encoders : d \in 1 .. 1}
    BY <1>2, <1>4, <2>1 DEF Booked
  <2>3. UNION {flying[d].encoders : d \in 1 .. 1} = done
    BY <2>1
  <2> QED
    BY <1>2, <1>4, <2>1, <2>2, <2>3 DEF Booked
<1>8. Predecessors(w)
  BY <1>2, <1>5 DEF MetalTypes, Predecessors
<1>9. /\ Predecessors(v) /\ DOMAIN v = DOMAIN w \ done
      /\ \A x \in DOMAIN w \ done : v[x] = w[x] \ done
      /\ \A x \in DOMAIN w : \A f \in Reaching(w, x) \ done : x \notin done /\ f \in Reaching(v, x)
  <2>1. \A x \in done \cap DOMAIN w : w[x] \subseteq done
    BY <1>7
  <2> QED
    BY <1>2, <1>8, <2>1, ReachingDrop
<1>10. /\ stream'.encoder = stream.encoder /\ stream'.temporaries = stream.temporaries
       /\ stream'.outputs = stream.outputs /\ stream'.handlers = stream.handlers
       /\ stream'.encoders = stream.encoders /\ stream'.waits = v
       /\ stream'.issued = stream.issued
       /\ stream' = [encoder |-> stream'.encoder, temporaries |-> stream'.temporaries,
                     outputs |-> stream'.outputs, handlers |-> stream'.handlers,
                     encoders |-> stream'.encoders, waits |-> stream'.waits,
                     issued |-> stream'.issued]
  BY ONLY <1>3, <1>5 DEF MetalTypes
<1>11. /\ DOMAIN kernels' \subseteq DOMAIN kernels
       /\ \A i \in DOMAIN kernels' : kernels'[i] = kernels[i] /\ kernels[i].encoder \notin done
       /\ \A i \in DOMAIN kernels : kernels[i].encoder \notin done => i \in DOMAIN kernels'
       /\ kernels' = [i \in DOMAIN kernels' |-> kernels'[i]]
  BY <1>3
<1>12. MetalTypes(stream', kernels')
  <2>1. IsFiniteSet(DOMAIN v) /\ DOMAIN v \subseteq Nat \ {0}
    BY <1>2, <1>5, <1>9, FS_Subset DEF MetalTypes
  <2>2. v \in [DOMAIN v -> SUBSET DOMAIN v]
    BY <1>9 DEF Predecessors
  <2>3. DOMAIN kernels' \subseteq 1 .. stream'.issued /\ stream'.issued \in Nat
    BY <1>5, <1>10, <1>11 DEF MetalTypes
  <2>4. kernels' \in [DOMAIN kernels' -> MetalKernel]
    BY <1>5, <1>11 DEF MetalTypes
  <2>5. /\ stream'.encoder \in MetalEncoder /\ stream'.temporaries \subseteq Buffers
        /\ stream'.outputs \in [Buffers -> Nat] /\ stream'.handlers \in Seq(MetalHandler)
    BY <1>5, <1>10 DEF MetalTypes
  <2> QED
    BY ONLY <1>10, <2>1, <2>2, <2>3, <2>4, <2>5 DEF MetalTypes
<1>13. Homes(stream', kernels')
  BY <1>2, <1>5, <1>9, <1>10, <1>11 DEF Homes
<1>14. Current(stream'.encoder, kernels', 0)
  <2>1. stream.encoder.id \notin done
    BY <1>2, <1>5, <1>7 DEF Homes
  <2> QED
    BY <1>5, <1>10, <1>11, <2>1 DEF Current
<1>15. Tracked(stream', kernels', live)
  <2>1. ASSUME NEW i \in DOMAIN kernels', kernels'[i].encoder \in DOMAIN v,
               NEW b \in Changed(kernels'[i]) \cap live
        PROVE  stream.outputs[b] \in DOMAIN v /\ kernels'[i].encoder \in Reaching(v, stream.outputs[b])
    <3>1. stream.outputs[b] \in DOMAIN w /\ kernels[i].encoder \in Reaching(w, stream.outputs[b])
      BY <1>2, <1>5, <1>9, <1>11, <2>1 DEF Tracked
    <3> QED
      BY <1>9, <1>11, <3>1
  <2> QED
    BY <1>5, <1>10, <2>1 DEF Tracked
<1>16. ASSUME NEW x \in DOMAIN v, NEW B, WillWait(stream, x, B, {}) PROVE WillWait(stream', x, B, {})
  <2>1. PICK b \in (B \cap stream.encoder.inputs) \ stream.temporaries :
          stream.outputs[b] \in DOMAIN w /\ x \in Reaching(w, stream.outputs[b])
    BY <1>2, <1>16 DEF WillWait
  <2>2. stream.outputs[b] \in DOMAIN v /\ x \in Reaching(v, stream.outputs[b])
    BY <1>9, <2>1
  <2> QED
    BY <1>10, <2>1, <2>2 DEF WillWait
<1>17. Sequenced(stream', kernels', {})
  <2> SUFFICES ASSUME NEW i \in DOMAIN kernels', NEW j \in DOMAIN kernels', i < j,
                      MetalStream!Conflict(kernels'[i], kernels'[j]),
                      NEW f, NEW g, f = kernels'[i].encoder, g = kernels'[j].encoder
               PROVE  /\ f = g => kernels'[i].phase < kernels'[j].phase
                      /\ f \in DOMAIN v /\ g = stream.encoder.id =>
                           WillWait(stream', f, kernels'[j].reads \cup kernels'[j].writes, {})
                      /\ f \in DOMAIN v /\ g \in DOMAIN v /\ f # g =>
                           \E x \in v[g] : f \in Reaching(v, x)
    BY <1>10 DEF Sequenced
  <2>1. i \in DOMAIN kernels /\ j \in DOMAIN kernels /\ kernels'[i] = kernels[i]
        /\ kernels'[j] = kernels[j] /\ f \notin done /\ g \notin done
    BY <1>11
  <2>2. /\ f = g => kernels[i].phase < kernels[j].phase
        /\ f \in DOMAIN w /\ g = stream.encoder.id =>
             WillWait(stream, f, kernels[j].reads \cup kernels[j].writes, {})
        /\ f \in DOMAIN w /\ g \in DOMAIN w /\ f # g =>
             \E x \in w[g] : f \in Reaching(w, x)
    BY <1>2, <1>5, <2>1 DEF Sequenced
  <2>3. ASSUME f \in DOMAIN v, g \in DOMAIN v, f # g PROVE \E x \in v[g] : f \in Reaching(v, x)
    <3>1. PICK x \in w[g] : f \in Reaching(w, x)
      BY <1>9, <2>2, <2>3
    <3>2. x \in DOMAIN w
      BY <1>8, <1>9, <2>3 DEF Predecessors
    <3> QED
      BY <1>9, <2>1, <2>3, <3>1, <3>2
  <2> QED
    BY <1>9, <1>16, <2>1, <2>2, <2>3
<1>18. Coded(stream', kernels', 0, live', {})
  BY <1>3, <1>12, <1>13, <1>14, <1>15, <1>17 DEF Coded
<1>19. Booked(stream', flying', handlers')
  <2>1. ASSUME NEW c \in DOMAIN flying'
        PROVE  c + 1 \in DOMAIN flying /\ c + 1 # 1 /\ flying'[c] = flying[c + 1] /\ c \in Nat
    BY <1>6
  <2>2. \A c \in DOMAIN flying : c # 1 => c - 1 \in DOMAIN flying' /\ flying[c] = flying'[c - 1]
    BY <1>6
  <2>3. \A c \in DOMAIN flying : c # 1 => flying[c].encoders \cap done = {}
    BY <1>4, <1>7 DEF Booked
  <2>4. DOMAIN v = stream.encoders \cup UNION {flying'[c].encoders : c \in DOMAIN flying'}
    <3>1. DOMAIN w = stream.encoders \cup UNION {flying[c].encoders : c \in DOMAIN flying}
      BY <1>2, <1>4 DEF Booked
    <3>2. stream.encoders \cap done = {}
      BY <1>4, <1>7 DEF Booked
    <3>3. ASSUME NEW y \in DOMAIN v
          PROVE  y \in stream.encoders \cup UNION {flying'[c].encoders : c \in DOMAIN flying'}
      <4>1. y \in DOMAIN w /\ y \notin done
        BY <1>9
      <4>2. CASE y \notin stream.encoders
        <5>1. PICK c \in DOMAIN flying : y \in flying[c].encoders
          BY <3>1, <4>1, <4>2
        <5>2. c # 1
          BY <1>7, <4>1, <5>1
        <5> QED
          BY <2>2, <5>1, <5>2
      <4> QED
        BY <4>2
    <3>4. ASSUME NEW c \in DOMAIN flying', NEW y \in flying'[c].encoders PROVE y \in DOMAIN v
      BY <1>9, <2>1, <2>3, <3>1
    <3> QED
      BY <1>9, <3>1, <3>2, <3>3, <3>4
  <2>5. ASSUME NEW c \in DOMAIN flying'
        PROVE  /\ flying'[c].encoders \cap stream.encoders = {}
               /\ \A d \in DOMAIN flying' : c # d => flying'[c].encoders \cap flying'[d].encoders = {}
               /\ \A x \in flying'[c].encoders : v[x] \subseteq UNION {flying'[d].encoders : d \in 1 .. c}
               /\ \A m \in DOMAIN flying'[c].handlers :
                    flying'[c].handlers[m].fence \in flying'[c].encoders \cup {0}
    <3>1. /\ flying[c + 1].encoders \cap stream.encoders = {}
          /\ \A d \in DOMAIN flying : c + 1 # d => flying[c + 1].encoders \cap flying[d].encoders = {}
          /\ \A x \in flying[c + 1].encoders : w[x] \subseteq UNION {flying[d].encoders : d \in 1 .. c + 1}
          /\ \A m \in DOMAIN flying[c + 1].handlers :
               flying[c + 1].handlers[m].fence \in flying[c + 1].encoders \cup {0}
      BY <1>2, <1>4, <2>1 DEF Booked
    <3>2. \A d \in DOMAIN flying' : c # d => c + 1 # d + 1
      BY <1>6
    <3>3. ASSUME NEW x \in flying'[c].encoders
          PROVE  v[x] \subseteq UNION {flying'[d].encoders : d \in 1 .. c}
      <4>1. x \in DOMAIN w \ done
        BY <1>9, <2>4
      <4>2. v[x] = w[x] \ done /\ w[x] \subseteq UNION {flying[d].encoders : d \in 1 .. c + 1}
        BY <1>9, <2>1, <3>1, <4>1
      <4>3. ASSUME NEW y \in v[x] PROVE \E d \in 1 .. c : y \in flying'[d].encoders
        <5>1. PICK d \in 1 .. c + 1 : y \in flying[d].encoders /\ y \notin done
          BY <4>2
        <5>2. d # 1
          BY <1>7, <5>1
        <5>3. d - 1 \in 1 .. c /\ d \in DOMAIN flying
          BY <1>6, <2>1, <5>2
        <5> QED
          BY <2>2, <5>1, <5>2, <5>3
      <4> QED
        BY <4>3
    <3> QED
      BY <2>1, <3>1, <3>2, <3>3
  <2>6. Head(flying) \in CommandBuffer
    BY <1>6, <1>7
  <2>7. PICK hs : hs = Head(flying).handlers
    OBVIOUS
  <2>8. hs \in Seq(MetalHandler) /\ handlers \in Seq(MetalHandler) /\ handlers' = handlers \o hs
    BY <1>3, <1>4, <2>6, <2>7 DEF CommandBuffer, Booked
  <2>9. \A m \in DOMAIN hs : hs[m].fence \in done \cup {0}
    BY <1>4, <1>6, <1>7, <2>7 DEF Booked
  <2>10. \A m \in DOMAIN handlers :
           handlers[m].fence \notin DOMAIN w /\ (handlers[m].fence # 0 => handlers[m].fence # stream.encoder.id)
    BY <1>2, <1>4 DEF Booked
  <2>11. 0 \notin DOMAIN w /\ stream.encoder.id \notin DOMAIN w
    BY <1>2, <1>5 DEF MetalTypes, Homes
  <2>12. \A m \in DOMAIN handlers' :
           \/ m \in DOMAIN handlers /\ handlers'[m] = handlers[m]
           \/ \E d \in DOMAIN hs : handlers'[m] = hs[d]
    <3> TAKE m \in DOMAIN handlers'
    <3>1. Len(handlers') = Len(handlers) + Len(hs) /\ m \in 1 .. Len(handlers')
          /\ Len(handlers) \in Nat /\ Len(hs) \in Nat
      BY <2>8
    <3>2. CASE m <= Len(handlers)
      BY <2>8, <3>1, <3>2
    <3>3. CASE ~(m <= Len(handlers))
      <4>1. m - Len(handlers) \in 1 .. Len(hs)
        BY <3>1, <3>3
      <4>2. handlers'[m] = hs[m - Len(handlers)]
        BY <2>8, <3>1, <3>3
      <4> QED
        BY <2>8, <4>1, <4>2
    <3> QED
      BY <3>2, <3>3
  <2>13. \A m \in DOMAIN handlers' :
           /\ handlers'[m].fence \notin DOMAIN v
           /\ handlers'[m].fence # 0 => handlers'[m].fence # stream.encoder.id
    BY <1>7, <1>9, <2>9, <2>10, <2>11, <2>12
  <2>14. handlers' \in Seq(MetalHandler)
    BY <2>8
  <2>15. \A m \in DOMAIN stream.handlers : stream.handlers[m].fence \in stream.encoders \cup {0}
    BY <1>4 DEF Booked
  <2> QED
    BY <1>6, <1>10, <2>4, <2>5, <2>13, <2>14, <2>15 DEF Booked
<1>20. Kept(stream', flying', kernels', live', {})
  <2>1. ASSUME NEW x, x \notin done
        PROVE  HeldBehind(stream', flying', x) = HeldBehind(stream, flying, x)
    <3>1. PICK C, D : /\ C = {d \in DOMAIN flying : \E a \in 1 .. d : x \in flying[a].encoders}
                      /\ D = {d \in DOMAIN flying' : \E a \in 1 .. d : x \in flying'[a].encoders}
      OBVIOUS
    <3>2. ASSUME NEW d \in C PROVE d - 1 \in D /\ flying[d] = flying'[d - 1]
      <4>1. PICK a \in 1 .. d : x \in flying[a].encoders /\ d \in 1 .. n
        BY <1>6, <3>1
      <4>2. a # 1
        BY <1>7, <2>1, <4>1
      <4>3. a - 1 \in 1 .. d - 1 /\ d - 1 \in 1 .. n - 1 /\ a - 1 \in 1 .. n - 1
        BY <4>1, <4>2
      <4>4. flying'[a - 1] = flying[a] /\ flying'[d - 1] = flying[d]
        BY <1>6, <4>1, <4>3
      <4> QED
        BY <1>6, <3>1, <4>1, <4>3, <4>4
    <3>3. ASSUME NEW d \in D PROVE d + 1 \in C /\ flying[d + 1] = flying'[d]
      <4>1. PICK a \in 1 .. d : x \in flying'[a].encoders /\ d \in 1 .. n - 1
        BY <1>6, <3>1
      <4>2. a + 1 \in 1 .. d + 1 /\ d + 1 \in 1 .. n /\ a \in 1 .. n - 1
        BY <4>1
      <4>3. flying'[a] = flying[a + 1] /\ flying'[d] = flying[d + 1]
        BY <1>6, <4>1, <4>2
      <4> QED
        BY <1>6, <3>1, <4>1, <4>2, <4>3
    <3>4. PICK F, G : /\ F = {MetalStream!Frees(flying[c].handlers) : c \in C}
                      /\ G = {MetalStream!Frees(flying'[c].handlers) : c \in D}
      OBVIOUS
    <3>5. F = G
      <4>1. ASSUME NEW y \in F PROVE y \in G
        BY <3>2, <3>4
      <4>2. ASSUME NEW y \in G PROVE y \in F
        BY <3>3, <3>4
      <4> QED
        BY <4>1, <4>2
    <3>6. /\ HeldBehind(stream, flying, x) =
               stream.temporaries \cup MetalStream!Frees(stream.handlers) \cup UNION F
          /\ HeldBehind(stream', flying', x) =
               stream'.temporaries \cup MetalStream!Frees(stream'.handlers) \cup UNION G
      BY <3>1, <3>4 DEF HeldBehind
    <3> QED
      BY <1>10, <3>5, <3>6
  <2> SUFFICES \A m \in DOMAIN kernels' :
                 /\ Touched(kernels'[m]) \subseteq
                      live' \cup HeldBehind(stream', flying', kernels'[m].encoder)
                 /\ kernels'[m].reads \subseteq
                      {} \cup HeldBehind(stream', flying', kernels'[m].encoder)
                        \cup kernels'[m].writes
                        \cup UNION {kernels'[i].signals : i \in
                               {j \in DOMAIN kernels' : kernels'[j].encoder = kernels'[m].encoder}}
    BY DEF Kept
  <2> TAKE i \in DOMAIN kernels'
  <2>2. /\ i \in DOMAIN kernels /\ kernels'[i] = kernels[i] /\ kernels[i].encoder \notin done
    BY <1>11
  <2>3. /\ Touched(kernels[i]) \subseteq live \cup HeldBehind(stream, flying, kernels[i].encoder)
        /\ kernels[i].reads \subseteq
             {} \cup HeldBehind(stream, flying, kernels[i].encoder) \cup kernels[i].writes
               \cup UNION {kernels[a].signals :
                             a \in {j \in DOMAIN kernels : kernels[j].encoder = kernels[i].encoder}}
    BY <1>4, <2>2 DEF Kept
  <2>4. UNION {kernels[a].signals :
                 a \in {j \in DOMAIN kernels : kernels[j].encoder = kernels[i].encoder}}
          \subseteq UNION {kernels'[a].signals :
                 a \in {j \in DOMAIN kernels' : kernels'[j].encoder = kernels'[i].encoder}}
    BY <1>11, <2>2
  <2>5. HeldBehind(stream', flying', kernels[i].encoder) = HeldBehind(stream, flying, kernels[i].encoder)
    BY <2>1, <2>2
  <2>6. Touched(kernels'[i]) \subseteq
          live' \cup HeldBehind(stream', flying', kernels'[i].encoder)
    BY <1>3, <2>2, <2>3, <2>5
  <2>7. kernels'[i].reads \subseteq
          {} \cup HeldBehind(stream', flying', kernels'[i].encoder) \cup kernels'[i].writes
            \cup UNION {kernels'[a].signals :
                 a \in {j \in DOMAIN kernels' : kernels'[j].encoder = kernels'[i].encoder}}
    BY <2>2, <2>3, <2>4, <2>5
  <2> QED
    BY ONLY <2>6, <2>7
<1> QED
  BY <1>3, <1>4, <1>18, <1>19, <1>20 DEF MetalOrder

LEMMA MetalOrderIsOrdered ==
  ASSUME MetalOrder
  PROVE  MetalStream!Ordered
<1>1. /\ MetalTypes(stream, kernels) /\ Homes(stream, kernels) /\ Sequenced(stream, kernels, {})
  BY DEF MetalOrder, Coded
<1>2. Predecessors(stream.waits)
  BY <1>1 DEF MetalTypes, Predecessors
<1>3. ASSUME NEW i \in DOMAIN kernels, NEW j \in DOMAIN kernels,
             i < j, MetalStream!Conflict(kernels[i], kernels[j]),
             \/ kernels[i].encoder = kernels[j].encoder
             \/ kernels[j].encoder # stream.encoder.id
      PROVE  MetalStream!Before(kernels[i], kernels[j], MetalStream!Fenced)
  <2>1. PICK f, g : f = kernels[i].encoder /\ g = kernels[j].encoder
    OBVIOUS
  <2>2. CASE f = g
    BY <1>1, <1>3, <2>1, <2>2 DEF Sequenced, MetalStream!Before
  <2>3. CASE f # g
    <3>1. f \in DOMAIN stream.waits /\ g \in DOMAIN stream.waits
      BY <1>1, <1>3, <2>1, <2>3 DEF Homes
    <3>2. PICK x \in stream.waits[g] : f \in Reaching(stream.waits, x)
      BY <1>1, <1>3, <2>1, <2>3, <3>1 DEF Sequenced
    <3>3. Reaching(stream.waits, x) \subseteq MetalStream!Fenced[g]
      BY <1>2, <3>1, <3>2, FencedIs, ClosureReaches
    <3> QED
      BY <2>1, <3>2, <3>3 DEF MetalStream!Before
  <2> QED
    BY <2>2, <2>3
<1> QED
  BY <1>3 DEF MetalStream!Ordered

LEMMA MetalOrderInit ==
  ASSUME MetalStream!Init
  PROVE  MetalOrder
<1>1. /\ live = {CHOOSE b \in Buffers : TRUE}
      /\ stream = [encoder |-> MetalStream!NoEncoder, temporaries |-> {},
                   outputs |-> [b \in Buffers |-> 0], handlers |-> <<>>,
                   encoders |-> {}, waits |-> <<>>, issued |-> 0]
      /\ flying = <<>> /\ handlers = <<>>
      /\ kernels = [n \in {} |-> MetalStream!NoEncoder]
  BY DEF MetalStream!Init
<1>2. live \subseteq Buffers
  BY <1>1, DevicesAssumption
<1>3. DOMAIN kernels = {}
  BY <1>1
<1>4. /\ stream.encoder = MetalStream!NoEncoder /\ stream.temporaries = {}
      /\ stream.outputs = [b \in Buffers |-> 0] /\ stream.handlers = <<>>
      /\ stream.encoders = {} /\ stream.waits = <<>> /\ stream.issued = 0
  BY <1>1
<1>5. /\ MetalStream!NoEncoder \in MetalEncoder /\ MetalStream!NoEncoder.id = 0
      /\ MetalStream!NoEncoder.outputs = {}
  BY DEF MetalStream!NoEncoder, MetalEncoder
<1>6. DOMAIN stream.waits = {}
  BY <1>4
<1>7. MetalTypes(stream, kernels)
  <2>1. IsFiniteSet(DOMAIN stream.waits)
    BY <1>6, FS_EmptySet
  <2>2. stream.waits \in [DOMAIN stream.waits -> SUBSET DOMAIN stream.waits]
    BY <1>4, <1>6
  <2>3. kernels \in [DOMAIN kernels -> MetalKernel]
    BY <1>1
  <2>4. stream.outputs \in [Buffers -> Nat] /\ stream.handlers \in Seq(MetalHandler)
    BY <1>4
  <2>5. stream = [encoder |-> stream.encoder, temporaries |-> stream.temporaries,
                  outputs |-> stream.outputs, handlers |-> stream.handlers,
                  encoders |-> stream.encoders, waits |-> stream.waits,
                  issued |-> stream.issued]
    BY <1>1
  <2> QED
    BY <1>3, <1>4, <1>5, <1>6, <2>1, <2>2, <2>3, <2>4, <2>5 DEF MetalTypes
<1>8. Coded(stream, kernels, 0, live, {})
  BY <1>3, <1>4, <1>5, <1>6, <1>7 DEF Coded, Homes, Current, Tracked, Sequenced
<1>9. Booked(stream, flying, handlers)
  <2>1. flying \in Seq(CommandBuffer) /\ handlers \in Seq(MetalHandler)
        /\ DOMAIN flying = {} /\ DOMAIN handlers = {} /\ DOMAIN stream.handlers = {}
    BY <1>1, <1>4
  <2> QED
    BY <1>4, <1>6, <2>1 DEF Booked
<1>10. Kept(stream, flying, kernels, live, {})
  BY <1>3 DEF Kept
<1> QED
  BY <1>2, <1>8, <1>9, <1>10 DEF MetalOrder

LEMMA MetalOrderStep ==
  ASSUME MetalOrder, ~DonateIndices, MetalStream!Next
  PROVE  MetalOrder'
<1>0. live \subseteq Buffers
  BY DEF MetalOrder
<1>1. ASSUME NEW ins \in (SUBSET live) \ {{}}, NEW out \in Buffers,
             MetalStream!Compute(ins, out) \/ MetalStream!Concatenate(ins, out)
      PROVE  MetalOrder'
  <2>1. ins \in SUBSET live /\ ins # {}
    OBVIOUS
  <2> QED
    BY <1>1, <2>1, ComputeKeeps, ConcatenateKeeps
<1>2. ASSUME NEW x \in live, NEW others \in SUBSET live, NEW tmp \in Buffers, NEW out \in Buffers,
             x \notin others, MetalStream!ComputeOnCopy(x, others, tmp, out)
      PROVE  MetalOrder'
  BY <1>2, ComputeOnCopyKeeps
<1>3. ASSUME NEW x \in live, NEW indices \in live, NEW offset \in Buffers, NEW out \in Buffers,
             MetalStream!DynamicSlice(x, indices, offset, out)
      PROVE  MetalOrder'
  BY <1>3, DynamicSliceKeeps
<1>4. ASSUME NEW b \in Buffers,
             MetalStream!FenceWait(b) \/ MetalStream!FenceUpdate(b) \/ MetalStream!Synchronizer(b)
      PROVE  MetalOrder'
  BY <1>4, FenceWaitKeeps, FenceUpdateKeeps, SynchronizerKeeps
<1>5. ASSUME \/ MetalStream!EventWaitOrSignal \/ MetalStream!Finalize
             \/ MetalStream!Complete \/ MetalStream!Handler
      PROVE  MetalOrder'
  BY <1>5, EventWaitOrSignalKeeps, FinalizeKeeps, CompleteKeeps, HandlerKeeps
<1> QED
  BY <1>1, <1>2, <1>3, <1>4, <1>5 DEF MetalStream!Next

-----------------------------------------------------------------------------
(* The graph of a CUDA stream *)

GraphNode == [reads : SUBSET Buffers, writes : SUBSET Buffers]

\* One of the two writes what the other uses.
Clash(k, l) == (k.writes \cap (l.reads \cup l.writes)) \cup (k.reads \cap l.writes) # {}

\* The nodes a node has an edge from.
Preds(g) == [j \in DOMAIN g.nodes |-> {e[1] : e \in {f \in g.edges : f[2] = j}}]

\* Nodes, the ones before each and the writers of buffers: from who wrote a
\* buffer there is a path to the node that stands for it.
GraphSound(nodes, w, wr) ==
  /\ nodes \in Seq(GraphNode)
  /\ DOMAIN w = DOMAIN nodes /\ Predecessors(w)
  /\ wr \in [Buffers -> {0} \cup DOMAIN nodes]
  /\ \A n \in DOMAIN nodes : \A b \in nodes[n].writes : wr[b] # 0 /\ n \in Reaching(w, wr[b])
  /\ \A i, j \in DOMAIN nodes :
       i < j /\ Clash(nodes[i], nodes[j]) => \E y \in w[j] : i \in Reaching(w, y)

GraphOrder(g) ==
  /\ g.edges \subseteq (DOMAIN g.nodes) \X (DOMAIN g.nodes)
  /\ GraphSound(g.nodes, Preds(g), g.writer)

\* Node k is added behind the nodes of S and stands for P.
GraphAddition(nodes, w, wr, k, S, P, m, more, v, wv) ==
  /\ GraphSound(nodes, w, wr) /\ k \in GraphNode
  /\ S \in SUBSET DOMAIN w /\ P \in SUBSET Buffers
  /\ k.writes \subseteq P /\ \A b \in k.reads \cup P : wr[b] \in S \cup {0}
  /\ \A n \in DOMAIN nodes : nodes[n].reads \cap k.writes \subseteq nodes[n].writes
  /\ m = Len(nodes) + 1 /\ more = Append(nodes, k)
  /\ v = [x \in DOMAIN w \cup {m} |-> IF x = m THEN S ELSE w[x]]
  /\ wv = [b \in Buffers |-> IF b \in P THEN m ELSE wr[b]]

\* Node k is added behind the nodes of S, those that stand for what it uses,
\* and stands for P.
LEMMA GraphGrows ==
  ASSUME NEW nodes, NEW w, NEW wr, NEW k, NEW S, NEW P, NEW m, NEW more, NEW v, NEW wv,
         GraphAddition(nodes, w, wr, k, S, P, m, more, v, wv)
  PROVE  GraphSound(more, v, wv)
<1>0. /\ GraphSound(nodes, w, wr) /\ k \in GraphNode
      /\ S \in SUBSET DOMAIN w /\ P \in SUBSET Buffers
      /\ k.writes \subseteq P /\ \A b \in k.reads \cup P : wr[b] \in S \cup {0}
      /\ \A n \in DOMAIN nodes : nodes[n].reads \cap k.writes \subseteq nodes[n].writes
      /\ m = Len(nodes) + 1 /\ more = Append(nodes, k)
      /\ v = [x \in DOMAIN w \cup {m} |-> IF x = m THEN S ELSE w[x]]
      /\ wv = [b \in Buffers |-> IF b \in P THEN m ELSE wr[b]]
  BY DEF GraphAddition
<1> USE <1>0
<1>1. /\ nodes \in Seq(GraphNode) /\ DOMAIN w = DOMAIN nodes /\ Predecessors(w)
      /\ wr \in [Buffers -> {0} \cup DOMAIN nodes]
      /\ \A n \in DOMAIN nodes : \A b \in nodes[n].writes : wr[b] # 0 /\ n \in Reaching(w, wr[b])
      /\ \A i, j \in DOMAIN nodes :
           i < j /\ Clash(nodes[i], nodes[j]) => \E y \in w[j] : i \in Reaching(w, y)
  BY DEF GraphSound
<1>2. /\ m \in Nat \ {0} /\ m \notin DOMAIN nodes /\ more \in Seq(GraphNode)
      /\ DOMAIN more = DOMAIN nodes \cup {m} /\ more[m] = k
      /\ \A n \in DOMAIN nodes : more[n] = nodes[n] /\ n < m /\ n \in Nat
  BY <1>1
<1>3. /\ Predecessors(v) /\ DOMAIN v = DOMAIN w \cup {m} /\ v[m] = S
      /\ \A x \in DOMAIN w : v[x] = w[x] /\ Reaching(w, x) \subseteq Reaching(v, x)
      /\ \A y \in S : Reaching(w, y) \subseteq Reaching(v, m)
      /\ m \in Reaching(v, m)
  <2>1. m \notin DOMAIN w
    BY <1>1, <1>2
  <2>2. S \in SUBSET DOMAIN w /\ Predecessors(w)
        /\ v = [x \in DOMAIN w \cup {m} |-> IF x = m THEN S ELSE w[x]]
    BY <1>1 DEF GraphAddition
  <2> QED
    BY ONLY <2>1, <2>2, ReachingAdd
<1>4. wv \in [Buffers -> {0} \cup DOMAIN more]
  BY <1>1, <1>2
<1>5. k.reads \subseteq Buffers /\ k.writes \subseteq Buffers
  BY DEF GraphNode
<1>6. ASSUME NEW n \in DOMAIN more, NEW b \in more[n].writes
      PROVE  wv[b] # 0 /\ n \in Reaching(v, wv[b])
  <2>1. CASE n = m
    BY <1>2, <1>3, <1>5, <2>1
  <2>2. CASE n # m
    <3>1. n \in DOMAIN nodes /\ b \in nodes[n].writes /\ wr[b] # 0 /\ n \in Reaching(w, wr[b])
          /\ b \in Buffers /\ wr[b] \in DOMAIN w
      <4>1. n \in DOMAIN nodes /\ b \in nodes[n].writes
        BY <1>2, <2>2
      <4>2. nodes[n] \in GraphNode
        BY <1>1, <4>1
      <4>3. b \in Buffers
        BY <4>1, <4>2 DEF GraphNode
      <4> QED
        BY <1>1, <4>1, <4>3
    <3>2. CASE b \in P
      <4>1. wv[b] = m /\ wr[b] \in S
        BY <3>1, <3>2
      <4> QED
        BY <1>2, <1>3, <3>1, <4>1
    <3>3. CASE b \notin P
      <4>1. wv[b] = wr[b]
        BY <3>1, <3>3
      <4> QED
        BY <1>3, <3>1, <4>1
    <3> QED
      BY <3>2, <3>3
  <2> QED
    BY <2>1, <2>2
<1>7. ASSUME NEW i \in DOMAIN more, NEW j \in DOMAIN more, i < j, Clash(more[i], more[j])
      PROVE  \E y \in v[j] : i \in Reaching(v, y)
  <2>1. i \in DOMAIN nodes /\ more[i] = nodes[i]
    BY <1>1, <1>2, <1>7
  <2>2. CASE j = m
    <3>1. PICK b : /\ b \in more[i].writes \/ b \in more[i].reads \cap k.writes
                   /\ b \in k.reads \cup k.writes
      BY <1>2, <1>7, <2>2 DEF Clash
    <3>2. b \in nodes[i].writes
      BY <2>1, <3>1
    <3>3. wr[b] # 0 /\ i \in Reaching(w, wr[b])
      BY <1>1, <2>1, <3>2
    <3>4. wr[b] \in S
      BY <3>1, <3>3
    <3> QED
      BY <1>3, <2>2, <3>3, <3>4
  <2>3. CASE j # m
    <3>1. j \in DOMAIN nodes /\ more[j] = nodes[j]
      BY <1>2, <2>3
    <3>2. PICK y \in w[j] : i \in Reaching(w, y)
      BY <1>1, <1>7, <2>1, <3>1
    <3>3. y \in DOMAIN w
      BY <1>1, <3>1, <3>2 DEF Predecessors
    <3> QED
      BY <1>1, <1>3, <3>1, <3>2, <3>3
  <2> QED
    BY <2>2, <2>3
<1> QED
  BY <1>2, <1>3, <1>4, <1>6, <1>7, <1>1, ZenonT(60) DEF GraphSound

\* What a kernel may be to be added: it writes over what others read only
\* where they write as well.
MayAdd(g, k) ==
  /\ k \in GraphNode
  /\ \A n \in DOMAIN g.nodes : g.nodes[n].reads \cap k.writes \subseteq g.nodes[n].writes

Added(g, k, h) ==
  /\ GraphOrder(h) /\ h.nodes = Append(g.nodes, k)
  /\ h.writer = CudaStream!SetWriter(g, k.writes, Len(g.nodes) + 1)

LEMMA AddNodeKeeps ==
  ASSUME NEW g, GraphOrder(g), NEW k, MayAdd(g, k), NEW h, h = CudaStream!AddNode(g, k)
  PROVE  Added(g, k, h)
<1>1. /\ g.edges \subseteq (DOMAIN g.nodes) \X (DOMAIN g.nodes)
      /\ GraphSound(g.nodes, Preds(g), g.writer)
  BY DEF GraphOrder
<1>2. PICK m, S, w, wr : /\ m = Len(g.nodes) + 1 /\ w = Preds(g) /\ wr = g.writer
                         /\ S = CudaStream!Deps(g, k.reads \cup k.writes)
  OBVIOUS
<1>3. /\ h.nodes = Append(g.nodes, k) /\ h.edges = g.edges \cup (S \X {m})
      /\ h.writer = CudaStream!SetWriter(g, k.writes, m)
  BY <1>2 DEF CudaStream!AddNode
<1>4. /\ g.nodes \in Seq(GraphNode) /\ DOMAIN w = DOMAIN g.nodes
      /\ wr \in [Buffers -> {0} \cup DOMAIN g.nodes]
      /\ k \in GraphNode /\ k.reads \subseteq Buffers /\ k.writes \subseteq Buffers
  BY <1>1, <1>2 DEF GraphSound, MayAdd, GraphNode
<1>5. S \subseteq DOMAIN g.nodes /\ \A b \in k.reads \cup k.writes : wr[b] \in S \cup {0}
  BY <1>2, <1>4 DEF CudaStream!Deps
<1>6. DOMAIN h.nodes = DOMAIN g.nodes \cup {m} /\ m \notin DOMAIN g.nodes
  BY <1>2, <1>3, <1>4
<1>7. h.edges \subseteq (DOMAIN h.nodes) \X (DOMAIN h.nodes)
  BY <1>1, <1>3, <1>5, <1>6
<1>8. PICK v : v = [x \in DOMAIN w \cup {m} |-> IF x = m THEN S ELSE w[x]]
  OBVIOUS
<1>9. Preds(h) = v
  <2>1. ASSUME NEW x \in DOMAIN h.nodes
        PROVE  {e[1] : e \in {f \in h.edges : f[2] = x}} = v[x]
    <3>1. CASE x = m
      <4>1. \A f \in g.edges : f[2] # m
        BY <1>1, <1>6
      <4>2. \A a \in S : <<a, m>> \in h.edges
        BY <1>3
      <4>3. \A f \in h.edges : f[2] = m => f[1] \in S
        BY <1>3, <4>1
      <4>4. v[x] = S
        BY <1>8, <3>1
      <4>5. \A a \in S : \E e \in {f \in h.edges : f[2] = x} : a = e[1]
        <5> TAKE a \in S
        <5>1. <<a, m>>[1] = a /\ <<a, m>>[2] = x
          BY <3>1
        <5> QED
          BY <4>2, <5>1
      <4> QED
        BY <3>1, <4>3, <4>4, <4>5
    <3>2. CASE x # m
      <4>1. \A f \in S \X {m} : f[2] # x
        BY <3>2
      <4>2. {f \in h.edges : f[2] = x} = {f \in g.edges : f[2] = x}
        BY <1>3, <4>1
      <4>3. v[x] = w[x] /\ x \in DOMAIN g.nodes
        BY <1>4, <1>6, <1>8, <3>2
      <4>4. w[x] = {e[1] : e \in {f \in g.edges : f[2] = x}}
        BY <1>2, <4>3 DEF Preds
      <4> QED
        BY <4>2, <4>3, <4>4
    <3> QED
      BY <3>1, <3>2
  <2>2. DOMAIN v = DOMAIN h.nodes
    BY <1>4, <1>6, <1>8
  <2>3. v = [x \in DOMAIN h.nodes |-> v[x]]
    BY <1>8, <2>2
  <2> QED
    BY <2>1, <2>3 DEF Preds
<1>10. GraphSound(h.nodes, v, h.writer)
  <2>1. h.writer = [b \in Buffers |-> IF b \in k.writes THEN m ELSE wr[b]]
    BY <1>2, <1>3 DEF CudaStream!SetWriter
  <2>2. GraphSound(g.nodes, w, wr) /\ S \in SUBSET DOMAIN w /\ k.writes \in SUBSET Buffers
        /\ k.writes \subseteq k.writes
        /\ \A n \in DOMAIN g.nodes : g.nodes[n].reads \cap k.writes \subseteq g.nodes[n].writes
    BY <1>1, <1>2, <1>4, <1>5 DEF MayAdd
  <2>3. PICK P : P = k.writes
    OBVIOUS
  <2>4. /\ GraphSound(g.nodes, w, wr) /\ k \in GraphNode /\ S \in SUBSET DOMAIN w
        /\ P \in SUBSET Buffers /\ k.writes \subseteq P
        /\ \A b \in k.reads \cup P : wr[b] \in S \cup {0}
        /\ \A n \in DOMAIN g.nodes : g.nodes[n].reads \cap k.writes \subseteq g.nodes[n].writes
        /\ m = Len(g.nodes) + 1 /\ h.nodes = Append(g.nodes, k)
        /\ v = [x \in DOMAIN w \cup {m} |-> IF x = m THEN S ELSE w[x]]
        /\ h.writer = [b \in Buffers |-> IF b \in P THEN m ELSE wr[b]]
    BY <1>2, <1>3, <1>4, <1>5, <1>8, <2>1, <2>2, <2>3
  <2>5. GraphAddition(g.nodes, w, wr, k, S, P, m, h.nodes, v, h.writer)
    BY <2>4 DEF GraphAddition
  <2> QED
    BY ONLY <2>5, GraphGrows
<1> QED
  BY <1>2, <1>3, <1>7, <1>9, <1>10 DEF GraphOrder, Added

\* A concurrent context: a node for its kernels and an empty one behind it.
LEMMA AddConcurrentKeeps ==
  ASSUME NEW g, GraphOrder(g), NEW k, MayAdd(g, k), NEW n,
         NEW h, h = CudaStream!AddConcurrent(g, k, n)
  PROVE  GraphOrder(h) /\ h.nodes = g.nodes \o <<k, [reads |-> {}, writes |-> {}]>>
<1>1. PICK g1 : g1 = CudaStream!AddNode(g, k)
  OBVIOUS
<1>2. Added(g, k, g1)
  BY <1>1, AddNodeKeeps
<1>3. PICK m, l : m = Len(g.nodes) + 1 /\ l = [reads |-> {}, writes |-> {}]
  OBVIOUS
<1>4. /\ g1.nodes = Append(g.nodes, k) /\ g1.writer = CudaStream!SetWriter(g, k.writes, m)
      /\ g1.edges \subseteq (DOMAIN g1.nodes) \X (DOMAIN g1.nodes)
      /\ GraphSound(g1.nodes, Preds(g1), g1.writer)
  BY <1>2, <1>3 DEF Added, GraphOrder
<1>5. g1.edges = g.edges \cup (CudaStream!Deps(g, k.reads \cup k.writes) \X {m})
  BY <1>1, <1>3 DEF CudaStream!AddNode
<1>6. /\ h.nodes = g.nodes \o <<k, l>> /\ h.edges = g1.edges \cup {<<m, m + 1>>}
      /\ h.writer = CudaStream!SetWriter(g, k.writes, m + 1)
  BY <1>3, <1>5 DEF CudaStream!AddConcurrent
<1>7. /\ g.nodes \in Seq(GraphNode) /\ k \in GraphNode /\ k.writes \subseteq Buffers
      /\ g.writer \in [Buffers -> {0} \cup DOMAIN g.nodes]
  BY DEF GraphOrder, GraphSound, MayAdd, GraphNode
<1>8. l \in GraphNode /\ l.reads = {} /\ l.writes = {}
  BY <1>3 DEF GraphNode
<1>9. h.nodes = Append(g1.nodes, l)
  <2>1. PICK T : T = GraphNode
    OBVIOUS
  <2>2. g.nodes \in Seq(T) /\ k \in T /\ l \in T
    BY <1>7, <1>8, <2>1
  <2>3. g.nodes \o <<k, l>> = Append(Append(g.nodes, k), l)
    BY ONLY <2>2
  <2> QED
    BY <1>4, <1>6, <2>3
<1>10. Len(g1.nodes) = m /\ m \in Nat \ {0} /\ DOMAIN g1.nodes = 1 .. m
  BY <1>3, <1>4, <1>7
<1>11. PICK w, v : /\ w = Preds(g1)
                   /\ v = [x \in DOMAIN w \cup {m + 1} |-> IF x = m + 1 THEN {m} ELSE w[x]]
  OBVIOUS
<1>12. DOMAIN w = 1 .. m /\ DOMAIN h.nodes = 1 .. m + 1
  BY <1>4, <1>8, <1>9, <1>10, <1>11 DEF GraphSound
<1>13. h.edges \subseteq (DOMAIN h.nodes) \X (DOMAIN h.nodes)
  BY <1>4, <1>6, <1>10, <1>12
<1>14. Preds(h) = v
  <2>1. ASSUME NEW x \in 1 .. m + 1
        PROVE  {e[1] : e \in {f \in h.edges : f[2] = x}} = v[x]
    <3>1. CASE x = m + 1
      <4>1. \A f \in g1.edges : f[2] # m + 1
        BY <1>4, <1>10
      <4>2. {f \in h.edges : f[2] = x} = {<<m, m + 1>>}
        BY <1>6, <3>1, <4>1
      <4>3. v[x] = {m} /\ <<m, m + 1>>[1] = m
        BY <1>11, <3>1
      <4> QED
        BY <4>2, <4>3
    <3>2. CASE x # m + 1
      <4>1. {f \in h.edges : f[2] = x} = {f \in g1.edges : f[2] = x}
        BY <1>6, <3>2
      <4>2. v[x] = w[x] /\ x \in DOMAIN g1.nodes
        BY <1>10, <1>11, <1>12, <3>2
      <4>3. w[x] = {e[1] : e \in {f \in g1.edges : f[2] = x}}
        BY <1>11, <4>2 DEF Preds
      <4> QED
        BY <4>1, <4>2, <4>3
    <3> QED
      BY <3>1, <3>2
  <2>2. DOMAIN v = 1 .. m + 1
    BY <1>10, <1>11, <1>12
  <2>3. v = [x \in 1 .. m + 1 |-> v[x]]
    BY <1>11, <2>2
  <2> QED
    BY <1>12, <2>1, <2>3 DEF Preds
<1>15. GraphSound(h.nodes, v, h.writer)
  <2>1. PICK wr : wr = g1.writer
    OBVIOUS
  <2>2. \A b \in Buffers : wr[b] = IF b \in k.writes THEN m ELSE g.writer[b]
    BY <1>4, <2>1 DEF CudaStream!SetWriter
  <2>3. h.writer = [b \in Buffers |-> IF b \in k.writes THEN m + 1 ELSE wr[b]]
    BY <1>6, <2>2 DEF CudaStream!SetWriter
  <2>4. \A b \in l.reads \cup k.writes : wr[b] \in {m} \cup {0}
    BY <1>7, <1>8, <2>2
  <2>5. PICK S : S = {m} /\ S \in SUBSET DOMAIN w
    <3>1. {m} \in SUBSET DOMAIN w
      BY <1>10, <1>12
    <3> QED
      BY <3>1
  <2>6. PICK P \in SUBSET Buffers : P = k.writes
    BY <1>7
  <2>7. /\ GraphSound(g1.nodes, w, wr) /\ l.writes \subseteq P
        /\ \A b \in l.reads \cup P : wr[b] \in S \cup {0}
        /\ \A i \in DOMAIN g1.nodes : g1.nodes[i].reads \cap l.writes \subseteq g1.nodes[i].writes
        /\ h.writer = [b \in Buffers |-> IF b \in P THEN m + 1 ELSE wr[b]]
        /\ v = [x \in DOMAIN w \cup {m + 1} |-> IF x = m + 1 THEN S ELSE w[x]]
    BY <1>4, <1>8, <1>11, <2>1, <2>3, <2>4, <2>5, <2>6
  <2>8. PICK m1 : m1 = m + 1 /\ m1 = Len(g1.nodes) + 1
    BY <1>10
  <2>9. /\ l \in GraphNode /\ h.nodes = Append(g1.nodes, l)
        /\ h.writer = [b \in Buffers |-> IF b \in P THEN m1 ELSE wr[b]]
        /\ v = [x \in DOMAIN w \cup {m1} |-> IF x = m1 THEN S ELSE w[x]]
        /\ S \in SUBSET DOMAIN w /\ P \in SUBSET Buffers
    BY <1>8, <1>9, <2>5, <2>6, <2>7, <2>8
  <2>10. GraphAddition(g1.nodes, w, wr, l, S, P, m1, h.nodes, v, h.writer)
    BY <2>7, <2>8, <2>9 DEF GraphAddition
  <2> QED
    BY ONLY <2>10, GraphGrows
<1> QED
  BY <1>3, <1>6, <1>13, <1>14, <1>15 DEF GraphOrder

\* The graph that is collected, and what keeps what its kernels only read.
CudaOrder ==
  /\ GraphOrder(graph)
  /\ graph.count = 0 => graph.nodes = <<>>
  /\ \A n \in DOMAIN graph.nodes :
       graph.nodes[n].reads \subseteq temporaries \cup graph.nodes[n].writes

LEMMA EmptyGraphOrder ==
  /\ GraphOrder(CudaStream!EmptyGraph) /\ CudaStream!EmptyGraph.nodes = <<>>
  /\ DOMAIN CudaStream!EmptyGraph.nodes = {}
<1>1. PICK g : g = CudaStream!EmptyGraph
  OBVIOUS
<1>2. g.nodes = <<>> /\ g.edges = {} /\ g.writer = [b \in Buffers |-> 0]
  BY <1>1 DEF CudaStream!EmptyGraph
<1>3. DOMAIN g.nodes = {} /\ g.nodes \in Seq(GraphNode)
  BY <1>2
<1>4. DOMAIN Preds(g) = {} /\ Predecessors(Preds(g))
  BY <1>3 DEF Preds, Predecessors
<1>5. GraphSound(g.nodes, Preds(g), g.writer)
  BY <1>2, <1>3, <1>4 DEF GraphSound
<1> QED
  BY <1>1, <1>2, <1>3, <1>5 DEF GraphOrder

\* An operation whose kernels read what is kept, or write it too.
LEMMA OperationKeeps ==
  ASSUME CudaOrder, NEW g, NEW ins, NEW tmps, NEW out, NEW n,
         CudaStream!Eval(g, ins, tmps, out, n), GraphOrder(g), g.count \in Nat \ {0},
         \A i \in DOMAIN g.nodes :
           g.nodes[i].reads \subseteq temporaries \cup tmps \cup (ins \ {out}) \cup g.nodes[i].writes
  PROVE  CudaOrder'
<1>1. PICK temps : temps = temporaries \cup tmps \cup (ins \ {out})
  OBVIOUS
<1>2. CASE g.count >= MaxNodes
  <2>1. PICK last : CudaStream!Commit(g, last, temps, pending)
    BY <1>1, <1>2 DEF CudaStream!Eval, CudaStream!KeptAlive
  <2>2. graph' = CudaStream!EmptyGraph
    BY <2>1 DEF CudaStream!Commit
  <2> QED
    BY <2>2, EmptyGraphOrder DEF CudaOrder
<1>3. CASE ~(g.count >= MaxNodes)
  <2>1. graph' = g /\ temporaries' = temps
    BY <1>1, <1>3 DEF CudaStream!Eval, CudaStream!KeptAlive
  <2> QED
    BY <1>1, <2>1 DEF CudaOrder
<1> QED
  BY <1>2, <1>3

\* A buffer that may be written over, whatever is read of it is also written.
LEMMA WrittenOver ==
  ASSUME CudaOrder, NEW b, CudaStream!Fresh(b) \/ CudaStream!Donatable(b)
  PROVE  \A n \in DOMAIN graph.nodes : b \in graph.nodes[n].reads => b \in graph.nodes[n].writes
<1>1. b \notin temporaries
  BY DEF CudaStream!Fresh, CudaStream!Donatable, CudaStream!Retained
<1> QED
  BY <1>1 DEF CudaOrder

\* The nodes after one more.
LEMMA OneMore ==
  ASSUME NEW g, GraphOrder(g), NEW k, MayAdd(g, k), NEW B,
         \A i \in DOMAIN g.nodes : g.nodes[i].reads \subseteq B \cup g.nodes[i].writes,
         k.reads \subseteq B \cup k.writes,
         NEW h, h = CudaStream!AddNode(g, k)
  PROVE  /\ GraphOrder(h) /\ h.nodes = Append(g.nodes, k)
         /\ \A i \in DOMAIN h.nodes : h.nodes[i].reads \subseteq B \cup h.nodes[i].writes
<1>1. GraphOrder(h) /\ h.nodes = Append(g.nodes, k)
  BY AddNodeKeeps DEF Added
<1>2. g.nodes \in Seq(GraphNode) /\ k \in GraphNode
  BY DEF GraphOrder, GraphSound, MayAdd
<1>3. \A i \in DOMAIN h.nodes :
        (i \in DOMAIN g.nodes /\ h.nodes[i] = g.nodes[i]) \/ h.nodes[i] = k
  BY <1>1, <1>2
<1> QED
  BY <1>1, <1>3

LEMMA ProgramOrder ==
  ASSUME HandlersInv, CudaOrder, NodeCountFits,
         \/ \E ins \in (SUBSET live) \ {{}}, out \in Buffers :
              CudaStream!Compute(ins, out) \/ \E n \in BatchSizes : CudaStream!Batched(ins, out, n)
         \/ \E x, y \in live, tmp, out \in Buffers :
              CudaStream!SliceUpdate(x, y, out) \/ CudaStream!DynamicSlice(x, y, tmp, out)
  PROVE  CudaOrder'
<1>0. /\ graph.count \in Nat /\ graph.count < MaxNodes /\ live \subseteq Buffers
      /\ MaxNodes \in Nat /\ BatchSizes \subseteq Nat
  BY DevicesAssumption DEF HandlersInv, CudaTypes, Launches
<1>1. /\ GraphOrder(graph) /\ graph.nodes \in Seq(GraphNode)
      /\ \A n \in DOMAIN graph.nodes :
           graph.nodes[n].reads \subseteq temporaries \cup graph.nodes[n].writes
  BY DEF CudaOrder, GraphOrder, GraphSound
<1>2. ASSUME NEW k PROVE CudaStream!AddNode(graph, k).count = graph.count + 1
  BY <1>0, CountFacts
<1>3. ASSUME NEW k, NEW l
      PROVE  CudaStream!AddNode(CudaStream!AddNode(graph, k), l).count = graph.count + 2
  <2>1. PICK g : g = CudaStream!AddNode(graph, k)
    OBVIOUS
  <2>2. g.count = graph.count + 1
    BY <1>2, <2>1
  <2>3. CudaStream!AddNode(g, l).count = g.count + 1
    <3>1. g.count \in Nat /\ g.count <= MaxNodes
      BY <1>0, <2>2
    <3> QED
      BY <3>1, CountFacts
  <2> QED
    BY <1>0, <2>1, <2>2, <2>3
<1>4. ASSUME NEW R \in SUBSET Buffers, NEW b \in Buffers,
             CudaStream!Fresh(b) \/ CudaStream!Donatable(b)
      PROVE  MayAdd(graph, CudaStream!Kernel(R, {b}))
  <2>1. PICK k : k = CudaStream!Kernel(R, {b})
    OBVIOUS
  <2>2. k \in GraphNode /\ k.writes = {b}
    BY <2>1 DEF CudaStream!Kernel, GraphNode
  <2>3. \A n \in DOMAIN graph.nodes :
          b \in graph.nodes[n].reads => b \in graph.nodes[n].writes
    BY <1>4, WrittenOver
  <2> QED
    BY <2>1, <2>2, <2>3 DEF MayAdd
<1>5. ASSUME NEW ins \in (SUBSET live) \ {{}}, NEW out \in Buffers, CudaStream!Compute(ins, out)
      PROVE  CudaOrder'
  <2>1. PICK k, g : k = CudaStream!Kernel(ins, {out}) /\ g = CudaStream!AddNode(graph, k)
    OBVIOUS
  <2>2. /\ CudaStream!Eval(g, ins, {}, out, 1)
        /\ CudaStream!Fresh(out) \/ CudaStream!Donatable(out)
    BY <1>5, <2>1 DEF CudaStream!Compute
  <2>3. g.count \in Nat \ {0}
    BY <1>0, <1>2, <2>1
  <2>4. MayAdd(graph, k)
    BY <1>0, <1>4, <2>1, <2>2
  <2>5. PICK B : B = temporaries \cup {} \cup (ins \ {out})
    OBVIOUS
  <2>6. k.reads \subseteq B \cup k.writes
    BY <2>1, <2>5 DEF CudaStream!Kernel
  <2>7. \A n \in DOMAIN graph.nodes : graph.nodes[n].reads \subseteq B \cup graph.nodes[n].writes
    BY <1>1, <2>5
  <2>8. /\ GraphOrder(g)
        /\ \A i \in DOMAIN g.nodes : g.nodes[i].reads \subseteq B \cup g.nodes[i].writes
    BY <1>1, <2>1, <2>4, <2>6, <2>7, OneMore
  <2> QED
    BY <2>2, <2>3, <2>5, <2>8, OperationKeeps
<1>6. ASSUME NEW ins \in (SUBSET live) \ {{}}, NEW out \in Buffers, NEW n \in BatchSizes,
             CudaStream!Batched(ins, out, n)
      PROVE  CudaOrder'
  <2>1. PICK k, g : k = CudaStream!Kernel(ins, {out}) /\ g = CudaStream!AddConcurrent(graph, k, n)
    OBVIOUS
  <2>2. CudaStream!Eval(g, ins, {}, out, 1) /\ CudaStream!Fresh(out)
    BY <1>6, <2>1 DEF CudaStream!Batched
  <2>3. g.count \in Nat \ {0}
    BY <1>0, <2>1, CountFacts
  <2>4. MayAdd(graph, k)
    BY <1>0, <1>4, <2>1, <2>2
  <2>5. PICK l : l = [reads |-> {}, writes |-> {}]
    OBVIOUS
  <2>6. GraphOrder(g) /\ g.nodes = graph.nodes \o <<k, l>>
    BY <1>1, <2>1, <2>4, <2>5, AddConcurrentKeeps
  <2>7. k.reads = ins /\ k.writes = {out} /\ l.reads = {} /\ k \in GraphNode /\ l \in GraphNode
    BY <1>0, <2>1, <2>5 DEF CudaStream!Kernel, GraphNode
  <2>8. \A i \in DOMAIN g.nodes :
          (i \in DOMAIN graph.nodes /\ g.nodes[i] = graph.nodes[i]) \/ g.nodes[i] = k \/ g.nodes[i] = l
    <3>1. PICK T : T = GraphNode
      OBVIOUS
    <3>2. graph.nodes \in Seq(T) /\ k \in T /\ l \in T
      BY <1>1, <2>7, <3>1
    <3>3. graph.nodes \o <<k, l>> = Append(Append(graph.nodes, k), l)
      BY ONLY <3>2
    <3> QED
      BY <2>6, <3>2, <3>3
  <2>9. \A i \in DOMAIN g.nodes :
          g.nodes[i].reads \subseteq temporaries \cup {} \cup (ins \ {out}) \cup g.nodes[i].writes
    BY <1>1, <2>7, <2>8
  <2> QED
    BY <2>2, <2>3, <2>6, <2>9, OperationKeeps
<1>7. ASSUME NEW x \in live, NEW y \in live, NEW out \in Buffers, CudaStream!SliceUpdate(x, y, out)
      PROVE  CudaOrder'
  <2>1. PICK k, l : k = CudaStream!Kernel({x}, {out}) /\ l = CudaStream!Kernel({y}, {out})
    OBVIOUS
  <2>2. PICK copied, g : /\ copied = IF out = x THEN graph ELSE CudaStream!AddNode(graph, k)
                         /\ g = CudaStream!AddNode(copied, l)
    OBVIOUS
  <2>3. PICK n : n = IF out = x THEN 1 ELSE 2
    OBVIOUS
  <2>4. /\ CudaStream!Eval(g, {x, y}, {}, out, n) /\ x # y
        /\ CudaStream!Fresh(out) \/ (out = x /\ CudaStream!Donatable(out))
    BY <1>7, <2>1, <2>2, <2>3 DEF CudaStream!SliceUpdate
  <2>5. out # y
    BY <2>4 DEF CudaStream!Fresh
  <2>6. g.count \in Nat \ {0}
    <3>1. CASE out = x
      BY <1>0, <1>2, <2>2, <3>1
    <3>2. CASE out # x
      BY <1>0, <1>3, <2>2, <3>2
    <3> QED
      BY <3>1, <3>2
  <2>7. /\ k \in GraphNode /\ k.reads = {x} /\ k.writes = {out}
        /\ l \in GraphNode /\ l.reads = {y} /\ l.writes = {out}
    BY <1>0, <2>1 DEF CudaStream!Kernel, GraphNode
  <2>8. MayAdd(graph, k) /\ MayAdd(graph, l)
    BY <1>0, <1>4, <2>1, <2>4
  <2>9. PICK B : B = temporaries \cup {} \cup ({x, y} \ {out})
    OBVIOUS
  <2>10. \A i \in DOMAIN graph.nodes : graph.nodes[i].reads \subseteq B \cup graph.nodes[i].writes
    BY <1>1, <2>9
  <2>11. /\ GraphOrder(copied) /\ MayAdd(copied, l)
         /\ \A i \in DOMAIN copied.nodes :
              copied.nodes[i].reads \subseteq B \cup copied.nodes[i].writes
    <3>1. CASE out = x
      BY <1>1, <2>2, <2>8, <2>10, <3>1
    <3>2. CASE out # x
      <4>1. k.reads \subseteq B \cup k.writes
        BY <2>7, <2>9
      <4>2. copied = CudaStream!AddNode(graph, k)
        BY <2>2, <3>2
      <4>3. /\ GraphOrder(copied) /\ copied.nodes = Append(graph.nodes, k)
            /\ \A i \in DOMAIN copied.nodes :
                 copied.nodes[i].reads \subseteq B \cup copied.nodes[i].writes
        BY <1>1, <2>8, <2>10, <4>1, <4>2, OneMore
      <4>4. \A i \in DOMAIN copied.nodes :
              (i \in DOMAIN graph.nodes /\ copied.nodes[i] = graph.nodes[i]) \/ copied.nodes[i] = k
        BY <1>1, <2>7, <4>3
      <4>5. MayAdd(copied, l)
        BY <2>7, <2>8, <4>4 DEF MayAdd
      <4> QED
        BY <4>3, <4>5
    <3> QED
      BY <3>1, <3>2
  <2>12. l.reads \subseteq B \cup l.writes
    BY <2>5, <2>7, <2>9
  <2>13. /\ GraphOrder(g)
         /\ \A i \in DOMAIN g.nodes : g.nodes[i].reads \subseteq B \cup g.nodes[i].writes
    BY ONLY <2>2, <2>11, <2>12, OneMore, ZenonT(60)
  <2> QED
    BY <2>4, <2>6, <2>9, <2>13, OperationKeeps
<1>8. ASSUME NEW x \in live, NEW y \in live, NEW tmp \in Buffers, NEW out \in Buffers,
             CudaStream!DynamicSlice(x, y, tmp, out)
      PROVE  CudaOrder'
  <2>1. PICK k, l : k = CudaStream!Kernel({y}, {tmp}) /\ l = CudaStream!Kernel({x, tmp}, {out})
    OBVIOUS
  <2>2. PICK h, g : h = CudaStream!AddNode(graph, k) /\ g = CudaStream!AddNode(h, l)
    OBVIOUS
  <2>3. /\ CudaStream!Eval(g, {x, y}, {tmp}, out, 2) /\ x # y /\ tmp # out
        /\ CudaStream!Fresh(out)
        /\ CudaStream!Fresh(tmp) \/ CudaStream!Donatable(tmp)
    BY <1>8, <2>1, <2>2 DEF CudaStream!DynamicSlice
  <2>4. out # x /\ out # y
    BY <2>3 DEF CudaStream!Fresh
  <2>5. g.count \in Nat \ {0}
    BY <1>0, <1>3, <2>2
  <2>6. /\ k \in GraphNode /\ k.reads = {y} /\ k.writes = {tmp}
        /\ l \in GraphNode /\ l.reads = {x, tmp} /\ l.writes = {out}
    BY <1>0, <2>1 DEF CudaStream!Kernel, GraphNode
  <2>7. MayAdd(graph, k) /\ MayAdd(graph, l)
    <3>1. {x, tmp} \subseteq Buffers /\ {y} \subseteq Buffers
      BY <1>0
    <3> QED
      BY <1>4, <2>1, <2>3, <3>1
  <2>8. PICK B : B = temporaries \cup {tmp} \cup ({x, y} \ {out})
    OBVIOUS
  <2>9. \A i \in DOMAIN graph.nodes : graph.nodes[i].reads \subseteq B \cup graph.nodes[i].writes
    BY <1>1, <2>8
  <2>10. k.reads \subseteq B \cup k.writes /\ l.reads \subseteq B \cup l.writes
    BY <2>4, <2>6, <2>8
  <2>11. /\ GraphOrder(h) /\ h.nodes = Append(graph.nodes, k)
         /\ \A i \in DOMAIN h.nodes : h.nodes[i].reads \subseteq B \cup h.nodes[i].writes
    BY <1>1, <2>2, <2>7, <2>9, <2>10, OneMore
  <2>12. MayAdd(h, l)
    <3>1. \A i \in DOMAIN h.nodes :
            (i \in DOMAIN graph.nodes /\ h.nodes[i] = graph.nodes[i]) \/ h.nodes[i] = k
      BY <1>1, <2>6, <2>11
    <3> QED
      BY <2>4, <2>6, <2>7, <3>1 DEF MayAdd
  <2>13. /\ GraphOrder(g)
         /\ \A i \in DOMAIN g.nodes : g.nodes[i].reads \subseteq B \cup g.nodes[i].writes
    BY ONLY <2>2, <2>10, <2>11, <2>12, OneMore, ZenonT(60)
  <2> QED
    BY <2>3, <2>5, <2>8, <2>13, OperationKeeps
<1> QED
  BY <1>5, <1>6, <1>7, <1>8

\* Every step keeps the order of the graph.
LEMMA CudaOrderStep ==
  ASSUME HandlersInv, CudaOrder, NodeCountFits, CudaStream!Next
  PROVE  CudaOrder'
<1>1. CASE UNCHANGED <<graph, temporaries>>
  BY <1>1 DEF CudaOrder
<1>2. CASE CudaStream!Finalize \/ CudaStream!StreamDrained
  <2>1. PICK last, ts : CudaStream!Commit(graph, last, temporaries, ts)
    BY <1>2 DEF CudaStream!Finalize, CudaStream!StreamDrained
  <2>2. graph' = IF graph.count > 0 THEN CudaStream!EmptyGraph ELSE graph
    BY <2>1 DEF CudaStream!Commit
  <2>3. graph.count \in Nat
    BY DEF HandlersInv, CudaTypes
  <2>4. CASE graph.count > 0
    BY <2>2, <2>4, EmptyGraphOrder DEF CudaOrder
  <2>5. CASE ~(graph.count > 0)
    BY <2>2, <2>3, <2>5 DEF CudaOrder
  <2> QED
    BY <2>4, <2>5
<1>3. CASE CudaStream!Synchronize \/ CudaStream!Destroy \/ CudaStream!Joined
  BY <1>1, <1>3 DEF CudaStream!Synchronize, CudaStream!Destroy, CudaStream!Joined
<1>4. CASE CudaStream!Gpu \/ CudaStream!Worker
  BY <1>1, <1>4 DEF CudaStream!Gpu, CudaStream!GraphFinishes, CudaStream!Signal,
                    CudaStream!Worker, CudaStream!TestStop, CudaStream!TakeTasks,
                    CudaStream!RunTask, CudaStream!userVars
<1>5. ASSUME NEW b \in Buffers, CudaStream!Synchronizer(b)
      PROVE  CudaOrder'
  BY <1>5 DEF CudaStream!Synchronizer, CudaOrder
<1> QED
  BY <1>2, <1>3, <1>4, <1>5, ProgramOrder DEF CudaStream!Next

LEMMA CudaOrderInit ==
  ASSUME CudaStream!Init
  PROVE  CudaOrder
<1>1. graph = CudaStream!EmptyGraph
  BY DEF CudaStream!Init
<1> QED
  BY <1>1, EmptyGraphOrder DEF CudaOrder

LEMMA CudaOrderIsOrdered ==
  ASSUME CudaOrder
  PROVE  CudaStream!Ordered
<1>1. PICK w : w = Preds(graph)
  OBVIOUS
<1>2. /\ graph.nodes \in Seq(GraphNode) /\ DOMAIN w = DOMAIN graph.nodes /\ Predecessors(w)
      /\ \A i, j \in DOMAIN graph.nodes :
           i < j /\ Clash(graph.nodes[i], graph.nodes[j]) => \E y \in w[j] : i \in Reaching(w, y)
  BY <1>1 DEF CudaOrder, GraphOrder, GraphSound
<1> DEFINE From(j) == {e[1] : e \in {f \in graph.edges : f[2] = j}}
           Is(a) == a = [j \in DOMAIN graph.nodes |-> From(j) \cup UNION {a[i] : i \in From(j)}]
<1>3. PICK a : a = CHOOSE before : Is(before)
  OBVIOUS
<1>4. ASSUME \A j \in DOMAIN graph.nodes : \A i \in 1 .. j - 1 :
               Clash(graph.nodes[i], graph.nodes[j]) => i \in a[j]
      PROVE  CudaStream!Ordered
  BY <1>3, <1>4 DEF CudaStream!Ordered, Clash
<1>5. \A j \in DOMAIN graph.nodes : From(j) = w[j]
  BY <1>1 DEF Preds
<1>6. ASSUME NEW b PROVE Is(b) <=> IsClosure(w, b)
  <2> HIDE DEF From
  <2>1. DOMAIN w = DOMAIN graph.nodes
    BY <1>2
  <2>2. \A j \in DOMAIN graph.nodes :
          From(j) \cup UNION {b[i] : i \in From(j)} = w[j] \cup UNION {b[i] : i \in w[j]}
    BY <1>5
  <2> QED
    BY <2>1, <2>2 DEF IsClosure
<1>7. IsClosure(w, a)
  <2>1. \E b : Is(b)
    BY <1>2, <1>6, ClosureExists
  <2>2. Is(a)
    <3> HIDE DEF Is
    <3> QED
      BY <1>3, <2>1
  <2> QED
    BY <1>6, <2>2
<1>8. ASSUME NEW j \in DOMAIN graph.nodes, NEW i \in 1 .. j - 1,
             Clash(graph.nodes[i], graph.nodes[j])
      PROVE  i \in a[j]
  <2>1. i \in DOMAIN graph.nodes /\ i < j
    BY <1>2
  <2>2. PICK y \in w[j] : i \in Reaching(w, y)
    BY <1>2, <1>8, <2>1
  <2>3. Reaching(w, y) \subseteq a[j]
    BY <1>2, <1>7, ClosureReaches
  <2> QED
    BY <2>2, <2>3
<1> QED
  BY <1>4, <1>8

\* If a graph cannot outgrow the char its nodes are counted in, and unless the
\* indices of a dynamic slice are donated, of two kernels that have not
\* finished and of which one writes what the other uses, the one encoded first
\* runs first: the barriers and fences of Metal, the edges of a CUDA graph.
THEOREM ConflictsOrderedHolds ==
  ASSUME NodeCountFits, ~DonateIndices
  PROVE  AllSpec => []ConflictsOrdered
<1> DEFINE Inv == /\ part = "metal" => MetalOrder
                  /\ part = "cuda" => HandlersInv /\ CudaOrder
<1>1. AllInit => Inv
  BY MetalOrderInit, HandlersInit, CudaOrderInit DEF AllInit
<1>2. Inv /\ [AllNext]_allVars => Inv'
  <2> SUFFICES ASSUME Inv, [AllNext]_allVars PROVE Inv'
    OBVIOUS
  <2>1. ASSUME part' = "metal" PROVE MetalOrder'
    <3>1. part = "metal" /\ MetalOrder
      BY <2>1 DEF AllNext, allVars, OnlyAllocators, OnlyMetal, OnlyCuda
    <3>2. CASE MetalStream!Next
      BY <3>1, <3>2, MetalOrderStep
    <3>3. CASE UNCHANGED allVars
      BY <3>1, <3>3 DEF allVars, sharedVars, metalVars, MetalOrder
    <3> QED
      BY <3>1, <3>2, <3>3 DEF AllNext
  <2>2. ASSUME part' = "cuda" PROVE HandlersInv' /\ CudaOrder'
    <3>1. part = "cuda" /\ HandlersInv /\ CudaOrder
      BY <2>2 DEF AllNext, allVars, OnlyAllocators, OnlyMetal, OnlyCuda
    <3>2. CASE CudaStream!Next
      BY <3>1, <3>2, HandlersStep, CudaOrderStep
    <3>3. CASE UNCHANGED allVars
      <4>1. HandlersInv'
        BY <3>1, <3>3 DEF allVars, sharedVars, cudaVars, HandlersInv, CudaTypes, Launches, Frontier,
                          Signals, Due
      <4>2. CudaOrder'
        BY <3>1, <3>3 DEF allVars, sharedVars, cudaVars, CudaOrder
      <4> QED
        BY <4>1, <4>2
    <3> QED
      BY <3>1, <3>2, <3>3 DEF AllNext
  <2> QED
    BY <2>1, <2>2
<1>3. Inv => ConflictsOrdered
  BY MetalOrderIsOrdered, CudaOrderIsOrdered DEF ConflictsOrdered
<1> QED
  BY <1>1, <1>2, <1>3, PTL DEF AllSpec
=============================================================================
