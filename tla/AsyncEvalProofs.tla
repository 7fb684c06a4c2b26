--------------------------- MODULE AsyncEvalProofs ---------------------------
(***************************************************************************)
(* Theorems about AsyncEval, for every set of graphs and any number of     *)
(* streams, evaluations and outputs.                                       *)
(*   Whatever throws: types, with room for every output; fences advance,   *)
(* and who waits for one waits for an update on its way; eval_impl waits   *)
(* for no fence that does not exist; the back-pressure bounds the backlog. *)
(*   As long as nothing throws: who waits for an event waits for a signal  *)
(* on its way.                                                             *)
(***************************************************************************)
EXTENDS AsyncEval, SequenceTheorems, FiniteSetTheorems, TLAPS, Induction

-----------------------------------------------------------------------------
(* Types, and what each step does to the queues of the streams *)

\* What a tape consists of.
Entries == Arrays \cup {Sync}

\* Where the user's thread is inside eval_impl, and inside the loop's body.
InBody == {"inputs", "throttle", "waitForOne", "waiting", "memory", "publish"}
Running == InBody \cup {"next"}

\* A sequence, of whatever: the proofs do not need the type of a task.
IsSeq(q) == \E T : q \in Seq(T)

\* The types of eval_impl's locals.
Locals ==
  [async : BOOLEAN, outs : Seq(Arrays), home : Streams, tape : Seq(Entries),
   cur : Entries, i : Nat \ {0}, needsFence : SUBSET Arrays,
   fenceCount : [Streams -> Nat], open : SUBSET Streams, nOld : Int]

\* The types the proofs need, with IsGraph, which Init promises.
Types ==
  /\ IsGraph(graph)
  /\ status \in [Arrays -> {"unscheduled", "evaluated", "available"}]
  /\ event \in [Arrays -> SyncIds \cup {NoEvent}]
  /\ held \subseteq Arrays
  /\ queue = [s \in Streams |-> queue[s]]
  /\ \A s \in Streams : IsSeq(queue[s])
  /\ nActive \in Int
  /\ fenceValue \in [SyncIds -> Nat]
  /\ pc \in Running \cup {"idle", "sync", "await"}
  /\ m \in Locals
  /\ evals \in 0 .. MaxEvals
  /\ pc \in Running => evals >= 1

-----------------------------------------------------------------------------
(* Sequences *)

\* What dispatching tasks to a queue, \o, leaves in place and where it puts them.
LEMMA ConcatFacts ==
  ASSUME NEW q, NEW r, IsSeq(q), IsSeq(r)
  PROVE  /\ IsSeq(q \o r)
         /\ Len(q) \in Nat /\ DOMAIN q = 1 .. Len(q)
         /\ Len(r) \in Nat /\ DOMAIN r = 1 .. Len(r)
         /\ DOMAIN (q \o r) = 1 .. Len(q) + Len(r)
         /\ \A i \in 1 .. Len(q) : (q \o r)[i] = q[i]
         /\ \A i \in 1 .. Len(r) : (q \o r)[Len(q) + i] = r[i]
<1>1. PICK S : q \in Seq(S)
  BY DEF IsSeq
<1>2. PICK T : r \in Seq(T)
  BY DEF IsSeq
<1>3. q \in Seq(S \cup T) /\ r \in Seq(S \cup T)
  BY <1>1, <1>2, SeqMonotonic
<1>4. q \o r \in Seq(S \cup T)
  BY <1>3, ConcatProperties
<1> QED
  BY <1>3, <1>4, ConcatProperties, LenProperties DEF IsSeq

\* What taking the head off a queue leaves.
LEMMA TailFacts ==
  ASSUME NEW q, IsSeq(q), q # <<>>
  PROVE  /\ IsSeq(Tail(q))
         /\ Len(q) \in Nat \ {0} /\ DOMAIN q = 1 .. Len(q)
         /\ DOMAIN Tail(q) = 1 .. Len(q) - 1
         /\ \A i \in 1 .. Len(q) - 1 : Tail(q)[i] = q[i + 1]
         /\ Head(q) = q[1]
<1>1. PICK S : q \in Seq(S)
  BY DEF IsSeq
<1> QED
  BY <1>1, HeadTailProperties, LenProperties, EmptySeq DEF IsSeq

\* A single task is a queue of one.
LEMMA SingletonFacts ==
  ASSUME NEW e
  PROVE  IsSeq(<<e>>) /\ Len(<<e>>) = 1 /\ <<e>>[1] = e
<1>1. <<e>> \in Seq({e})
  OBVIOUS
<1>2. IsSeq(<<e>>)
  BY <1>1 DEF IsSeq
<1> QED
  BY <1>2

\* What pushing one element to the back of a queue or tape leaves in place.
LEMMA AppendFacts ==
  ASSUME NEW q, NEW e, IsSeq(q)
  PROVE  /\ IsSeq(Append(q, e))
         /\ Len(q) \in Nat /\ DOMAIN q = 1 .. Len(q)
         /\ DOMAIN Append(q, e) = 1 .. Len(q) + 1
         /\ \A i \in 1 .. Len(q) : Append(q, e)[i] = q[i]
         /\ Append(q, e)[Len(q) + 1] = e
<1>1. PICK S : q \in Seq(S)
  BY DEF IsSeq
<1>2. q \in Seq(S \cup {e}) /\ e \in S \cup {e}
  BY <1>1, SeqMonotonic
<1>3. Append(q, e) \in Seq(S \cup {e})
  BY <1>2, AppendProperties
<1> QED
  BY <1>2, <1>3, AppendProperties, LenProperties DEF IsSeq

-----------------------------------------------------------------------------
(* The queues *)

\* What a worker that takes a task off its queue leaves there.
LEMMA Pops ==
  ASSUME Types, NEW s \in Streams, queue[s] # <<>>, PopTask(s)
  PROVE  /\ queue' = [r \in Streams |-> queue'[r]]
         /\ \A r \in Streams : IsSeq(queue'[r]) /\ (r # s => queue'[r] = queue[r])
         /\ Len(queue[s]) \in Nat \ {0} /\ DOMAIN queue[s] = 1 .. Len(queue[s])
         /\ DOMAIN queue'[s] = 1 .. Len(queue[s]) - 1
         /\ \A i \in 1 .. Len(queue[s]) - 1 : queue'[s][i] = queue[s][i + 1]
         /\ Head(queue[s]) = queue[s][1]
<1>1. queue = [r \in Streams |-> queue[r]] /\ \A r \in Streams : IsSeq(queue[r])
  BY DEF Types
<1>2. /\ queue' = [r \in Streams |-> queue'[r]]
      /\ queue'[s] = Tail(queue[s])
      /\ \A r \in Streams : r # s => queue'[r] = queue[r]
  BY <1>1 DEF PopTask
<1> QED
  BY <1>1, <1>2, TailFacts

\* What the user's thread adds to one queue.
LEMMA Adds ==
  ASSUME Types, NEW s \in Streams, NEW ts, IsSeq(ts), Enqueue(s, ts)
  PROVE  /\ queue' = [r \in Streams |-> queue'[r]]
         /\ \A r \in Streams : IsSeq(queue'[r]) /\ (r # s => queue'[r] = queue[r])
         /\ Len(queue[s]) \in Nat /\ DOMAIN queue[s] = 1 .. Len(queue[s])
         /\ Len(ts) \in Nat /\ DOMAIN ts = 1 .. Len(ts)
         /\ DOMAIN queue'[s] = 1 .. Len(queue[s]) + Len(ts)
         /\ \A i \in 1 .. Len(queue[s]) : queue'[s][i] = queue[s][i]
         /\ \A i \in 1 .. Len(ts) : queue'[s][Len(queue[s]) + i] = ts[i]
<1>1. queue = [r \in Streams |-> queue[r]] /\ \A r \in Streams : IsSeq(queue[r])
  BY DEF Types
<1>2. /\ queue' = [r \in Streams |-> queue'[r]]
      /\ queue'[s] = queue[s] \o ts
      /\ \A r \in Streams : r # s => queue'[r] = queue[r]
  BY <1>1 DEF Enqueue
<1>3. ASSUME NEW q, q = queue[s]
      PROVE  /\ IsSeq(q \o ts)
             /\ Len(q) \in Nat /\ DOMAIN q = 1 .. Len(q)
             /\ Len(ts) \in Nat /\ DOMAIN ts = 1 .. Len(ts)
             /\ DOMAIN (q \o ts) = 1 .. Len(q) + Len(ts)
             /\ \A i \in 1 .. Len(q) : (q \o ts)[i] = q[i]
             /\ \A i \in 1 .. Len(ts) : (q \o ts)[Len(q) + i] = ts[i]
  <2>1. IsSeq(q)
    BY <1>1, <1>3
  <2> QED
    BY ONLY <2>1, IsSeq(ts), ConcatFacts
<1> QED
  BY <1>1, <1>2, <1>3

\* The signals at the end of an evaluation.
LEMMA Signals ==
  ASSUME Types, EndEval
  PROVE  /\ queue' = [r \in Streams |-> queue'[r]]
         /\ \A r \in Streams :
              /\ IsSeq(queue'[r])
              /\ Len(queue[r]) \in Nat /\ DOMAIN queue[r] = 1 .. Len(queue[r])
              /\ \A i \in DOMAIN queue[r] : queue'[r][i] = queue[r][i]
              /\ IF r \in m.open /\ (m.async \/ r = m.home)
                   THEN /\ DOMAIN queue'[r] = 1 .. Len(queue[r]) + 1
                        /\ queue'[r][Len(queue[r]) + 1] = EventSignal(<<evals, r>>)
                   ELSE queue'[r] = queue[r]
<1>1. queue = [r \in Streams |-> queue[r]] /\ \A r \in Streams : IsSeq(queue[r])
  BY DEF Types
<1>2. queue' = [r \in Streams |->
                  IF r \in m.open /\ (m.async \/ r = m.home)
                    THEN Append(queue[r], EventSignal(<<evals, r>>))
                    ELSE queue[r]]
  BY DEF EndEval
<1>3. ASSUME NEW r \in Streams
      PROVE  /\ IsSeq(queue'[r])
             /\ Len(queue[r]) \in Nat /\ DOMAIN queue[r] = 1 .. Len(queue[r])
             /\ \A i \in DOMAIN queue[r] : queue'[r][i] = queue[r][i]
             /\ IF r \in m.open /\ (m.async \/ r = m.home)
                  THEN /\ DOMAIN queue'[r] = 1 .. Len(queue[r]) + 1
                       /\ queue'[r][Len(queue[r]) + 1] = EventSignal(<<evals, r>>)
                  ELSE queue'[r] = queue[r]
  <2> DEFINE e == EventSignal(<<evals, r>>)
  <2>1. IsSeq(queue[r])
    BY <1>1
  <2>2. queue'[r] = IF r \in m.open /\ (m.async \/ r = m.home)
                      THEN Append(queue[r], e) ELSE queue[r]
    BY <1>2
  <2> HIDE DEF e
  <2>3. Len(queue[r]) \in Nat /\ DOMAIN queue[r] = 1 .. Len(queue[r])
    BY <2>1, AppendFacts
  <2> QED
    BY <2>1, <2>2, <2>3, AppendFacts DEF e
<1> QED
  BY <1>2, <1>3

-----------------------------------------------------------------------------
(* Arrays and their outputs *)

\* eval_impl's locals have their types when no call is running.
LEMMA NoEvalTyped == NoEval \in Locals
BY EvalGraphAssumption DEF NoEval, Locals, Entries, Sync

\* The outputs of an entry are on its stream, are few, and are the outputs of
\* each of them.
LEMMA OutputsFacts ==
  ASSUME IsGraph(graph), NEW a \in Entries
  PROVE  /\ IsFiniteSet(Outputs(a)) /\ a \in Outputs(a)
         /\ \A x \in Outputs(a) \cap Arrays :
              /\ a \in Arrays /\ graph.stream[x] = StreamOf(a)
              /\ Outputs(x) = Outputs(a)
<1>1. CASE a = Sync
  BY <1>1, FS_Singleton DEF Outputs, Sync, Arrays
<1>2. CASE a # Sync
  <2>1. a \in Arrays /\ Outputs(a) = {a} \cup graph.sib[a]
    BY <1>2 DEF Entries, Outputs, OutputsIn
  <2>2. Outputs(a) \subseteq Arrays
    BY <2>1 DEF IsGraph
  <2>3. IsFiniteSet(Outputs(a))
    <3>1. IsFiniteSet(1 .. N)
      BY FS_Interval, EvalGraphAssumption
    <3> QED
      BY <2>2, <3>1, FS_Subset DEF Arrays
  <2>4. ASSUME NEW x \in Outputs(a)
        PROVE  graph.stream[x] = StreamOf(a) /\ Outputs(x) = Outputs(a)
    <3>1. CASE x = a
      BY <3>1, <1>2 DEF StreamOf
    <3>2. CASE x \in graph.sib[a]
      <4>1. /\ graph.sib[x] = (graph.sib[a] \ {x}) \cup {a}
            /\ graph.stream[x] = graph.stream[a] /\ x \in Arrays
        BY <2>1, <3>2 DEF IsGraph
      <4>2. x # Sync
        BY <4>1 DEF Arrays, Sync
      <4>3. Outputs(x) = {x} \cup graph.sib[x]
        BY <4>2 DEF Outputs, OutputsIn
      <4> QED
        BY <2>1, <3>2, <4>1, <4>3, <1>2 DEF StreamOf
    <3> QED
      BY <2>1, <3>1, <3>2
  <2> QED
    BY <2>1, <2>3, <2>4
<1> QED
  BY <1>1, <1>2

\* Every entry of a tape, the Synchronizer included, has a stream.
LEMMA StreamOfTyped ==
  ASSUME Types, NEW a \in Entries PROVE StreamOf(a) \in Streams
BY DEF Types, StreamOf, Entries, Locals, IsGraph

\* Every entry of a tape has a sequence of arrays as inputs.
LEMMA InputsTyped ==
  ASSUME Types, NEW a \in Entries PROVE InputsOf(a) \in Seq(Arrays)
BY DEF Types, InputsOf, Entries, Locals, IsGraph

\* A function on 1 .. n, as the tasks of one dispatch are, is a sequence.
LEMMA MappedSeq ==
  ASSUME NEW n \in Nat, NEW f, f = [i \in 1 .. n |-> f[i]]
  PROVE  IsSeq(f) /\ Len(f) = n
<1> DEFINE T == {f[i] : i \in 1 .. n}
<1>1. f \in [1 .. n -> T]
  OBVIOUS
<1>2. f \in Seq(T)
  BY <1>1, SeqDef
<1>3. DOMAIN f = 1 .. n /\ DOMAIN f = 1 .. Len(f) /\ Len(f) \in Nat
  BY <1>2, <1>1, LenProperties
<1>4. Len(f) = n
  BY <1>3
<1> QED
  BY <1>2, <1>4 DEF IsSeq

\* The fields of the tasks that the proofs look at.
LEMMA TaskFields ==
  ASSUME NEW x, NEW y
  PROVE  /\ Hold(x).op = "hold" /\ "op" \in DOMAIN Hold(x)
         /\ Compute(x, y).op = "compute" /\ "op" \in DOMAIN Compute(x, y)
         /\ FenceWait(x, y).op = "fenceWait"
         /\ FenceWait(x, y).obj = x /\ FenceWait(x, y).n = y
         /\ FenceUpdate(x, y).op = "fenceUpdate"
         /\ FenceUpdate(x, y).obj = x /\ FenceUpdate(x, y).n = y
         /\ EventWait(x).op = "eventWait" /\ EventWait(x).obj = x
         /\ EventSignal(x).op = "eventSignal" /\ EventSignal(x).obj = x
         /\ EventSignal(x).n = 0
BY DEF Hold, Compute, FenceWait, FenceUpdate, EventWait, EventSignal, Task

\* What cpu::eval adds to a stream: one or two tasks that neither wait nor
\* signal.
LEMMA Dispatches ==
  ASSUME Types, EvalArray
  PROVE  /\ nActive' \in Int
         /\ \E ts : /\ IsSeq(ts) /\ Enqueue(StreamOf(m.cur), ts)
                    /\ \A i \in DOMAIN ts : ts[i].op \in {"compute", "hold"}
<1> DEFINE a == m.cur
           s == StreamOf(a)
           place == IF a = Sync THEN buf ELSE Place(a)
           hold == Hold(HeldBuffers(a, place))
           tasks == IF a = Sync \/ graph.kind[a] = "views" THEN <<hold>>
                    ELSE <<ComputeTask(a, place), hold>>
           counted(i) == (numOps[s] + i) % DISPATCHES_PER_TASK = 0
           ts == [i \in DOMAIN tasks |-> [tasks[i] EXCEPT !.counted = counted(i)]]
<1>1. /\ Enqueue(s, ts)
      /\ nActive' = nActive + Cardinality({i \in DOMAIN tasks : counted(i)})
  BY DEF EvalArray, Dispatch
<1>2. /\ hold.op = "hold" /\ ComputeTask(a, place).op = "compute"
      /\ "op" \in DOMAIN hold /\ "op" \in DOMAIN ComputeTask(a, place)
  BY TaskFields DEF ComputeTask
<1>3. \E n \in Nat : DOMAIN tasks = 1 .. n
  <2>1. DOMAIN <<hold>> = 1 .. 1 /\ DOMAIN <<ComputeTask(a, place), hold>> = 1 .. 2
    OBVIOUS
  <2> QED
    BY <2>1
<1>4. \A i \in DOMAIN tasks : tasks[i] \in {hold, ComputeTask(a, place)}
  OBVIOUS
<1> HIDE DEF tasks, hold, counted
<1>5. \A i \in DOMAIN ts : ts[i].op \in {"compute", "hold"}
  BY <1>2, <1>4
<1>6. PICK n \in Nat : DOMAIN tasks = 1 .. n
  BY <1>3
<1>7. IsSeq(ts)
  BY <1>6, MappedSeq
<1>8. Cardinality({i \in DOMAIN tasks : counted(i)}) \in Nat
  <2>1. IsFiniteSet(1 .. n)
    BY FS_Interval
  <2>2. IsFiniteSet({i \in DOMAIN tasks : counted(i)})
    BY <1>6, <2>1, FS_Subset
  <2> QED
    BY <2>2, FS_CardinalityType
<1>9. nActive' \in Int
  BY <1>1, <1>8 DEF Types
<1> QED
  BY <1>1, <1>5, <1>7, <1>9

\* The tape of an evaluation is a sequence of unscheduled arrays, and what
\* needs a fence is unscheduled too.
LEMMA TapesTyped ==
  ASSUME Types, NEW outs, NEW home, NEW t \in Tapes(outs)
  PROVE  /\ t \in Seq(Pending) /\ t \in Seq(Arrays)
         /\ IsTape(graph, Pending, outs, t)
         /\ NeedsFence(t, outs, home) \subseteq Pending
<1>1. t \in BoundedSeq(Pending, N) /\ IsTape(graph, Pending, outs, t)
  BY DEF Tapes, Needed, BoundedSeq, SeqOf
<1>2. t \in Seq(Pending)
  BY <1>1, SeqDef, EvalGraphAssumption DEF BoundedSeq, SeqOf
<1>3. t \in Seq(Arrays)
  BY <1>2, SeqMonotonic DEF Pending
<1> QED
  BY <1>1, <1>2, <1>3 DEF NeedsFence, FencedInputs

-----------------------------------------------------------------------------
(* Types *)

\* The initial state, before any call, has its types.
LEMMA TypesInit == Init => Types
<1> SUFFICES ASSUME Init PROVE Types
  OBVIOUS
<1>1. /\ IsGraph(graph) /\ held \subseteq Arrays /\ nActive \in Int
      /\ status \in [Arrays -> {"unscheduled", "evaluated", "available"}]
      /\ event \in [Arrays -> SyncIds \cup {NoEvent}]
      /\ fenceValue \in [SyncIds -> Nat]
      /\ evals \in 0 .. MaxEvals /\ pc = "idle"
  BY AsyncEvalAssumption DEF Init
<1>2. m \in Locals
  BY NoEvalTyped DEF Init
<1>3. queue = [s \in Streams |-> queue[s]] /\ \A s \in Streams : IsSeq(queue[s])
  BY DEF Init, IsSeq
<1> QED
  BY <1>1, <1>2, <1>3 DEF Types, Running, InBody

\* Parts of Types whose variables most steps leave alone.
LEMMA TypesKept ==
  ASSUME Types, queue' = [s \in Streams |-> queue'[s]],
         \A s \in Streams : IsSeq(queue'[s]),
         nActive' \in Int, m' \in Locals,
         fenceValue' \in [SyncIds -> Nat],
         event' \in [Arrays -> SyncIds \cup {NoEvent}],
         status' \in [Arrays -> {"unscheduled", "evaluated", "available"}],
         pc' \in Running \cup {"idle", "sync", "await"},
         pc' \in Running => pc \in Running,
         UNCHANGED <<graph, held, evals>>
  PROVE  Types'
BY DEF Types

\* Every step of the user's thread inside eval_impl, wait and eval keeps the types.
LEMMA MainTypes ==
  ASSUME Types, Main PROVE Types'
<1> USE DEF Running, InBody
<1>a. /\ queue = [s \in Streams |-> queue[s]] /\ \A s \in Streams : IsSeq(queue[s])
      /\ nActive \in Int /\ m \in Locals /\ fenceValue \in [SyncIds -> Nat]
      /\ event \in [Arrays -> SyncIds \cup {NoEvent}]
      /\ status \in [Arrays -> {"unscheduled", "evaluated", "available"}]
      /\ m.cur \in Entries /\ m.tape \in Seq(Entries)
      /\ m.fenceCount \in [Streams -> Nat] /\ m.i \in Nat \ {0}
  BY DEF Types, Locals
<1>1. CASE NextEntry
  <2> DEFINE a == Head(m.tape)
             s == StreamOf(a)
  <2>1. a \in Entries /\ Tail(m.tape) \in Seq(Entries)
    BY <1>1, <1>a, HeadTailProperties DEF NextEntry
  <2>2. s \in Streams
    BY <2>1, StreamOfTyped
  <2>3. m' \in Locals
    <3>1. m' = [m EXCEPT !.tape = Tail(m.tape), !.cur = a, !.i = 1,
                         !.open = m.open \cup {s}]
      BY <1>1, <1>a DEF NextEntry, Locals
    <3>2. m.open \cup {s} \in SUBSET Streams /\ 1 \in Nat \ {0} /\ m \in Locals
      BY <1>a, <2>2 DEF Locals
    <3>3. a \in Entries /\ Tail(m.tape) \in Seq(Entries)
      BY <2>1
    <3> HIDE DEF a, s
    <3> QED
      BY ONLY <3>1, <3>2, <3>3 DEF Locals
  <2>4. pc = "next" /\ <<evals, s>> \in SyncIds
    BY <1>1, <2>2 DEF NextEntry, SyncIds, Types
  <2>5. event' \in [Arrays -> SyncIds \cup {NoEvent}]
    BY <1>1, <1>a, <2>4 DEF NextEntry
  <2> QED
    BY <1>1, <1>a, <2>3, <2>4, <2>5, TypesKept DEF NextEntry, streamVars
<1>2. CASE WaitForInput
  <2>1. m' \in Locals
    <3>1. m' = [m EXCEPT !.i = m.i + 1] /\ m.i + 1 \in Nat \ {0}
      BY <1>2, <1>a DEF WaitForInput, Locals
    <3> QED
      BY ONLY <1>a, <3>1 DEF Locals
  <2>2. event' \in [Arrays -> SyncIds \cup {NoEvent}]
    BY <1>2, <1>a DEF WaitForInput
  <2>3. /\ queue' = [s \in Streams |-> queue'[s]]
        /\ \A s \in Streams : IsSeq(queue'[s])
    <3>1. CASE UNCHANGED queue
      BY <3>1, <1>a
    <3>2. ASSUME NEW t, Enqueue(StreamOf(m.cur), <<t>>) PROVE <2>3
      BY <3>2, <1>a, SingletonFacts, StreamOfTyped, Adds
    <3> QED
      BY <3>1, <3>2, <1>2 DEF WaitForInput
  <2> QED
    BY <1>2, <1>a, <2>1, <2>2, <2>3, TypesKept DEF WaitForInput
<1>3. CASE EvalArray
  <2>1. /\ queue' = [s \in Streams |-> queue'[s]]
        /\ \A s \in Streams : IsSeq(queue'[s])
        /\ nActive' \in Int
    BY <1>3, <1>a, Dispatches, StreamOfTyped, Adds
  <2> QED
    BY <1>3, <1>a, <2>1, TypesKept DEF EvalArray
<1>4. CASE EvalThrows
  BY <1>4, <1>a, NoEvalTyped, TypesKept DEF EvalThrows, streamVars, arrayVars
<1>5. CASE Throttle
  BY <1>5, <1>a, TypesKept DEF Throttle, OnlyMain, streamVars, arrayVars
<1>6. CASE WaitForOne
  <2>1. m' \in Locals
    BY <1>6, <1>a DEF WaitForOne, Locals
  <2> QED
    BY <1>6, <1>a, <2>1, TypesKept DEF WaitForOne, OnlyMain, streamVars, arrayVars
<1>7. CASE OneCompleted
  BY <1>7, <1>a, TypesKept DEF OneCompleted, OnlyMain, streamVars, arrayVars
<1>8. CASE CheckMemory
  BY <1>8, <1>a, TypesKept DEF CheckMemory, OnlyMain, streamVars, arrayVars
<1>9. CASE Publish
  <2> DEFINE a == m.cur
             s == StreamOf(a)
             fenced == Cardinality(Outputs(a) \cap m.needsFence)
             ts == [i \in 1 .. fenced |-> FenceUpdate(FenceOf(s), m.fenceCount[s] + i)]
  <2>1. s \in Streams
    BY <1>a, StreamOfTyped
  <2>2. fenced \in Nat
    BY <1>a, OutputsFacts, FS_Intersection, FS_CardinalityType DEF Types
  <2>3. m' \in Locals
    <3>1. [m.fenceCount EXCEPT ![s] = @ + fenced] \in [Streams -> Nat]
      BY <1>a, <2>1, <2>2
    <3>2. m' = [m EXCEPT !.fenceCount = [m.fenceCount EXCEPT ![s] = @ + fenced],
                         !.cur = Sync,
                         !.outs = IF a = Sync THEN <<>> ELSE m.outs]
      BY <1>9, <1>a DEF Publish, Locals
    <3>3. (IF a = Sync THEN <<>> ELSE m.outs) \in Seq(Arrays) /\ Sync \in Entries
      BY <1>a DEF Locals, Entries
    <3> HIDE DEF fenced, s, a
    <3> QED
      BY ONLY <1>a, <3>1, <3>2, <3>3 DEF Locals
  <2>4. status' \in [Arrays -> {"unscheduled", "evaluated", "available"}]
    BY <1>9, <1>a DEF Publish
  <2>5. Enqueue(s, ts)
    BY <1>9 DEF Publish
  <2>6. IsSeq(ts)
    BY <2>2, MappedSeq
  <2>7. /\ queue' = [r \in Streams |-> queue'[r]]
        /\ \A r \in Streams : IsSeq(queue'[r])
    <3> HIDE DEF ts, s
    <3> QED
      BY <2>1, <2>5, <2>6, Adds
  <2> QED
    BY <1>9, <1>a, <2>3, <2>4, <2>7, TypesKept DEF Publish
<1>10. CASE EndEval
  <2>1. m' \in Locals
    <3>1. [NoEval EXCEPT !.home = m.home] \in Locals
      BY NoEvalTyped, <1>a DEF Locals
    <3> QED
      BY <1>10, <3>1, NoEvalTyped DEF EndEval
  <2> QED
    BY <1>10, <1>a, <2>1, Signals, TypesKept DEF EndEval, arrayVars
<1>11. CASE EvalReturns
  BY <1>11, <1>a, NoEvalTyped, TypesKept DEF EvalReturns, OnlyMain, streamVars, arrayVars
<1>12. CASE Awaited
  BY <1>12, <1>a, NoEvalTyped, TypesKept DEF Awaited, streamVars
<1> QED
  BY <1>1, <1>2, <1>3, <1>4, <1>5, <1>6, <1>7, <1>8, <1>9, <1>10, <1>11, <1>12
     DEF Main

\* Every call the user makes keeps the types.
LEMMA UserTypes ==
  ASSUME Types, User PROVE Types'
<1>a. /\ queue = [s \in Streams |-> queue[s]] /\ \A s \in Streams : IsSeq(queue[s])
      /\ IsGraph(graph) /\ held \subseteq Arrays /\ evals \in 0 .. MaxEvals
      /\ nActive \in Int /\ fenceValue \in [SyncIds -> Nat] /\ m \in Locals
      /\ event \in [Arrays -> SyncIds \cup {NoEvent}]
      /\ status \in [Arrays -> {"unscheduled", "evaluated", "available"}]
  BY DEF Types
<1>1. ASSUME NEW n \in 1 .. MaxOutputs, NEW outs \in [1 .. n -> held],
             NEW async \in BOOLEAN, EvalImpl(async, outs)
      PROVE  Types'
  <2>1. outs \in Seq(Arrays)
    <3>1. outs \in [1 .. n -> Arrays] /\ n \in Nat
      BY <1>a, AsyncEvalAssumption
    <3> QED
      BY <3>1, SeqDef
  <2>2. PICK k \in DOMAIN outs, t \in Tapes(outs) :
          m' = [NoEval EXCEPT !.async = async, !.outs = outs,
                              !.home = graph.stream[outs[k]],
                              !.tape = Append(t, Sync),
                              !.needsFence = NeedsFence(t, outs, graph.stream[outs[k]])]
    BY <1>1 DEF EvalImpl
  <2>3. graph.stream[outs[k]] \in Streams
    BY <1>a DEF IsGraph
  <2>4. /\ Append(t, Sync) \in Seq(Entries)
        /\ NeedsFence(t, outs, graph.stream[outs[k]]) \in SUBSET Arrays
    <3>1. t \in Seq(Entries) /\ Sync \in Entries
      BY TapesTyped, SeqMonotonic DEF Entries
    <3>2. Append(t, Sync) \in Seq(Entries)
      BY <3>1, AppendProperties
    <3> QED
      BY <3>2, TapesTyped DEF Pending
  <2>5. m' \in Locals
    <3> DEFINE tape == Append(t, Sync)
               home == graph.stream[outs[k]]
               needs == NeedsFence(t, outs, home)
    <3>1. /\ m' = [NoEval EXCEPT !.async = async, !.outs = outs, !.home = home,
                                 !.tape = tape, !.needsFence = needs]
          /\ tape \in Seq(Entries) /\ needs \in SUBSET Arrays /\ home \in Streams
      BY <2>2, <2>3, <2>4
    <3> HIDE DEF tape, home, needs
    <3> QED
      BY ONLY <2>1, <3>1, NoEvalTyped, async \in BOOLEAN DEF Locals
  <2>6. /\ pc' = "next" /\ evals' = evals + 1 /\ evals < MaxEvals
        /\ UNCHANGED <<graph, status, event, held, queue, nActive, fenceValue>>
    BY <1>1 DEF EvalImpl, arrayVars, streamVars
  <2>7. evals' \in 0 .. MaxEvals /\ evals' >= 1
    BY <1>a, <2>6, AsyncEvalAssumption
  <2> QED
    BY <1>a, <2>5, <2>6, <2>7 DEF Types, Running
<1>2. ASSUME NEW a \in Arrays, Await(a) PROVE Types'
  <2>1. m' \in Locals
    <3>1. [NoEval EXCEPT !.cur = a] \in Locals
      BY NoEvalTyped DEF Locals, Entries
    <3> QED
      BY <1>2, <1>a, <3>1 DEF Await
  <2>2. status' \in [Arrays -> {"unscheduled", "evaluated", "available"}]
    BY <1>2, <1>a DEF Await
  <2> QED
    BY <1>2, <1>a, <2>1, <2>2, TypesKept DEF Await, streamVars, Running, InBody
<1>3. ASSUME NEW a \in Arrays, Drop(a) PROVE Types'
  BY <1>3, <1>a DEF Drop, Types, streamVars, arrayVars
<1> QED
  BY <1>1, <1>2, <1>3 DEF User

-----------------------------------------------------------------------------
(* How a step changes the queues *)

\* Every queue keeps its tasks, and perhaps gets more.
Grows ==
  /\ queue' = [s \in Streams |-> queue'[s]]
  /\ \A s \in Streams :
       /\ IsSeq(queue'[s])
       /\ \E k \in Nat, l \in Nat :
            /\ DOMAIN queue[s] = 1 .. k /\ DOMAIN queue'[s] = 1 .. k + l
            /\ \A i \in 1 .. k : queue'[s][i] = queue[s][i]

New(s) == DOMAIN queue'[s] \ DOMAIN queue[s]

\* The task a worker destroys is the one it has just run.
Closing ==
  /\ closing \in [Streams -> BOOLEAN]
  /\ \A s \in Streams : closing[s] => queue[s] # <<>> /\ Head(queue[s]).op = "hold"

\* A step that leaves the queues alone adds no task.
LEMMA NothingAdded ==
  ASSUME Types, UNCHANGED queue
  PROVE  Grows /\ \A s \in Streams : New(s) = {}
<1>1. \A s \in Streams : IsSeq(queue[s])
  BY DEF Types
<1>2. ASSUME NEW q, IsSeq(q) PROVE \E k \in Nat : DOMAIN q = 1 .. k
  BY <1>2, ConcatFacts
<1>3. ASSUME NEW s \in Streams
      PROVE  \E k \in Nat, l \in Nat :
               /\ DOMAIN queue[s] = 1 .. k /\ DOMAIN queue'[s] = 1 .. k + l
               /\ \A i \in 1 .. k : queue'[s][i] = queue[s][i]
  <2>1. PICK k \in Nat : DOMAIN queue[s] = 1 .. k
    BY <1>1, <1>2
  <2>2. DOMAIN queue'[s] = 1 .. k + 0
    BY <2>1
  <2> QED
    BY <2>1, <2>2
<1> QED
  BY <1>1, <1>3 DEF Grows, New, Types

\* scheduler::enqueue adds its tasks, and no others, to one queue.
LEMMA TasksAdded ==
  ASSUME Types, NEW s \in Streams, NEW ts, IsSeq(ts), Enqueue(s, ts)
  PROVE  /\ Grows
         /\ \A r \in Streams \ {s} : New(r) = {}
         /\ \A i \in New(s) : \E j \in DOMAIN ts : queue'[s][i] = ts[j]
<1>1. /\ queue' = [r \in Streams |-> queue'[r]]
      /\ \A r \in Streams : IsSeq(queue'[r]) /\ (r # s => queue'[r] = queue[r])
      /\ Len(queue[s]) \in Nat /\ DOMAIN queue[s] = 1 .. Len(queue[s])
      /\ Len(ts) \in Nat /\ DOMAIN ts = 1 .. Len(ts)
      /\ DOMAIN queue'[s] = 1 .. Len(queue[s]) + Len(ts)
      /\ \A i \in 1 .. Len(queue[s]) : queue'[s][i] = queue[s][i]
      /\ \A i \in 1 .. Len(ts) : queue'[s][Len(queue[s]) + i] = ts[i]
  BY Adds
<1>2. ASSUME NEW r \in Streams
      PROVE  \E k \in Nat, l \in Nat :
               /\ DOMAIN queue[r] = 1 .. k /\ DOMAIN queue'[r] = 1 .. k + l
               /\ \A i \in 1 .. k : queue'[r][i] = queue[r][i]
  <2>1. CASE r = s
    BY <1>1, <2>1
  <2>2. CASE r # s
    <3>1. IsSeq(queue[r]) /\ queue'[r] = queue[r]
      BY <1>1, <2>2 DEF Types
    <3>2. ASSUME NEW q, IsSeq(q) PROVE \E k \in Nat : DOMAIN q = 1 .. k
      BY <3>2, ConcatFacts
    <3>3. PICK k \in Nat : DOMAIN queue[r] = 1 .. k
      BY <3>1, <3>2
    <3>4. DOMAIN queue'[r] = 1 .. k + 0
      BY <3>1, <3>3
    <3> QED
      BY <3>1, <3>3, <3>4
  <2> QED
    BY <2>1, <2>2
<1>3. ASSUME NEW i \in New(s) PROVE \E j \in DOMAIN ts : queue'[s][i] = ts[j]
  <2>1. i - Len(queue[s]) \in 1 .. Len(ts) /\ i = Len(queue[s]) + (i - Len(queue[s]))
    BY <1>1, <1>3 DEF New
  <2> QED
    BY <1>1, <2>1
<1> QED
  BY <1>1, <1>2, <1>3 DEF Grows, New

\* What each step on the user's thread adds: a wait for the next input, the
\* computation and the hold, updates of one fence, or signals.
LEMMA WaitAdds ==
  ASSUME Types, WaitForInput
  PROVE  /\ Grows
         /\ \/ \A r \in Streams : New(r) = {}
            \/ LET x == InputsOf(m.cur)[m.i]
                   src == graph.stream[x]
               IN  /\ x \in m.needsFence
                   /\ \A r \in Streams \ {StreamOf(m.cur)} : New(r) = {}
                   /\ \A i \in New(StreamOf(m.cur)) :
                        queue'[StreamOf(m.cur)][i]
                          = FenceWait(FenceOf(src), m.fenceCount[src])
            \/ LET x == InputsOf(m.cur)[m.i]
               IN  /\ event[x] # NoEvent /\ event[x][2] # StreamOf(m.cur)
                   /\ x \notin m.needsFence
                   /\ \A r \in Streams \ {StreamOf(m.cur)} : New(r) = {}
                   /\ \A i \in New(StreamOf(m.cur)) :
                        queue'[StreamOf(m.cur)][i] = EventWait(event[x])
<1> DEFINE x == InputsOf(m.cur)[m.i]
           src == graph.stream[x]
           s == StreamOf(m.cur)
<1>1. s \in Streams
  BY StreamOfTyped DEF Types, Locals
<1>2. ASSUME NEW t, Enqueue(s, <<t>>)
      PROVE  /\ Grows /\ \A r \in Streams \ {s} : New(r) = {}
             /\ \A i \in New(s) : queue'[s][i] = t
  <2> HIDE DEF s
  <2>1. IsSeq(<<t>>)
    BY SingletonFacts
  <2>2. DOMAIN <<t>> = {1} /\ <<t>>[1] = t
    OBVIOUS
  <2> QED
    BY <1>1, <1>2, <2>1, <2>2, TasksAdded
<1>3. CASE UNCHANGED queue
  BY <1>3, NothingAdded
<1>4. CASE /\ x \in m.needsFence
           /\ Enqueue(s, <<FenceWait(FenceOf(src), m.fenceCount[src])>>)
  BY <1>4, <1>2
<1>5. CASE /\ event[x] # NoEvent /\ event[x][2] # s /\ x \notin m.needsFence
           /\ Enqueue(s, <<EventWait(event[x])>>)
  BY <1>5, <1>2
<1> QED
  BY <1>3, <1>4, <1>5 DEF WaitForInput

\* cpu::eval adds tasks that compute or hold buffers, and no others.
LEMMA DispatchAdds ==
  ASSUME Types, EvalArray
  PROVE  /\ Grows
         /\ \A r \in Streams : \A i \in New(r) :
              queue'[r][i].op \in {"compute", "hold"}
<1>1. PICK ts : /\ IsSeq(ts) /\ Enqueue(StreamOf(m.cur), ts)
                /\ \A i \in DOMAIN ts : ts[i].op \in {"compute", "hold"}
  BY Dispatches
<1>2. StreamOf(m.cur) \in Streams
  BY StreamOfTyped DEF Types, Locals
<1>3. ASSUME NEW s \in Streams, s = StreamOf(m.cur)
      PROVE  /\ Grows
             /\ \A r \in Streams : \A i \in New(r) :
                  queue'[r][i].op \in {"compute", "hold"}
  <2>1. Enqueue(s, ts)
    BY <1>1, <1>3
  <2>2. /\ Grows
        /\ \A r \in Streams \ {s} : New(r) = {}
        /\ \A i \in New(s) : \E j \in DOMAIN ts : queue'[s][i] = ts[j]
    BY <1>1, <2>1, TasksAdded
  <2> QED
    BY <1>1, <2>2
<1> QED
  BY <1>2, <1>3

Fenced == Cardinality(Outputs(m.cur) \cap m.needsFence)

\* The end of the loop's body adds one update for each fenced output, with consecutive
\* counts, and raises the count of the entry's stream as far.
LEMMA PublishAdds ==
  ASSUME Types, Publish
  PROVE  LET s == StreamOf(m.cur)
         IN  /\ Grows /\ Fenced \in Nat /\ s \in Streams
             /\ m'.fenceCount = [m.fenceCount EXCEPT ![s] = @ + Fenced]
             /\ \A r \in Streams \ {s} : New(r) = {}
             /\ \E k \in Nat :
                  /\ DOMAIN queue[s] = 1 .. k /\ DOMAIN queue'[s] = 1 .. k + Fenced
                  /\ \A i \in 1 .. Fenced :
                       queue'[s][k + i]
                         = FenceUpdate(FenceOf(s), m.fenceCount[s] + i)
<1> DEFINE s == StreamOf(m.cur)
           ts == [i \in 1 .. Fenced |-> FenceUpdate(FenceOf(s), m.fenceCount[s] + i)]
<1>1. s \in Streams /\ m \in Locals /\ m.cur \in Entries
  BY StreamOfTyped DEF Types, Locals
<1>2. Fenced \in Nat
  BY <1>1, OutputsFacts, FS_Intersection, FS_CardinalityType DEF Types, Fenced
<1>3. Enqueue(s, ts)
  BY DEF Publish, Fenced
<1>4. m'.fenceCount = [m.fenceCount EXCEPT ![s] = @ + Fenced]
  BY <1>1 DEF Publish, Fenced, Locals
<1>5. IsSeq(ts) /\ Len(ts) = Fenced
  BY <1>2, MappedSeq
<1>6. \A i \in 1 .. Fenced : ts[i] = FenceUpdate(FenceOf(s), m.fenceCount[s] + i)
  OBVIOUS
<1> HIDE DEF ts, s
<1>7. /\ Grows /\ \A r \in Streams \ {s} : New(r) = {}
  BY <1>1, <1>3, <1>5, TasksAdded
<1>8. /\ Len(queue[s]) \in Nat /\ DOMAIN queue[s] = 1 .. Len(queue[s])
      /\ DOMAIN queue'[s] = 1 .. Len(queue[s]) + Fenced
      /\ \A i \in 1 .. Fenced : queue'[s][Len(queue[s]) + i] = ts[i]
  BY <1>1, <1>3, <1>5, Adds
<1> QED
  BY <1>1, <1>2, <1>4, <1>6, <1>7, <1>8 DEF s

\* The end of eval_impl adds one signal to every stream it used that has an
\* event, and nothing else.
LEMMA SignalsAdded ==
  ASSUME Types, EndEval
  PROVE  /\ Grows
         /\ \A s \in Streams :
              /\ \A i \in New(s) : queue'[s][i] = EventSignal(<<evals, s>>)
              /\ s \in m.open /\ (m.async \/ s = m.home) => New(s) # {}
<1>1. /\ queue' = [r \in Streams |-> queue'[r]]
      /\ \A r \in Streams :
           /\ IsSeq(queue'[r])
           /\ Len(queue[r]) \in Nat /\ DOMAIN queue[r] = 1 .. Len(queue[r])
           /\ \A i \in DOMAIN queue[r] : queue'[r][i] = queue[r][i]
           /\ IF r \in m.open /\ (m.async \/ r = m.home)
                THEN /\ DOMAIN queue'[r] = 1 .. Len(queue[r]) + 1
                     /\ queue'[r][Len(queue[r]) + 1] = EventSignal(<<evals, r>>)
                ELSE queue'[r] = queue[r]
  BY Signals
<1>2. ASSUME NEW s \in Streams
      PROVE  /\ \E k \in Nat, l \in Nat :
                  /\ DOMAIN queue[s] = 1 .. k /\ DOMAIN queue'[s] = 1 .. k + l
                  /\ \A i \in 1 .. k : queue'[s][i] = queue[s][i]
             /\ \A i \in New(s) : queue'[s][i] = EventSignal(<<evals, s>>)
             /\ s \in m.open /\ (m.async \/ s = m.home) => New(s) # {}
  <2>1. CASE s \in m.open /\ (m.async \/ s = m.home)
    BY <1>1, <2>1 DEF New
  <2>2. CASE ~(s \in m.open /\ (m.async \/ s = m.home))
    <3>1. /\ queue'[s] = queue[s] /\ Len(queue[s]) \in Nat
          /\ DOMAIN queue[s] = 1 .. Len(queue[s])
      BY <1>1, <2>2
    <3>2. DOMAIN queue'[s] = 1 .. Len(queue[s]) + 0 /\ New(s) = {}
      BY <3>1 DEF New
    <3> QED
      BY <2>2, <3>1, <3>2
  <2> QED
    BY <2>1, <2>2
<1> QED
  BY <1>1, <1>2 DEF Grows

\* The user's threads only add tasks; the parts of the state that belong to
\* the workers stay as they are.
LEMMA Growth ==
  ASSUME Types, User \/ Main \/ Quiescent \/ UNCHANGED vars
  PROVE  Grows /\ UNCHANGED <<graph, closing, fenceValue, signaled>>
<1>1. CASE User
  <2>1. UNCHANGED <<graph, queue, closing, fenceValue, signaled>>
    BY <1>1 DEF User, EvalImpl, Await, Drop, streamVars
  <2> QED
    BY <2>1, NothingAdded
<1>2. CASE Main
  <2>1. UNCHANGED <<graph, closing, fenceValue, signaled>>
    BY <1>2 DEF Main, NextEntry, WaitForInput, EvalArray, EvalThrows, Throttle,
         WaitForOne, OneCompleted, CheckMemory, Publish, EndEval, EvalReturns,
         Awaited, OnlyMain, streamVars
  <2>2. \/ WaitForInput \/ EvalArray \/ Publish \/ EndEval \/ UNCHANGED queue
    BY <1>2 DEF Main, NextEntry, EvalThrows, Throttle, WaitForOne, OneCompleted,
         CheckMemory, EvalReturns, Awaited, OnlyMain, streamVars
  <2>3. Grows
    BY <2>2, WaitAdds, DispatchAdds, PublishAdds, SignalsAdded, NothingAdded
  <2> QED
    BY <2>1, <2>3
<1>3. CASE Quiescent \/ UNCHANGED vars
  <2>1. UNCHANGED <<graph, queue, closing, fenceValue, signaled>>
    BY <1>3 DEF Quiescent, vars, streamVars
  <2> QED
    BY <2>1, NothingAdded
<1> QED
  BY <1>1, <1>2, <1>3

\* A worker runs the task at the head and takes it off the queue, or has run a
\* hold task and is about to destroy it.
LEMMA Working ==
  ASSUME Types, Closing, NEW s \in Streams, RunStream(s)
  PROVE  /\ UNCHANGED <<graph, status, event, held, pc, m, evals>>
         /\ \/ RunHold(s) /\ UNCHANGED <<queue, fenceValue, signaled>>
            \/ /\ queue[s] # <<>> /\ PopTask(s)
               /\ \/ /\ Head(queue[s]).op \notin {"fenceUpdate", "eventSignal"}
                     /\ UNCHANGED <<fenceValue, signaled>>
                  \/ /\ Head(queue[s]).op = "fenceUpdate" /\ UNCHANGED signaled
                     /\ fenceValue' = [fenceValue EXCEPT ![Head(queue[s]).obj] =
                                         Head(queue[s]).n]
                  \/ /\ Head(queue[s]).op = "eventSignal" /\ UNCHANGED fenceValue
                     /\ signaled' = signaled \cup {Head(queue[s]).obj}
         /\ nActive' \in Int
<1>1. UNCHANGED <<graph, status, event, held, pc, m, evals>>
  BY DEF RunStream, RunCompute, RunHold, ReleaseBuffers, RunFenceWait,
       RunFenceUpdate, RunEventWait, RunEventSignal, arrayVars
<1>2. nActive' \in Int
  BY DEF RunStream, RunCompute, RunHold, ReleaseBuffers, RunFenceWait,
       RunFenceUpdate, RunEventWait, RunEventSignal, NotifyCompletion, Types
<1>3. CASE RunHold(s)
  BY <1>1, <1>2, <1>3 DEF RunHold
<1>4. CASE ReleaseBuffers(s)
  BY <1>1, <1>2, <1>4 DEF ReleaseBuffers, Closing
<1>5. CASE RunCompute(s) \/ RunFenceWait(s) \/ RunEventWait(s)
  BY <1>1, <1>2, <1>5 DEF RunCompute, RunFenceWait, RunEventWait, Runnable
<1>6. CASE RunFenceUpdate(s)
  BY <1>1, <1>2, <1>6 DEF RunFenceUpdate, Runnable
<1>7. CASE RunEventSignal(s)
  BY <1>1, <1>2, <1>7 DEF RunEventSignal, Runnable
<1> QED
  BY <1>3, <1>4, <1>5, <1>6, <1>7 DEF RunStream

\* A queue that grows keeps its tasks in place, and its head.
LEMMA GrowsFacts ==
  ASSUME Types, Grows, NEW s \in Streams
  PROVE  /\ \A i \in DOMAIN queue[s] :
              i \in DOMAIN queue'[s] /\ queue'[s][i] = queue[s][i] /\ i \in Nat
         /\ \A i \in DOMAIN queue[s] : \A j \in New(s) : i < j /\ j \in Nat
         /\ \A j \in DOMAIN queue'[s] : j \in DOMAIN queue[s] \/ j \in New(s)
         /\ queue[s] # <<>> => queue'[s] # <<>> /\ Head(queue'[s]) = Head(queue[s])
<1>1. PICK k \in Nat, l \in Nat :
        /\ DOMAIN queue[s] = 1 .. k /\ DOMAIN queue'[s] = 1 .. k + l
        /\ \A i \in 1 .. k : queue'[s][i] = queue[s][i]
  BY DEF Grows
<1>2. IsSeq(queue[s]) /\ IsSeq(queue'[s])
  BY DEF Types, Grows
<1>3. ASSUME queue[s] # <<>>
      PROVE  queue'[s] # <<>> /\ Head(queue'[s]) = Head(queue[s])
  <2>1. ASSUME NEW q, IsSeq(q), q # <<>>
        PROVE  Head(q) = q[1] /\ 1 \in DOMAIN q
    <3>1. Head(q) = q[1] /\ Len(q) \in Nat \ {0} /\ DOMAIN q = 1 .. Len(q)
      BY <2>1, TailFacts
    <3> QED
      BY <3>1
  <2>2. 1 \in 1 .. k /\ Head(queue[s]) = queue[s][1]
    BY <1>1, <1>2, <1>3, <2>1
  <2>3. 1 \in DOMAIN queue'[s]
    BY <1>1, <2>2
  <2>4. queue'[s] # <<>>
    BY <2>3
  <2> QED
    BY <1>1, <1>2, <2>1, <2>2, <2>4
<1> QED
  BY <1>1, <1>3 DEF New

\* No closure is being destroyed before anything was enqueued.
LEMMA ClosingInit == Init => Closing
BY DEF Init, Closing

\* Only a hold task that has run is ever waiting for its destruction.
LEMMA ClosingStep ==
  ASSUME Types, Closing, Next \/ UNCHANGED vars
  PROVE  Closing'
<1>1. CASE User \/ Main \/ Quiescent \/ UNCHANGED vars
  <2>1. Grows /\ UNCHANGED closing
    BY <1>1, Growth
  <2> QED
    BY <2>1, GrowsFacts DEF Closing
<1>2. ASSUME NEW s \in Streams, RunStream(s) PROVE Closing'
  <2>0. /\ closing \in [Streams -> BOOLEAN]
        /\ \A r \in Streams : closing[r] => queue[r] # <<>> /\ Head(queue[r]).op = "hold"
    BY DEF Closing
  <2>1. CASE RunHold(s)
    BY <2>0, <2>1 DEF RunHold, Runnable, Closing
  <2>2. CASE ~RunHold(s)
    <3>1. PopTask(s) /\ queue[s] # <<>>
      BY <1>2, <2>2, Working
    <3>2. \A r \in Streams : r # s => queue'[r] = queue[r]
      BY <3>1, Pops
    <3>3. closing' = [closing EXCEPT ![s] = FALSE]
      <4>1. CASE ReleaseBuffers(s)
        BY <4>1 DEF ReleaseBuffers
      <4>2. CASE ~ReleaseBuffers(s)
        <5>1. UNCHANGED closing /\ ~closing[s]
          BY <1>2, <2>2, <4>2 DEF RunStream, RunCompute, RunFenceWait,
               RunFenceUpdate, RunEventWait, RunEventSignal, Runnable
        <5> QED
          BY <2>0, <5>1
      <4> QED
        BY <4>1, <4>2
    <3> QED
      BY <2>0, <3>2, <3>3 DEF Closing
  <2> QED
    BY <2>1, <2>2
<1> QED
  BY <1>1, <1>2 DEF Next

-----------------------------------------------------------------------------
(* Fences *)

\* A pending update of a fence belongs to the stream it is queued on, will
\* raise the fence, and does not go beyond the count of a running eval_impl.
GoodUpdate(s, t) ==
  /\ t.n \in Nat
  /\ \E e \in 1 .. evals :
       /\ t.obj = <<e, s>> /\ fenceValue[<<e, s>>] < t.n
       /\ e = evals /\ pc \in Running => t.n <= m.fenceCount[s]

Updates ==
  \A s \in Streams : \A i \in DOMAIN queue[s] :
    queue[s][i].op = "fenceUpdate" => GoodUpdate(s, queue[s][i])

\* The updates of one fence are queued in increasing order.
Ordered ==
  \A s \in Streams : \A i, j \in DOMAIN queue[s] :
    /\ i < j /\ queue[s][i].op = "fenceUpdate" /\ queue[s][j].op = "fenceUpdate"
    /\ queue[s][i].obj = queue[s][j].obj
    => queue[s][i].n < queue[s][j].n

\* A fence starts from 0; the count of a running eval_impl is reached without
\* anything it still has to do.
Counts ==
  \A s \in Streams :
    /\ \A e \in evals + 1 .. MaxEvals : fenceValue[<<e, s>>] = 0
    /\ pc \in Running => /\ fenceValue[<<evals, s>>] <= m.fenceCount[s]
                         /\ FenceCovered(<<evals, s>>, m.fenceCount[s])

\* A pending wait for a fence waits for what is on its way.
GoodWait(t) ==
  /\ t.n \in Nat
  /\ \E e \in 1 .. evals, r \in Streams :
       t.obj = <<e, r>> /\ FenceCovered(<<e, r>>, t.n)

Waits ==
  \A s \in Streams : \A i \in DOMAIN queue[s] :
    queue[s][i].op = "fenceWait" => GoodWait(queue[s][i])

\* Every step of a worker keeps the types.
LEMMA StreamTypes ==
  ASSUME Types, Closing, Updates, NEW s \in Streams, RunStream(s)
  PROVE  Types'
<1>1. /\ UNCHANGED <<graph, status, event, held, pc, m, evals>> /\ nActive' \in Int
  BY Working
<1>2. CASE RunHold(s)
  BY <1>1, <1>2, Working DEF Types, RunHold
<1>3. CASE ~RunHold(s)
  <2>1. queue[s] # <<>> /\ PopTask(s)
    BY <1>3, Working
  <2>2. /\ queue' = [r \in Streams |-> queue'[r]]
        /\ \A r \in Streams : IsSeq(queue'[r])
    BY <2>1, Pops
  <2>3. fenceValue' \in [SyncIds -> Nat]
    <3>1. CASE UNCHANGED fenceValue
      BY <3>1 DEF Types
    <3>2. CASE ~UNCHANGED fenceValue
      <4>1. Head(queue[s]).op = "fenceUpdate"
            /\ fenceValue' = [fenceValue EXCEPT ![Head(queue[s]).obj] =
                                Head(queue[s]).n]
        BY <1>3, <3>2, Working
      <4>2. Head(queue[s]) = queue[s][1] /\ 1 \in DOMAIN queue[s]
        BY <2>1, Pops
      <4>3. Head(queue[s]).n \in Nat
        BY <4>1, <4>2 DEF Updates, GoodUpdate
      <4> QED
        BY <4>1, <4>3 DEF Types
    <3> QED
      BY <3>1, <3>2
  <2> QED
    BY <1>1, <2>2, <2>3 DEF Types
<1> QED
  BY <1>2, <1>3

\* Idling keeps the types.
LEMMA QuiescentTypes ==
  ASSUME Types, Quiescent \/ UNCHANGED vars PROVE Types'
BY DEF Types, Quiescent, vars, streamVars, arrayVars

\* The fence of a stream in a call made so far is one of those the model names.
LEMMA SyncIdOf ==
  ASSUME Types, NEW e \in 1 .. evals, NEW s \in Streams
  PROVE  <<e, s>> \in SyncIds /\ fenceValue[<<e, s>>] \in Nat
<1>1. e \in 1 .. MaxEvals
  BY AsyncEvalAssumption DEF Types
<1> QED
  BY <1>1 DEF Types, SyncIds

\* A fence never goes back.
LEMMA FenceAdvances ==
  ASSUME Types, Closing, Updates, Next \/ UNCHANGED vars, NEW f \in SyncIds
  PROVE  /\ fenceValue[f] \in Nat /\ fenceValue'[f] \in Nat
         /\ fenceValue'[f] >= fenceValue[f]
<1>1. fenceValue[f] \in Nat
  BY DEF Types
<1>2. CASE UNCHANGED fenceValue
  BY <1>1, <1>2
<1>3. CASE ~UNCHANGED fenceValue
  <2>1. PICK s \in Streams : RunStream(s)
    BY <1>3, Growth DEF Next
  <2>2. /\ queue[s] # <<>> /\ PopTask(s) /\ Head(queue[s]).op = "fenceUpdate"
        /\ fenceValue' = [fenceValue EXCEPT ![Head(queue[s]).obj] =
                            Head(queue[s]).n]
    BY <2>1, <1>3, Working
  <2>3. Head(queue[s]) = queue[s][1] /\ 1 \in DOMAIN queue[s]
    BY <2>2, Pops
  <2>4. GoodUpdate(s, Head(queue[s]))
    BY <2>2, <2>3 DEF Updates
  <2>5. PICK e \in 1 .. evals :
          /\ Head(queue[s]).n \in Nat /\ Head(queue[s]).obj = <<e, s>>
          /\ fenceValue[<<e, s>>] < Head(queue[s]).n
    BY <2>4 DEF GoodUpdate
  <2>6. <<e, s>> \in SyncIds
    BY SyncIdOf
  <2>7. CASE f = <<e, s>>
    BY <1>1, <2>2, <2>5, <2>6, <2>7 DEF Types
  <2>8. CASE f # <<e, s>>
    <3>1. fenceValue'[f] = fenceValue[f]
      BY <2>2, <2>5, <2>8 DEF Types
    <3> QED
      BY <1>1, <3>1
  <2> QED
    BY <2>7, <2>8
<1> QED
  BY <1>2, <1>3

\* What a fence will reach without eval_impl it still will after any step.
LEMMA FenceStaysCovered ==
  ASSUME Types, Closing, Updates, Next \/ UNCHANGED vars,
         NEW f \in SyncIds, NEW n \in Nat, FenceCovered(f, n)
  PROVE  FenceCovered(f, n)'
<1> DEFINE s == f[2]
<1>0. s \in Streams
  BY DEF SyncIds
<1>1. CASE fenceValue[f] >= n
  <2>1. fenceValue'[f] >= n
    BY <1>1, FenceAdvances
  <2> QED
    BY <2>1 DEF FenceCovered
<1>2. CASE Coming(s, "fenceUpdate", f, n)
  <2>1. PICK i \in DOMAIN queue[s] :
          queue[s][i].op = "fenceUpdate" /\ queue[s][i].obj = f /\ queue[s][i].n >= n
    BY <1>2 DEF Coming
  <2>2. ASSUME \E j \in DOMAIN queue'[s] : queue'[s][j] = queue[s][i]
        PROVE  FenceCovered(f, n)'
    BY <2>1, <2>2 DEF FenceCovered, Coming
  <2>3. CASE Grows
    BY <1>0, <2>2, <2>3, GrowsFacts
  <2>4. ASSUME NEW r \in Streams, RunStream(r) PROVE FenceCovered(f, n)'
    <3>1. CASE RunHold(r)
      BY <2>2, <2>4, <3>1 DEF RunHold
    <3>2. CASE ~RunHold(r) /\ r # s
      <4>1. queue'[s] = queue[s]
        BY <1>0, <2>4, <3>2, Working, Pops
      <4> QED
        BY <2>2, <4>1
    <3>3. CASE ~RunHold(r) /\ r = s
      <4>1. queue[s] # <<>> /\ PopTask(s)
        BY <2>4, <3>3, Working
      <4>2. /\ Len(queue[s]) \in Nat \ {0} /\ DOMAIN queue[s] = 1 .. Len(queue[s])
            /\ DOMAIN queue'[s] = 1 .. Len(queue[s]) - 1
            /\ \A k \in 1 .. Len(queue[s]) - 1 : queue'[s][k] = queue[s][k + 1]
            /\ Head(queue[s]) = queue[s][1]
        BY <1>0, <4>1, Pops
      <4>3. CASE i = 1
        <5>1. fenceValue' = [fenceValue EXCEPT ![f] = queue[s][i].n]
          BY <2>1, <2>4, <3>3, <4>2, <4>3, Working
        <5>2. fenceValue'[f] >= n
          BY <2>1, <5>1 DEF Types
        <5> QED
          BY <5>2 DEF FenceCovered
      <4>4. CASE i # 1
        <5>1. i - 1 \in DOMAIN queue'[s] /\ queue'[s][i - 1] = queue[s][i]
          BY <4>2, <4>4
        <5> QED
          BY <2>2, <5>1
      <4> QED
        BY <4>3, <4>4
    <3> QED
      BY <3>1, <3>2, <3>3
  <2> QED
    BY <2>3, <2>4, Growth DEF Next
<1> QED
  BY <1>1, <1>2 DEF FenceCovered

\* How the user's thread changes what the fences depend on: a call starts, or
\* publishes an entry, or leaves the counts alone and adds no update.
Starts ==
  /\ pc = "idle" /\ evals' = evals + 1 /\ pc' \in Running
  /\ m'.fenceCount = [s \in Streams |-> 0]
  /\ \A s \in Streams : New(s) = {}

Calm ==
  /\ evals' = evals
  /\ pc' \in Running => pc \in Running /\ m'.fenceCount = m.fenceCount
  /\ \A s \in Streams : \A i \in New(s) :
       /\ queue'[s][i].op # "fenceUpdate"
       /\ queue'[s][i].op = "fenceWait" =>
            /\ pc \in Running
            /\ \E src \in Streams : /\ queue'[s][i].obj = <<evals, src>>
                                    /\ queue'[s][i].n = m.fenceCount[src]

\* Every step that is no worker's is of one of these three kinds.
LEMMA UserSteps ==
  ASSUME Types, User \/ Main \/ Quiescent \/ UNCHANGED vars
  PROVE  Starts \/ Calm \/ Publish
<1> USE DEF Running, InBody
<1>0. m \in Locals /\ m.cur \in Entries /\ IsGraph(graph)
  BY DEF Types, Locals
<1>1. ASSUME NEW async, NEW outs, EvalImpl(async, outs) PROVE Starts
  <2>1. m'.fenceCount = [s \in Streams |-> 0]
    BY <1>1 DEF EvalImpl, NoEval
  <2>2. \A s \in Streams : New(s) = {}
    BY <1>1, NothingAdded DEF EvalImpl, streamVars
  <2> QED
    BY <1>1, <2>1, <2>2 DEF EvalImpl, Starts
<1>2. CASE \/ \E a \in Arrays : Await(a) \/ Drop(a)
           \/ EvalThrows \/ EvalReturns \/ Awaited \/ Quiescent \/ UNCHANGED vars
  <2>1. UNCHANGED <<queue, evals>> /\ (pc' \in Running => UNCHANGED <<pc, m>>)
    BY <1>2 DEF Await, Drop, EvalThrows, EvalReturns, Awaited, Quiescent, vars,
         streamVars, OnlyMain
  <2> QED
    BY <2>1, NothingAdded DEF Calm
<1>3. CASE NextEntry \/ Throttle \/ WaitForOne \/ OneCompleted \/ CheckMemory
  <2>1. UNCHANGED <<queue, evals>> /\ pc \in Running
    BY <1>3 DEF NextEntry, Throttle, WaitForOne, OneCompleted, CheckMemory,
         streamVars, OnlyMain
  <2>2. m'.fenceCount = m.fenceCount
    BY <1>3, <1>0 DEF NextEntry, Throttle, WaitForOne, OneCompleted, CheckMemory,
         Locals
  <2> QED
    BY <2>1, <2>2, NothingAdded DEF Calm
<1>4. CASE WaitForInput
  <2>1. UNCHANGED <<evals, pc>> /\ pc \in Running /\ m'.fenceCount = m.fenceCount
    BY <1>4, <1>0 DEF WaitForInput, Locals
  <2> DEFINE x == InputsOf(m.cur)[m.i]
             r == StreamOf(m.cur)
             src == graph.stream[x]
  <2>2. CASE \A s \in Streams : New(s) = {}
    BY <2>1, <2>2 DEF Calm
  <2>3. CASE /\ x \in m.needsFence
             /\ \A s \in Streams \ {r} : New(s) = {}
             /\ \A i \in New(r) :
                  queue'[r][i] = FenceWait(FenceOf(src), m.fenceCount[src])
    <3>1. src \in Streams /\ FenceOf(src) = <<evals, src>>
      BY <2>3, <1>0 DEF IsGraph, Locals, FenceOf
    <3>2. \A i \in New(r) : /\ queue'[r][i].op = "fenceWait"
                            /\ queue'[r][i].obj = <<evals, src>>
                            /\ queue'[r][i].n = m.fenceCount[src]
      BY <2>3, <3>1, TaskFields
    <3> HIDE DEF r, src, x
    <3> QED
      BY <2>1, <2>3, <3>1, <3>2 DEF Calm
  <2>4. CASE /\ \A s \in Streams \ {r} : New(s) = {}
             /\ \A i \in New(r) : queue'[r][i] = EventWait(event[x])
    <3>1. \A i \in New(r) : queue'[r][i].op = "eventWait"
      BY <2>4, TaskFields
    <3> HIDE DEF r, src, x
    <3> QED
      BY <2>1, <2>4, <3>1 DEF Calm
  <2> QED
    BY <1>4, <2>2, <2>3, <2>4, WaitAdds
<1>5. CASE EvalArray
  <2>1. UNCHANGED <<evals, m>> /\ pc \in Running
    BY <1>5 DEF EvalArray
  <2> QED
    BY <1>5, <2>1, DispatchAdds DEF Calm
<1>6. CASE EndEval
  <2>1. evals' = evals /\ pc' \notin Running
    BY <1>6 DEF EndEval
  <2>2. \A s \in Streams : \A i \in New(s) : queue'[s][i].op = "eventSignal"
    <3>1. \A s \in Streams : \A i \in New(s) : queue'[s][i] = EventSignal(<<evals, s>>)
      BY <1>6, SignalsAdded
    <3>2. \A s \in Streams : EventSignal(<<evals, s>>).op = "eventSignal"
      BY TaskFields
    <3> QED
      BY <3>1, <3>2
  <2> QED
    BY <2>1, <2>2 DEF Calm
<1> QED
  BY <1>1, <1>2, <1>3, <1>4, <1>5, <1>6 DEF User, Main

\* Every step keeps pending updates good: a worker runs the oldest first, and
\* eval_impl issues new ones with higher counts.
LEMMA UpdatesStep ==
  ASSUME Types, Closing, Updates, Ordered, Counts, Next \/ UNCHANGED vars
  PROVE  Updates'
<1>0. evals \in Nat
  BY DEF Types
<1>1. ASSUME Grows, UNCHANGED fenceValue, Starts \/ Calm \/ Publish
      PROVE  Updates'
  <2>1. ASSUME NEW s \in Streams, NEW t, GoodUpdate(s, t),
               \/ Starts \/ Calm
               \/ Publish /\ m.fenceCount[s] <= m'.fenceCount[s]
                    /\ m.fenceCount[s] \in Nat /\ m'.fenceCount[s] \in Nat
        PROVE  GoodUpdate(s, t)'
    <3>1. PICK e \in 1 .. evals :
            /\ t.n \in Nat /\ t.obj = <<e, s>> /\ fenceValue[<<e, s>>] < t.n
            /\ e = evals /\ pc \in Running => t.n <= m.fenceCount[s]
      BY <2>1 DEF GoodUpdate
    <3>2. CASE Starts
      <4>1. e \in 1 .. evals' /\ e # evals'
        BY <1>0, <3>2 DEF Starts
      <4> QED
        BY <1>1, <3>1, <4>1 DEF GoodUpdate
    <3>3. CASE Calm
      BY <1>1, <3>1, <3>3 DEF GoodUpdate, Calm
    <3>4. CASE Publish
      <4>1. evals' = evals /\ pc \in Running
        BY <3>4 DEF Publish, Running, InBody
      <4>2. CASE Starts \/ Calm
        BY <4>2, <3>2, <3>3
      <4>3. CASE m.fenceCount[s] <= m'.fenceCount[s]
                   /\ m.fenceCount[s] \in Nat /\ m'.fenceCount[s] \in Nat
        BY <1>1, <3>1, <4>1, <4>3 DEF GoodUpdate
      <4> QED
        BY <2>1, <4>2, <4>3
    <3> QED
      BY <2>1, <3>2, <3>3, <3>4
  <2>2. CASE Starts \/ Calm
    <3>1. ASSUME NEW s \in Streams, NEW i \in DOMAIN queue'[s],
                 NEW t, t = queue'[s][i], t.op = "fenceUpdate"
          PROVE  GoodUpdate(s, t)'
      <4>1. i \in DOMAIN queue[s] /\ queue'[s][i] = queue[s][i]
        BY <1>1, <2>2, <3>1, GrowsFacts DEF Starts, Calm
      <4> QED
        BY <2>1, <2>2, <3>1, <4>1 DEF Updates
    <3> QED
      BY <3>1 DEF Updates, GoodUpdate
  <2>3. CASE Publish
    <3> DEFINE r == StreamOf(m.cur)
    <3>1. /\ Fenced \in Nat /\ r \in Streams
          /\ m'.fenceCount = [m.fenceCount EXCEPT ![r] = @ + Fenced]
          /\ \A s \in Streams \ {r} : New(s) = {}
      BY <2>3, PublishAdds
    <3>2. PICK k \in Nat :
            /\ DOMAIN queue[r] = 1 .. k /\ DOMAIN queue'[r] = 1 .. k + Fenced
            /\ \A i \in 1 .. Fenced :
                 queue'[r][k + i] = FenceUpdate(FenceOf(r), m.fenceCount[r] + i)
      BY <2>3, PublishAdds
    <3>3. pc \in Running /\ evals' = evals /\ evals \in 1 .. evals
      BY <2>3 DEF Publish, Running, InBody, Types
    <3> HIDE DEF r
    <3>4. ASSUME NEW s \in Streams
          PROVE  /\ m.fenceCount[s] \in Nat /\ m'.fenceCount[s] \in Nat
                 /\ m.fenceCount[s] <= m'.fenceCount[s]
      <4>1. m.fenceCount \in [Streams -> Nat]
        BY DEF Types, Locals
      <4> QED
        BY <3>1, <4>1
    <3>5. ASSUME NEW s \in Streams, NEW i \in DOMAIN queue'[s],
                 NEW t, t = queue'[s][i], t.op = "fenceUpdate"
          PROVE  GoodUpdate(s, t)'
      <4>1. CASE i \in DOMAIN queue[s]
        <5>1. queue'[s][i] = queue[s][i]
          BY <1>1, <4>1, GrowsFacts
        <5> QED
          BY <2>1, <2>3, <3>4, <3>5, <4>1, <5>1 DEF Updates
      <4>2. CASE i \in New(s)
        <5>1. s = r
          BY <3>1, <4>2
        <5>2. i - k \in 1 .. Fenced /\ i = k + (i - k)
          BY <3>1, <3>2, <4>2, <5>1 DEF New
        <5>3. PICK j \in 1 .. Fenced :
                queue'[s][i] = FenceUpdate(FenceOf(r), m.fenceCount[r] + j)
          BY <3>2, <5>1, <5>2
        <5>4. /\ queue'[s][i].obj = <<evals, s>>
              /\ queue'[s][i].n = m.fenceCount[s] + j
          BY <5>1, <5>3, TaskFields DEF FenceOf
        <5>5. m'.fenceCount[s] = m.fenceCount[s] + Fenced
          BY <3>1, <5>1 DEF Types, Locals
        <5>6. fenceValue[<<evals, s>>] <= m.fenceCount[s]
              /\ fenceValue[<<evals, s>>] \in Nat
          BY <3>3, SyncIdOf DEF Counts
        <5>7. /\ queue'[s][i].n \in Nat /\ fenceValue[<<evals, s>>] < queue'[s][i].n
              /\ queue'[s][i].n <= m'.fenceCount[s]
          BY <3>1, <3>4, <5>4, <5>5, <5>6
        <5> QED
          BY <1>1, <3>3, <3>5, <5>4, <5>7 DEF GoodUpdate
      <4> QED
        BY <3>5, <4>1, <4>2 DEF New
    <3> QED
      BY <3>5 DEF Updates, GoodUpdate
  <2> QED
    BY <1>1, <2>2, <2>3
<1>2. ASSUME NEW r \in Streams, RunStream(r) PROVE Updates'
  <2>0. UNCHANGED <<pc, m, evals>>
    BY <1>2, Working
  <2>1. CASE RunHold(r)
    BY <2>0, <2>1 DEF RunHold, Updates, GoodUpdate
  <2>2. CASE ~RunHold(r)
    <3>1. queue[r] # <<>> /\ PopTask(r)
      BY <1>2, <2>2, Working
    <3>2. /\ \A s \in Streams : s # r => queue'[s] = queue[s]
          /\ Len(queue[r]) \in Nat \ {0} /\ DOMAIN queue[r] = 1 .. Len(queue[r])
          /\ DOMAIN queue'[r] = 1 .. Len(queue[r]) - 1
          /\ \A i \in 1 .. Len(queue[r]) - 1 : queue'[r][i] = queue[r][i + 1]
          /\ Head(queue[r]) = queue[r][1]
      BY <3>1, Pops
    <3>3. ASSUME NEW s \in Streams, NEW i \in DOMAIN queue'[s],
                 NEW t, t = queue'[s][i], t.op = "fenceUpdate"
          PROVE  GoodUpdate(s, t)'
      <4>1. PICK j \in DOMAIN queue[s] :
              queue'[s][i] = queue[s][j] /\ (s = r => j = i + 1 /\ i \in Nat \ {0})
        <5>1. CASE s # r
          BY <3>2, <5>1
        <5>2. CASE s = r
          <6>1. PICK len \in Nat \ {0} : len = Len(queue[r])
            BY <3>2
          <6>2. i \in 1 .. len - 1
            BY <3>2, <5>2, <6>1
          <6>3. i + 1 \in 1 .. len /\ i \in Nat \ {0}
            BY <6>2
          <6> QED
            BY <3>2, <5>2, <6>1, <6>2, <6>3
        <5> QED
          BY <5>1, <5>2
      <4>2. PICK e \in 1 .. evals :
              /\ t.n \in Nat /\ t.obj = <<e, s>> /\ fenceValue[<<e, s>>] < t.n
              /\ e = evals /\ pc \in Running => t.n <= m.fenceCount[s]
        BY <3>3, <4>1 DEF Updates, GoodUpdate
      <4>3. fenceValue'[<<e, s>>] < t.n
        <5>1. CASE UNCHANGED fenceValue
          BY <4>2, <5>1
        <5>2. CASE ~UNCHANGED fenceValue
          <6>1. /\ queue[r][1].op = "fenceUpdate" /\ 1 \in DOMAIN queue[r]
                /\ fenceValue' = [fenceValue EXCEPT ![queue[r][1].obj] =
                                    queue[r][1].n]
            BY <1>2, <2>2, <3>2, <5>2, Working
          <6>2. CASE queue[r][1].obj # <<e, s>>
            BY <4>2, <6>1, <6>2 DEF Types
          <6>3. CASE queue[r][1].obj = <<e, s>>
            <7>1. r = s
              <8>1. GoodUpdate(r, queue[r][1])
                BY <6>1 DEF Updates
              <8>2. PICK d \in 1 .. evals : queue[r][1].obj = <<d, r>>
                BY <8>1 DEF GoodUpdate
              <8> QED
                BY <6>3, <8>2
            <7>2. queue[r][1].n < t.n
              BY <3>3, <4>1, <4>2, <6>1, <6>3, <7>1 DEF Ordered
            <7>3. fenceValue'[<<e, s>>] = queue[r][1].n
              BY <6>1, <6>3, SyncIdOf DEF Types
            <7> QED
              BY <7>2, <7>3
          <6> QED
            BY <6>2, <6>3
        <5> QED
          BY <5>1, <5>2
      <4> QED
        BY <2>0, <4>1, <4>2, <4>3 DEF GoodUpdate
    <3> QED
      BY <3>3 DEF Updates, GoodUpdate
  <2> QED
    BY <2>1, <2>2
<1> QED
  BY <1>1, <1>2, Growth, UserSteps DEF Next

\* Every step keeps the updates of a fence in order: Publish appends with
\* counts above all it has given out.
LEMMA OrderedStep ==
  ASSUME Types, Closing, Updates, Ordered, Next \/ UNCHANGED vars
  PROVE  Ordered'
<1>1. ASSUME Grows, Starts \/ Calm PROVE Ordered'
  <2>1. ASSUME NEW s \in Streams, NEW i \in DOMAIN queue'[s],
               queue'[s][i].op = "fenceUpdate"
        PROVE  i \in DOMAIN queue[s] /\ queue'[s][i] = queue[s][i]
    BY <1>1, <2>1, GrowsFacts DEF Starts, Calm
  <2> QED
    BY <2>1 DEF Ordered
<1>2. CASE Publish
  <2> DEFINE r == StreamOf(m.cur)
  <2>1. /\ Grows /\ Fenced \in Nat /\ r \in Streams
        /\ \A s \in Streams \ {r} : New(s) = {}
    BY <1>2, PublishAdds
  <2>2. PICK k \in Nat :
          /\ DOMAIN queue[r] = 1 .. k /\ DOMAIN queue'[r] = 1 .. k + Fenced
          /\ \A i \in 1 .. Fenced :
               queue'[r][k + i] = FenceUpdate(FenceOf(r), m.fenceCount[r] + i)
    BY <1>2, PublishAdds
  <2>3. pc \in Running /\ m.fenceCount \in [Streams -> Nat] /\ evals \in Int
    BY <1>2 DEF Publish, Running, InBody, Types, Locals
  <2> HIDE DEF r
  <2>4. \A s \in Streams : \A i \in DOMAIN queue[s] :
          i \in DOMAIN queue'[s] /\ queue'[s][i] = queue[s][i] /\ i \in Nat
    BY <2>1, GrowsFacts
  <2>5. ASSUME NEW j \in New(r)
        PROVE  /\ j - k \in 1 .. Fenced /\ j \in Nat
               /\ queue'[r][j].obj = <<evals, r>>
               /\ queue'[r][j].n = m.fenceCount[r] + (j - k)
    <3>1. j - k \in 1 .. Fenced /\ j = k + (j - k) /\ j \in Nat
      BY <2>1, <2>2 DEF New
    <3>2. queue'[r][j] = FenceUpdate(FenceOf(r), m.fenceCount[r] + (j - k))
      BY <2>2, <3>1
    <3> QED
      BY <3>1, <3>2, TaskFields DEF FenceOf
  <2>6. ASSUME NEW s \in Streams, NEW i \in DOMAIN queue'[s],
               NEW j \in DOMAIN queue'[s], i < j,
               queue'[s][i].op = "fenceUpdate", queue'[s][j].op = "fenceUpdate",
               queue'[s][i].obj = queue'[s][j].obj
        PROVE  queue'[s][i].n < queue'[s][j].n
    <3>1. CASE j \in DOMAIN queue[s]
      <4>1. i \in DOMAIN queue[s]
        <5>1. i \in New(s) => j < i /\ j \in Nat /\ i \in Nat
          BY <2>1, <3>1, GrowsFacts
        <5> QED
          BY <2>6, <5>1 DEF New
      <4> QED
        BY <2>4, <2>6, <3>1, <4>1 DEF Ordered
    <3>2. CASE j \in New(s) /\ i \in New(s)
      <4>1. s = r
        BY <2>1, <3>2
      <4>2. /\ i - k \in 1 .. Fenced /\ j - k \in 1 .. Fenced /\ i \in Nat /\ j \in Nat
            /\ queue'[s][i].n = m.fenceCount[s] + (i - k)
            /\ queue'[s][j].n = m.fenceCount[s] + (j - k)
        BY <2>5, <3>2, <4>1
      <4>3. m.fenceCount[s] \in Nat
        BY <2>3
      <4> QED
        BY <2>2, <2>6, <4>2, <4>3
    <3>3. CASE j \in New(s) /\ i \in DOMAIN queue[s]
      <4>1. s = r
        BY <2>1, <3>3
      <4>2. queue'[s][i] = queue[s][i] /\ GoodUpdate(s, queue[s][i])
        BY <2>4, <2>6, <3>3 DEF Updates
      <4>3. PICK e \in 1 .. evals :
              /\ queue[s][i].n \in Nat /\ queue[s][i].obj = <<e, s>>
              /\ e = evals /\ pc \in Running => queue[s][i].n <= m.fenceCount[s]
        BY <4>2 DEF GoodUpdate
      <4>4. e = evals
        BY <2>5, <2>6, <3>3, <4>1, <4>2, <4>3
      <4>5. queue[s][i].n <= m.fenceCount[s]
        BY <2>3, <4>3, <4>4
      <4>6. queue'[s][j].n = m.fenceCount[s] + (j - k) /\ j - k \in 1 .. Fenced
        BY <2>5, <3>3, <4>1
      <4> QED
        BY <2>1, <2>3, <4>2, <4>3, <4>5, <4>6
    <3> QED
      BY <2>6, <3>1, <3>2, <3>3 DEF New
  <2> QED
    BY <2>6 DEF Ordered
<1>3. ASSUME NEW r \in Streams, RunStream(r) PROVE Ordered'
  <2>1. CASE RunHold(r)
    BY <2>1 DEF RunHold, Ordered
  <2>2. CASE ~RunHold(r)
    <3>1. queue[r] # <<>> /\ PopTask(r)
      BY <1>3, <2>2, Working
    <3>2. /\ \A s \in Streams : s # r => queue'[s] = queue[s]
          /\ Len(queue[r]) \in Nat \ {0} /\ DOMAIN queue[r] = 1 .. Len(queue[r])
          /\ DOMAIN queue'[r] = 1 .. Len(queue[r]) - 1
          /\ \A i \in 1 .. Len(queue[r]) - 1 : queue'[r][i] = queue[r][i + 1]
      BY <3>1, Pops
    <3>3. ASSUME NEW i \in DOMAIN queue'[r], NEW j \in DOMAIN queue'[r], i < j
          PROVE  /\ i + 1 \in DOMAIN queue[r] /\ j + 1 \in DOMAIN queue[r]
                 /\ i + 1 < j + 1
                 /\ queue'[r][i] = queue[r][i + 1] /\ queue'[r][j] = queue[r][j + 1]
      BY <3>2, <3>3
    <3>4. ASSUME NEW s \in Streams, NEW i \in DOMAIN queue'[s],
                 NEW j \in DOMAIN queue'[s], i < j,
                 queue'[s][i].op = "fenceUpdate", queue'[s][j].op = "fenceUpdate",
                 queue'[s][i].obj = queue'[s][j].obj
          PROVE  queue'[s][i].n < queue'[s][j].n
      <4>1. CASE s # r
        BY <3>2, <3>4, <4>1 DEF Ordered
      <4>2. CASE s = r
        BY <3>3, <3>4, <4>2 DEF Ordered
      <4> QED
        BY <4>1, <4>2
    <3> QED
      BY <3>4 DEF Ordered
  <2> QED
    BY <2>1, <2>2
<1> QED
  BY <1>1, <1>2, <1>3, Growth, UserSteps DEF Next

\* Every step keeps the counts of eval_impl ahead of the fences' values, and covered.
LEMMA CountsStep ==
  ASSUME Types, Types', Closing, Updates, Counts, Next \/ UNCHANGED vars
  PROVE  Counts'
<1>0. evals \in Nat /\ MaxEvals \in Nat /\ evals' \in 0 .. MaxEvals
  BY AsyncEvalAssumption DEF Types
<1>1. ASSUME NEW s \in Streams, NEW e \in evals + 1 .. MaxEvals
      PROVE  fenceValue[<<e, s>>] = 0
  BY DEF Counts
<1>2. ASSUME NEW s \in Streams, pc \in Running
      PROVE  /\ <<evals, s>> \in SyncIds /\ m.fenceCount[s] \in Nat
             /\ evals \in 1 .. evals
             /\ fenceValue[<<evals, s>>] <= m.fenceCount[s]
             /\ FenceCovered(<<evals, s>>, m.fenceCount[s])
  <2>1. evals \in 1 .. evals
    BY <1>2 DEF Types
  <2>2. <<evals, s>> \in SyncIds
    BY <2>1, SyncIdOf
  <2> QED
    BY <1>2, <2>1, <2>2 DEF Counts, Types, Locals
<1>3. ASSUME NEW s \in Streams, pc \in Running, NEW f, f = <<evals, s>>,
             NEW n, n = m.fenceCount[s]
      PROVE  FenceCovered(f, n)'
  BY <1>2, <1>3, FenceStaysCovered
<1>4. ASSUME Grows, UNCHANGED fenceValue, Starts PROVE Counts'
  <2>1. ASSUME NEW s \in Streams
        PROVE  /\ \A e \in evals' + 1 .. MaxEvals : fenceValue'[<<e, s>>] = 0
               /\ fenceValue'[<<evals', s>>] = 0 /\ m'.fenceCount[s] = 0
    <3>1. evals' = evals + 1 /\ evals' \in evals + 1 .. MaxEvals
      BY <1>0, <1>4 DEF Starts
    <3>2. m'.fenceCount[s] = 0
      BY <1>4 DEF Starts
    <3> QED
      BY <1>0, <1>1, <1>4, <3>1, <3>2
  <2>2. ASSUME NEW s \in Streams PROVE FenceCovered(<<evals, s>>, m.fenceCount[s])'
    <3>1. fenceValue'[<<evals', s>>] >= m'.fenceCount[s]
      BY <2>1
    <3> QED
      BY <3>1 DEF FenceCovered
  <2>3. ASSUME NEW s \in Streams PROVE fenceValue'[<<evals', s>>] <= m'.fenceCount[s]
    <3>1. fenceValue'[<<evals', s>>] = 0 /\ m'.fenceCount[s] = 0
      BY <2>1
    <3> QED
      BY <3>1
  <2>4. \A s \in Streams : \A e \in evals' + 1 .. MaxEvals : fenceValue'[<<e, s>>] = 0
    BY <2>1
  <2> QED
    BY <2>2, <2>3, <2>4 DEF Counts
<1>5. ASSUME UNCHANGED <<fenceValue, evals>>,
             pc' \in Running => pc \in Running /\ m'.fenceCount = m.fenceCount
      PROVE  Counts'
  <2>1. ASSUME NEW s \in Streams, pc' \in Running
        PROVE  FenceCovered(<<evals, s>>, m.fenceCount[s])'
    BY <1>3, <1>5, <2>1 DEF FenceCovered
  <2>2. ASSUME NEW s \in Streams, pc' \in Running
        PROVE  fenceValue'[<<evals', s>>] <= m'.fenceCount[s]
    BY <1>2, <1>5, <2>2
  <2>3. \A s \in Streams : \A e \in evals' + 1 .. MaxEvals : fenceValue'[<<e, s>>] = 0
    BY <1>1, <1>5
  <2> QED
    BY <2>1, <2>2, <2>3 DEF Counts
<1>6. ASSUME UNCHANGED fenceValue, Publish PROVE Counts'
  <2> DEFINE r == StreamOf(m.cur)
  <2>1. /\ Fenced \in Nat /\ r \in Streams
        /\ m'.fenceCount = [m.fenceCount EXCEPT ![r] = @ + Fenced]
    BY <1>6, PublishAdds
  <2>2. PICK k \in Nat :
          /\ DOMAIN queue[r] = 1 .. k /\ DOMAIN queue'[r] = 1 .. k + Fenced
          /\ \A i \in 1 .. Fenced :
               queue'[r][k + i] = FenceUpdate(FenceOf(r), m.fenceCount[r] + i)
    BY <1>6, PublishAdds
  <2>3. pc \in Running /\ evals' = evals /\ m.fenceCount \in [Streams -> Nat]
    BY <1>6 DEF Publish, Running, InBody, Types, Locals
  <2> HIDE DEF r
  <2>4. ASSUME NEW s \in Streams
        PROVE  /\ fenceValue'[<<evals', s>>] <= m'.fenceCount[s]
               /\ FenceCovered(<<evals, s>>, m.fenceCount[s])'
    <3>1. fenceValue[<<evals, s>>] \in Nat /\ fenceValue[<<evals, s>>] <= m.fenceCount[s]
      BY <1>2, <2>3 DEF Types
    <3>2. fenceValue'[<<evals', s>>] <= m'.fenceCount[s]
      BY <1>6, <2>1, <2>3, <3>1
    <3>3. CASE m'.fenceCount[s] = m.fenceCount[s]
      BY <1>3, <2>3, <3>2, <3>3 DEF FenceCovered
    <3>4. CASE m'.fenceCount[s] # m.fenceCount[s]
      <4>1. s = r /\ Fenced \in 1 .. Fenced /\ m'.fenceCount[s] = m.fenceCount[s] + Fenced
        BY <2>1, <2>3, <3>4
      <4>2. /\ k + Fenced \in DOMAIN queue'[s]
            /\ queue'[s][k + Fenced]
                 = FenceUpdate(<<evals, s>>, m.fenceCount[s] + Fenced)
        BY <2>2, <4>1 DEF FenceOf
      <4>3. /\ queue'[s][k + Fenced].op = "fenceUpdate"
            /\ queue'[s][k + Fenced].obj = <<evals', s>>
            /\ queue'[s][k + Fenced].n = m'.fenceCount[s]
        BY <2>3, <4>1, <4>2, TaskFields
      <4>4. m'.fenceCount[s] \in Nat
        BY <2>1, <2>3, <4>1
      <4>5. \E i \in DOMAIN queue'[s] : /\ queue'[s][i].op = "fenceUpdate"
                                        /\ queue'[s][i].obj = <<evals', s>>
                                        /\ queue'[s][i].n >= m'.fenceCount[s]
        BY <4>2, <4>3, <4>4
      <4>6. ASSUME NEW f, f = <<evals', s>>, NEW n, n = m'.fenceCount[s]
            PROVE  FenceCovered(f, n)'
        <5>1. f[2] = s
          BY <4>6
        <5>2. \E i \in DOMAIN queue'[s] : /\ queue'[s][i].op = "fenceUpdate"
                                          /\ queue'[s][i].obj = f
                                          /\ queue'[s][i].n >= n
          BY <4>5, <4>6
        <5> QED
          BY <5>1, <5>2 DEF FenceCovered, Coming
      <4> QED
        BY <3>2, <4>6 DEF FenceCovered
    <3> QED
      BY <3>2, <3>3, <3>4
  <2>5. \A s \in Streams : \A e \in evals' + 1 .. MaxEvals : fenceValue'[<<e, s>>] = 0
    BY <1>1, <1>6, <2>3
  <2> QED
    BY <2>4, <2>5 DEF Counts
<1>7. ASSUME NEW r \in Streams, RunStream(r) PROVE Counts'
  <2>1. UNCHANGED <<pc, m, evals>>
    BY <1>7, Working
  <2>2. CASE UNCHANGED fenceValue
    BY <1>5, <2>1, <2>2
  <2>3. CASE ~UNCHANGED fenceValue
    <3>1. /\ queue[r] # <<>> /\ PopTask(r) /\ Head(queue[r]).op = "fenceUpdate"
          /\ fenceValue' = [fenceValue EXCEPT ![Head(queue[r]).obj] =
                              Head(queue[r]).n]
      BY <1>7, <2>3, Working DEF RunHold
    <3>2. Head(queue[r]) = queue[r][1] /\ 1 \in DOMAIN queue[r]
      BY <3>1, Pops
    <3>3. GoodUpdate(r, Head(queue[r]))
      BY <3>1, <3>2 DEF Updates
    <3>4. PICK d \in 1 .. evals :
            /\ Head(queue[r]).n \in Nat /\ Head(queue[r]).obj = <<d, r>>
            /\ d = evals /\ pc \in Running => Head(queue[r]).n <= m.fenceCount[r]
      BY <3>3 DEF GoodUpdate
    <3>5. fenceValue' = [fenceValue EXCEPT ![<<d, r>>] = Head(queue[r]).n]
      BY <3>1, <3>4
    <3>6. ASSUME NEW s \in Streams, NEW e \in evals + 1 .. MaxEvals
          PROVE  fenceValue'[<<e, s>>] = 0
      <4>1. <<e, s>> # <<d, r>>
        BY <1>0
      <4>2. <<e, s>> \in SyncIds
        BY <1>0 DEF SyncIds
      <4> QED
        BY <1>1, <3>5, <4>1, <4>2 DEF Types
    <3>7. ASSUME NEW s \in Streams, pc \in Running
          PROVE  /\ fenceValue'[<<evals, s>>] <= m.fenceCount[s]
                 /\ FenceCovered(<<evals, s>>, m.fenceCount[s])'
      <4>1. FenceCovered(<<evals, s>>, m.fenceCount[s])'
        BY <1>3, <2>1, <3>7 DEF FenceCovered
      <4>2. CASE <<evals, s>> = <<d, r>>
        BY <1>2, <3>4, <3>5, <3>7, <4>1, <4>2 DEF Types
      <4>3. CASE <<evals, s>> # <<d, r>>
        BY <1>2, <3>5, <3>7, <4>1, <4>3 DEF Types
      <4> QED
        BY <4>2, <4>3
    <3> QED
      BY <2>1, <3>6, <3>7 DEF Counts
  <2> QED
    BY <2>2, <2>3
<1>8. CASE User \/ Main \/ Quiescent \/ UNCHANGED vars
  <2>1. Grows /\ UNCHANGED fenceValue
    BY <1>8, Growth
  <2> QED
    BY <1>4, <1>5, <1>6, <1>8, <2>1, UserSteps DEF Calm
<1> QED
  BY <1>7, <1>8 DEF Next

\* Every step keeps the waits good: WaitForInput waits for a count that is
\* covered already, and what is covered stays so.
LEMMA WaitsStep ==
  ASSUME Types, Types', Closing, Updates, Counts, Waits, Next \/ UNCHANGED vars
  PROVE  Waits'
<1>1. ASSUME NEW t, GoodWait(t), evals' >= evals PROVE GoodWait(t)'
  <2>1. PICK e \in 1 .. evals, r \in Streams :
          t.n \in Nat /\ t.obj = <<e, r>> /\ FenceCovered(<<e, r>>, t.n)
    BY <1>1 DEF GoodWait
  <2>2. <<e, r>> \in SyncIds
    BY SyncIdOf
  <2>3. FenceCovered(<<e, r>>, t.n)'
    BY <2>1, <2>2, FenceStaysCovered
  <2>4. e \in 1 .. evals'
    BY <1>1 DEF Types
  <2> QED
    BY <2>1, <2>3, <2>4 DEF GoodWait
<1>2. CASE User \/ Main \/ Quiescent \/ UNCHANGED vars
  <2>1. Grows /\ (Starts \/ Calm \/ Publish)
    BY <1>2, Growth, UserSteps
  <2>2. evals' >= evals
    BY <2>1 DEF Starts, Calm, Publish, Types
  <2>3. ASSUME NEW s \in Streams, NEW i \in New(s), NEW t, t = queue'[s][i],
               t.op = "fenceWait"
        PROVE  GoodWait(t)'
    <3>1. CASE Starts
      BY <2>3, <3>1 DEF Starts
    <3>2. CASE Calm
      <4>1. PICK src \in Streams : /\ pc \in Running /\ t.obj = <<evals, src>>
                                   /\ t.n = m.fenceCount[src]
        BY <2>3, <3>2 DEF Calm
      <4>2. evals \in 1 .. evals /\ evals' = evals /\ t.n \in Nat
        BY <3>2, <4>1 DEF Types, Calm, Locals
      <4>3. FenceCovered(<<evals, src>>, t.n)
        BY <4>1 DEF Counts
      <4>4. GoodWait(t)
        BY <4>1, <4>2, <4>3 DEF GoodWait
      <4> QED
        BY <1>1, <2>2, <4>4
    <3>3. CASE Publish
      <4> DEFINE r == StreamOf(m.cur)
      <4>1. /\ \A q \in Streams \ {r} : New(q) = {} /\ Fenced \in Nat
            /\ \E k \in Nat :
                 /\ DOMAIN queue[r] = 1 .. k /\ DOMAIN queue'[r] = 1 .. k + Fenced
                 /\ \A j \in 1 .. Fenced :
                      queue'[r][k + j]
                        = FenceUpdate(FenceOf(r), m.fenceCount[r] + j)
        BY <3>3, PublishAdds
      <4> HIDE DEF r
      <4>2. s = r
        BY <2>3, <4>1
      <4>3. PICK k \in Nat :
              /\ DOMAIN queue[r] = 1 .. k /\ DOMAIN queue'[r] = 1 .. k + Fenced
              /\ \A j \in 1 .. Fenced :
                   queue'[r][k + j] = FenceUpdate(FenceOf(r), m.fenceCount[r] + j)
        BY <4>1
      <4>4. i - k \in 1 .. Fenced /\ i = k + (i - k)
        BY <3>3, PublishAdds, <2>3, <4>2, <4>3 DEF New
      <4>5. t.op = "fenceUpdate"
        BY <2>3, <4>2, <4>3, <4>4, TaskFields
      <4> QED
        BY <2>3, <4>5
    <3> QED
      BY <2>1, <3>1, <3>2, <3>3
  <2>4. ASSUME NEW s \in Streams, NEW i \in DOMAIN queue[s], NEW t,
               t = queue'[s][i], t.op = "fenceWait"
        PROVE  GoodWait(t)'
    <3>1. queue'[s][i] = queue[s][i]
      BY <2>1, GrowsFacts
    <3> QED
      BY <1>1, <2>2, <2>4, <3>1 DEF Waits
  <2>5. ASSUME NEW s \in Streams, NEW i \in DOMAIN queue'[s], NEW t,
               t = queue'[s][i], t.op = "fenceWait"
        PROVE  GoodWait(t)'
    BY <2>3, <2>4, <2>5 DEF New
  <2> QED
    BY <2>5 DEF Waits, GoodWait
<1>3. ASSUME NEW r \in Streams, RunStream(r) PROVE Waits'
  <2>1. evals' = evals /\ evals' >= evals
    BY <1>3, Working DEF Types
  <2>2. ASSUME NEW s \in Streams, NEW i \in DOMAIN queue'[s]
        PROVE  \E j \in DOMAIN queue[s] : queue'[s][i] = queue[s][j]
    <3>1. CASE RunHold(r)
      BY <2>2, <3>1 DEF RunHold
    <3>2. CASE ~RunHold(r)
      <4>1. queue[r] # <<>> /\ PopTask(r)
        BY <1>3, <3>2, Working
      <4>2. /\ r # s => queue'[s] = queue[s]
            /\ Len(queue[r]) \in Nat \ {0} /\ DOMAIN queue[r] = 1 .. Len(queue[r])
            /\ DOMAIN queue'[r] = 1 .. Len(queue[r]) - 1
            /\ \A j \in 1 .. Len(queue[r]) - 1 : queue'[r][j] = queue[r][j + 1]
        BY <4>1, Pops
      <4> QED
        BY <2>2, <4>2
    <3> QED
      BY <3>1, <3>2
  <2>3. ASSUME NEW s \in Streams, NEW i \in DOMAIN queue'[s], NEW t,
               t = queue'[s][i], t.op = "fenceWait"
        PROVE  GoodWait(t)'
    BY <1>1, <2>1, <2>2, <2>3 DEF Waits
  <2> QED
    BY <2>3 DEF Waits, GoodWait
<1> QED
  BY <1>2, <1>3 DEF Next

\* The inductive invariant behind the properties of fences.
FenceInv == Types /\ Closing /\ Updates /\ Ordered /\ Counts /\ Waits

\* The invariant of fences holds before any call.
LEMMA FenceInvInit == Init => FenceInv
<1> SUFFICES ASSUME Init PROVE FenceInv
  OBVIOUS
<1>1. Types /\ Closing
  BY TypesInit, ClosingInit
<1>2. \A s \in Streams : DOMAIN queue[s] = {}
  BY DEF Init
<1>3. Counts
  <2>1. evals = 0 /\ pc = "idle" /\ fenceValue = [f \in SyncIds |-> 0]
    BY DEF Init
  <2>2. \A s \in Streams : \A e \in 1 .. MaxEvals : fenceValue[<<e, s>>] = 0
    BY <2>1 DEF SyncIds
  <2> QED
    BY <2>1, <2>2 DEF Counts, Running, InBody
<1> QED
  BY <1>1, <1>2, <1>3 DEF FenceInv, Updates, Ordered, Waits

\* The invariant of fences is inductive: every step of user, eval_impl and workers
\* keeps it.
LEMMA FenceInvStep ==
  FenceInv /\ [Next]_vars => FenceInv'
<1> SUFFICES ASSUME FenceInv, [Next]_vars PROVE FenceInv'
  OBVIOUS
<1> USE DEF FenceInv
<1>1. Types'
  BY MainTypes, UserTypes, StreamTypes, QuiescentTypes DEF Next
<1> QED
  BY <1>1, ClosingStep, UpdatesStep, OrderedStep, CountsStep, WaitsStep

\* The invariant of fences holds in every state the engine reaches.
THEOREM FenceInvariant == Spec => []FenceInv
<1> QED
  BY FenceInvInit, FenceInvStep, PTL DEF Spec

\* The updates of a fence run in the order they were issued, so the plain
\* assignment in Fence::update never takes the value back, however many
\* evaluations and streams there are.
THEOREM FencesAdvanceHolds == Spec => FencesAdvance
<1>1. FenceInv /\ [Next]_vars
        => [\A f \in SyncIds : fenceValue'[f] >= fenceValue[f]]_vars
  BY FenceAdvances DEF FenceInv
<1> QED
  BY <1>1, FenceInvariant, PTL DEF Spec, FencesAdvance

\* A stream blocked in Fence::wait, or that will be, waits for an update that
\* has run or is queued already: no later step of eval_impl has to happen for
\* it to go on, so an exception between two entries strands no stream.
THEOREM FenceWaitsCoveredHolds == Spec => []FenceWaitsCovered
<1>1. FenceInv => FenceWaitsCovered
  <2> SUFFICES ASSUME FenceInv, NEW s \in Streams, NEW i \in DOMAIN queue[s],
                      queue[s][i].op = "fenceWait"
               PROVE  FenceCovered(queue[s][i].obj, queue[s][i].n)
    BY DEF FenceWaitsCovered
  <2> QED
    BY DEF FenceInv, Waits, GoodWait
<1> QED
  BY <1>1, FenceInvariant, PTL

-----------------------------------------------------------------------------
(* The tape *)

\* The stream of x has a fence whose count covers x.
Settled(x) == m.fenceCount[graph.stream[x]] > 0

\* x has an output group of its own before entry k, or is settled.
Ready(k, x) ==
  \/ Settled(x)
  \/ pc \in InBody /\ m.cur \in OutputsIn(graph, x)
  \/ \E j \in 1 .. k - 1 : m.tape[j] \in OutputsIn(graph, x)

\* Every fenced input of an entry is produced before it; those of the entry in
\* hand have been.
TapeOrdered ==
  pc \in Running =>
    /\ \A k \in DOMAIN m.tape :
         \A x \in ToSet(InputsOf(m.tape[k])) \cap m.needsFence : Ready(k, x)
    /\ pc \in InBody =>
         \A x \in ToSet(InputsOf(m.cur)) \cap m.needsFence : Settled(x)

\* A tape as the graph walk makes it has the producers of fenced inputs first.
LEMMA TapeStarts ==
  ASSUME Types, NEW outs, NEW async, EvalImpl(async, outs)
  PROVE  TapeOrdered'
<1>1. PICK k \in DOMAIN outs, t \in Tapes(outs) :
        m' = [NoEval EXCEPT !.async = async, !.outs = outs,
                            !.home = graph.stream[outs[k]],
                            !.tape = Append(t, Sync),
                            !.needsFence = NeedsFence(t, outs, graph.stream[outs[k]])]
  BY DEF EvalImpl
<1>2. /\ m'.tape = Append(t, Sync) /\ m'.outs = outs
      /\ m'.needsFence = NeedsFence(t, outs, graph.stream[outs[k]])
  BY <1>1 DEF NoEval
<1>3. /\ t \in Seq(Arrays) /\ IsTape(graph, Pending, outs, t)
      /\ m'.needsFence \subseteq Pending
  BY <1>2, TapesTyped
<1>4. pc' = "next" /\ graph' = graph
  BY DEF EvalImpl
<1>5. /\ DOMAIN m'.tape = 1 .. Len(t) + 1 /\ Len(t) \in Nat /\ DOMAIN t = 1 .. Len(t)
      /\ \A j \in 1 .. Len(t) : m'.tape[j] = t[j] /\ t[j] \in Arrays
      /\ m'.tape[Len(t) + 1] = Sync
  <2>1. IsSeq(t) /\ \A j \in DOMAIN t : t[j] \in Arrays
    BY <1>3, ElementOfSeq, LenProperties DEF IsSeq
  <2> QED
    BY <1>2, <2>1, AppendFacts
<1>6. ASSUME NEW i \in DOMAIN m'.tape,
             NEW x \in ToSet((InputsOf(m.tape[i]))') \cap m'.needsFence
      PROVE  \E j \in 1 .. i - 1 : m'.tape[j] \in OutputsIn(graph', x)
  <2>1. x \in Pending
    BY <1>3, <1>6
  <2>2. CASE i = Len(t) + 1
    <3>1. x \in ToSet(outs)
      BY <1>2, <1>5, <1>6, <2>2 DEF InputsOf
    <3>2. \A y \in ToSet(outs) \cap Pending :
            \E j \in 1 .. (Len(t) + 1) - 1 : t[j] \in OutputsIn(graph, y)
      BY ONLY <1>3 DEF IsTape
    <3>3. \E j \in 1 .. (Len(t) + 1) - 1 : t[j] \in OutputsIn(graph, x)
      BY <2>1, <3>1, <3>2
    <3> QED
      BY <1>4, <1>5, <2>2, <3>3
  <2>3. CASE i \in 1 .. Len(t)
    <3>1. x \in ToSet(graph.in[t[i]])
      BY <1>4, <1>5, <1>6, <2>3 DEF InputsOf, Arrays, Sync
    <3>2. \E j \in 1 .. i - 1 : t[j] \in OutputsIn(graph, x)
      BY <1>3, <1>5, <2>1, <2>3, <3>1 DEF IsTape
    <3> QED
      BY <1>4, <1>5, <2>3, <3>2
  <2> QED
    BY <1>5, <2>2, <2>3
<1> QED
  BY <1>4, <1>6 DEF TapeOrdered, Ready, InBody

\* Taking the next entry: whatever it needed from earlier entries was published.
LEMMA TapeAdvances ==
  ASSUME Types, TapeOrdered, NextEntry
  PROVE  TapeOrdered'
<1>1. /\ m.tape \in Seq(Entries) /\ m.tape # <<>> /\ m \in Locals
  BY DEF Types, Locals, NextEntry
<1>2. IsSeq(m.tape)
  BY <1>1 DEF IsSeq
<1>3. /\ Len(m.tape) \in Nat \ {0} /\ DOMAIN m.tape = 1 .. Len(m.tape)
      /\ DOMAIN Tail(m.tape) = 1 .. Len(m.tape) - 1
      /\ \A i \in 1 .. Len(m.tape) - 1 : Tail(m.tape)[i] = m.tape[i + 1]
      /\ Head(m.tape) = m.tape[1]
  BY <1>1, <1>2, TailFacts
<1>4. /\ m'.tape = Tail(m.tape) /\ m'.cur = m.tape[1] /\ m'.outs = m.outs
      /\ m'.needsFence = m.needsFence /\ m'.fenceCount = m.fenceCount
  BY <1>1, <1>3 DEF NextEntry, Locals
<1>5. pc = "next" /\ pc' = "inputs" /\ graph' = graph
  BY DEF NextEntry
<1>6. \A k \in DOMAIN m.tape :
        \A x \in ToSet(InputsOf(m.tape[k])) \cap m.needsFence :
          Settled(x) \/ \E j \in 1 .. k - 1 : m.tape[j] \in OutputsIn(graph, x)
  BY <1>5 DEF TapeOrdered, Ready, Running, InBody
<1>7. ASSUME NEW a PROVE InputsOf(a)' = InputsOf(a)
  BY <1>4, <1>5 DEF InputsOf
<1>8. ASSUME NEW x PROVE Settled(x)' = Settled(x)
  BY <1>4, <1>5 DEF Settled
<1>9. ASSUME NEW a, a = m.tape[1], NEW x \in ToSet(InputsOf(a)) \cap m.needsFence
      PROVE  Settled(x)'
  BY <1>3, <1>6, <1>8, <1>9
<1>10. ASSUME NEW k \in DOMAIN m'.tape, NEW a, a = m'.tape[k],
              NEW x \in ToSet(InputsOf(a)) \cap m.needsFence
       PROVE  Ready(k, x)'
  <2>1. k + 1 \in DOMAIN m.tape /\ a = m.tape[k + 1] /\ k \in Nat
    BY <1>3, <1>4, <1>10
  <2>2. CASE Settled(x)
    BY <1>8, <2>2 DEF Ready
  <2>3. ASSUME NEW j \in 1 .. (k + 1) - 1, m.tape[j] \in OutputsIn(graph, x)
        PROVE  Ready(k, x)'
    <3>1. CASE j = 1
      BY <1>4, <1>5, <2>3, <3>1 DEF Ready, InBody
    <3>2. CASE j # 1
      <4>1. j - 1 \in 1 .. k - 1 /\ m'.tape[j - 1] = m.tape[j]
        BY <1>3, <1>4, <1>10, <2>1, <3>2
      <4> QED
        BY <1>5, <2>3, <4>1 DEF Ready
    <3> QED
      BY <3>1, <3>2
  <2> QED
    BY <1>6, <1>10, <2>1, <2>2, <2>3
<1>11. ASSUME NEW k \in DOMAIN m'.tape,
              NEW x \in ToSet(InputsOf(m.tape[k])') \cap m'.needsFence
       PROVE  Ready(k, x)'
  BY <1>4, <1>7, <1>10, <1>11 DEF InputsOf
<1>12. ASSUME NEW x \in ToSet(InputsOf(m.cur)') \cap m'.needsFence
       PROVE  Settled(x)'
  BY <1>4, <1>5, <1>9, <1>12 DEF InputsOf
<1> QED
  BY <1>5, <1>11, <1>12 DEF TapeOrdered

\* Publishing an entry settles all of its outputs: each fenced one moves the
\* stream's count on.
LEMMA TapePublished ==
  ASSUME Types, TapeOrdered, Publish
  PROVE  TapeOrdered'
<1> DEFINE s == StreamOf(m.cur)
<1>1. /\ Fenced \in Nat /\ s \in Streams
      /\ m'.fenceCount = [m.fenceCount EXCEPT ![s] = @ + Fenced]
  BY PublishAdds
<1>2. /\ m \in Locals /\ IsGraph(graph) /\ graph' = graph
      /\ pc \in Running /\ pc' = "next"
  BY DEF Publish, Types, Running, InBody
<1>3. /\ m'.tape = m.tape /\ m'.needsFence = m.needsFence
      /\ m'.outs \in {<<>>, m.outs}
  BY <1>2 DEF Publish, Locals
<1>4. m.fenceCount \in [Streams -> Nat] /\ m.needsFence \subseteq Arrays
      /\ m.cur \in Entries
  BY <1>2 DEF Locals
<1>5. ASSUME NEW x \in m.needsFence, m.cur \in OutputsIn(graph, x)
      PROVE  graph.stream[x] = s /\ Fenced > 0
  <2>1. /\ x \in Arrays /\ m.cur \in Arrays
        /\ x \in {m.cur} \cup graph.sib[m.cur] /\ graph.stream[x] = graph.stream[m.cur]
    BY <1>2, <1>4, <1>5 DEF OutputsIn, IsGraph
  <2>2. m.cur # Sync
    BY <2>1 DEF Arrays, Sync
  <2>3. x \in Outputs(m.cur) \cap m.needsFence /\ graph.stream[x] = s
    BY <1>5, <2>1, <2>2 DEF Outputs, OutputsIn, StreamOf
  <2>4. IsFiniteSet(Outputs(m.cur) \cap m.needsFence)
    BY <1>2, <1>4, OutputsFacts, FS_Intersection
  <2>5. Fenced # 0
    BY <2>3, <2>4, FS_EmptySet DEF Fenced
  <2> QED
    BY <1>1, <2>3, <2>5
<1> HIDE DEF s
<1>6. ASSUME NEW x \in m.needsFence,
             Settled(x) \/ m.cur \in OutputsIn(graph, x)
      PROVE  Settled(x)'
  <2>1. graph.stream[x] \in Streams
    BY <1>2, <1>4, <1>6 DEF IsGraph
  <2>2. /\ m.fenceCount[graph.stream[x]] \in Nat
        /\ m'.fenceCount[graph.stream[x]] >= m.fenceCount[graph.stream[x]]
        /\ graph.stream[x] = s =>
             m'.fenceCount[graph.stream[x]] = m.fenceCount[graph.stream[x]] + Fenced
    BY <1>1, <1>4, <2>1
  <2>3. CASE Settled(x)
    BY <1>1, <1>2, <1>4, <2>1, <2>2, <2>3 DEF Settled
  <2>4. CASE m.cur \in OutputsIn(graph, x)
    BY <1>1, <1>2, <1>5, <2>2, <2>4 DEF Settled
  <2> QED
    BY <1>6, <2>3, <2>4
<1>7. ASSUME NEW k \in DOMAIN m.tape,
             NEW x \in ToSet(InputsOf(m.tape[k])) \cap m.needsFence
      PROVE  Ready(k, x)'
  <2>1. Ready(k, x)
    BY <1>2, <1>7 DEF TapeOrdered
  <2>2. CASE Settled(x) \/ m.cur \in OutputsIn(graph, x)
    BY <1>6, <1>7, <2>2 DEF Ready
  <2>3. CASE \E j \in 1 .. k - 1 : m.tape[j] \in OutputsIn(graph, x)
    BY <1>2, <1>3, <2>3 DEF Ready
  <2> QED
    BY <2>1, <2>2, <2>3 DEF Ready
<1>8. ASSUME NEW a, NEW x \in ToSet(InputsOf(a)') PROVE x \in ToSet(InputsOf(a))
  <2>1. CASE a # Sync
    BY <1>2, <1>8, <2>1 DEF InputsOf
  <2>2. CASE a = Sync /\ m'.outs = m.outs
    BY <1>8, <2>2 DEF InputsOf
  <2>3. CASE a = Sync /\ m'.outs = <<>>
    <3>1. x \in ToSet(<<>>)
      BY <1>8, <2>3 DEF InputsOf
    <3> QED
      BY <3>1 DEF ToSet
  <2> QED
    BY <1>3, <2>1, <2>2, <2>3
<1>9. ASSUME NEW k \in DOMAIN m'.tape, NEW a, a = m'.tape[k],
             NEW x \in ToSet(InputsOf(a)') \cap m'.needsFence
      PROVE  Ready(k, x)'
  BY <1>3, <1>7, <1>8, <1>9
<1> QED
  BY <1>2, <1>9 DEF TapeOrdered, InBody, InputsOf

\* Steps in the middle of the loop's body leave the order of the tape alone.
LEMMA TapeKept ==
  ASSUME TapeOrdered, graph' = graph, pc' \in Running => pc \in InBody /\ pc' \in InBody,
         /\ m'.tape = m.tape /\ m'.cur = m.cur /\ m'.outs = m.outs
         /\ m'.needsFence = m.needsFence /\ m'.fenceCount = m.fenceCount
  PROVE  TapeOrdered'
BY DEF TapeOrdered, Ready, Settled, InputsOf, Running

\* Every step keeps the tape in order.
LEMMA TapeOrderedStep ==
  ASSUME Types, Closing, TapeOrdered, Next \/ UNCHANGED vars
  PROVE  TapeOrdered'
<1>0. m \in Locals
  BY DEF Types
<1>1. ASSUME NEW async, NEW outs, EvalImpl(async, outs) PROVE TapeOrdered'
  BY <1>1, TapeStarts
<1>2. CASE NextEntry
  BY <1>2, TapeAdvances
<1>3. CASE Publish
  BY <1>3, TapePublished
<1>4. CASE \/ WaitForInput \/ EvalArray \/ Throttle \/ WaitForOne
           \/ OneCompleted \/ CheckMemory
  <2>1. graph' = graph /\ pc \in InBody /\ pc' \in InBody
    BY <1>4 DEF WaitForInput, EvalArray, Throttle, WaitForOne, OneCompleted,
         CheckMemory, OnlyMain, InBody
  <2>2. /\ m'.tape = m.tape /\ m'.cur = m.cur /\ m'.outs = m.outs
        /\ m'.needsFence = m.needsFence /\ m'.fenceCount = m.fenceCount
    BY <1>0, <1>4 DEF WaitForInput, EvalArray, Throttle, WaitForOne,
         OneCompleted, CheckMemory, Locals
  <2> QED
    BY <2>1, <2>2, TapeKept
<1>5. CASE \/ \E a \in Arrays : Await(a) \/ Drop(a)
           \/ EvalThrows \/ EndEval \/ EvalReturns \/ Awaited
  <2>1. pc' \notin Running
    BY <1>5 DEF Await, Drop, EvalThrows, EndEval, EvalReturns, Awaited, Running,
         InBody
  <2> QED
    BY <2>1 DEF TapeOrdered
<1>6. CASE Quiescent \/ UNCHANGED vars \/ \E s \in Streams : RunStream(s)
  <2>1. UNCHANGED <<graph, pc, m>>
    BY <1>6, Working DEF Quiescent, vars
  <2> QED
    BY <2>1 DEF TapeOrdered, Ready, Settled, InputsOf
<1> QED
  BY <1>1, <1>2, <1>3, <1>4, <1>5, <1>6 DEF Next, User, Main

\* eval_impl never calls wait on a fence it has not created: an input that
\* needs one has been published, by itself or through a sibling, before its
\* consumer's turn on the tape.
THEOREM FenceExistsHolds == Spec => []FenceExists
<1>1. Init => TapeOrdered
  BY DEF Init, TapeOrdered, Running, InBody
<1>2. FenceInv /\ TapeOrdered /\ [Next]_vars => TapeOrdered'
  BY TapeOrderedStep DEF FenceInv
<1>3. FenceInv /\ TapeOrdered => FenceExists
  <2> SUFFICES ASSUME FenceInv, TapeOrdered, pc = "inputs",
                      m.i <= Len(InputsOf(m.cur)),
                      InputsOf(m.cur)[m.i] \in m.needsFence
               PROVE  m.fenceCount[graph.stream[InputsOf(m.cur)[m.i]]] > 0
    BY DEF FenceExists
  <2>1. InputsOf(m.cur) \in Seq(Arrays) /\ m.i \in Nat \ {0}
    BY InputsTyped DEF FenceInv, Types, Locals
  <2>2. m.i \in DOMAIN InputsOf(m.cur)
    BY <2>1, LenProperties
  <2>3. InputsOf(m.cur)[m.i] \in ToSet(InputsOf(m.cur))
    BY <2>2 DEF ToSet
  <2> QED
    BY <2>3 DEF TapeOrdered, Settled, Running, InBody
<1> QED
  BY <1>1, <1>2, <1>3, FenceInvariant, PTL DEF Spec

-----------------------------------------------------------------------------
(* The counter of active tasks *)

\* Pairs of a stream and a member of its set.
Pairs(W) == UNION {{<<s, i>> : i \in W[s]} : s \in Streams}

\* Membership, without the union.
LEMMA PairsFacts ==
  ASSUME NEW W
  PROVE  /\ \A s \in Streams : \A i : <<s, i>> \in Pairs(W) <=> i \in W[s]
         /\ \A p \in Pairs(W) : p[1] \in Streams /\ p[2] \in W[p[1]] /\ p = <<p[1], p[2]>>
BY DEF Pairs

\* It only depends on what there is for each stream.
LEMMA PairsSame ==
  ASSUME NEW W, NEW V, \A s \in Streams : V[s] = W[s]
  PROVE  Pairs(V) = Pairs(W)
BY DEF Pairs

\* One task more on one stream is one pair more.
LEMMA PairsAdd ==
  ASSUME NEW W, NEW V, NEW s \in Streams, NEW k, V[s] = W[s] \cup {k}, k \notin W[s],
         \A r \in Streams : r # s => V[r] = W[r], IsFiniteSet(Pairs(W))
  PROVE  IsFiniteSet(Pairs(V)) /\ Cardinality(Pairs(V)) = Cardinality(Pairs(W)) + 1
<1>1. Pairs(V) = Pairs(W) \cup {<<s, k>>}
  BY DEF Pairs
<1>2. <<s, k>> \notin Pairs(W)
  BY PairsFacts
<1>3. ASSUME NEW S, IsFiniteSet(S), NEW p, p \notin S
      PROVE  IsFiniteSet(S \cup {p}) /\ Cardinality(S \cup {p}) = Cardinality(S) + 1
  BY <1>3, FS_AddElement
<1> QED
  BY <1>1, <1>2, <1>3

\* One task less on one stream is one pair less.
LEMMA PairsRemove ==
  ASSUME NEW W, NEW V, NEW s \in Streams, NEW k, V[s] = W[s] \ {k},
         \A r \in Streams : r # s => V[r] = W[r], IsFiniteSet(Pairs(W))
  PROVE  /\ IsFiniteSet(Pairs(V))
         /\ Cardinality(Pairs(V)) = IF k \in W[s] THEN Cardinality(Pairs(W)) - 1
                                    ELSE Cardinality(Pairs(W))
<1>1. Pairs(V) = Pairs(W) \ {<<s, k>>}
  BY DEF Pairs
<1>2. <<s, k>> \in Pairs(W) <=> k \in W[s]
  BY PairsFacts
<1> QED
  BY <1>1, <1>2, FS_RemoveElement

\* Tail moves every task of one stream a place forward: as many pairs.
LEMMA PairsShift ==
  ASSUME NEW W, NEW V, NEW s \in Streams, W[s] \subseteq Nat,
         \A j : j \in V[s] <=> j \in Nat /\ j + 1 \in W[s],
         0 \notin W[s],
         \A r \in Streams : r # s => V[r] = W[r], IsFiniteSet(Pairs(W))
  PROVE  IsFiniteSet(Pairs(V)) /\ Cardinality(Pairs(V)) = Cardinality(Pairs(W))
<1> DEFINE f == [p \in Pairs(W) |-> IF p[1] = s THEN <<s, p[2] - 1>> ELSE p]
<1>1. ASSUME NEW p \in Pairs(W) PROVE f[p] \in Pairs(V)
  <2>1. p[1] \in Streams /\ p[2] \in W[p[1]] /\ p = <<p[1], p[2]>>
    BY PairsFacts
  <2>2. CASE p[1] = s
    <3>1. p[2] \in Nat \ {0} /\ p[2] - 1 \in V[s]
      BY <2>1, <2>2
    <3> QED
      BY <2>2, <3>1, PairsFacts
  <2>3. CASE p[1] # s
    BY <2>1, <2>3, PairsFacts
  <2> QED
    BY <2>2, <2>3
<1>2. ASSUME NEW p \in Pairs(W), NEW q \in Pairs(W), f[p] = f[q] PROVE p = q
  <2>1. /\ p[1] \in Streams /\ p[2] \in W[p[1]] /\ p = <<p[1], p[2]>>
        /\ q[1] \in Streams /\ q[2] \in W[q[1]] /\ q = <<q[1], q[2]>>
    BY PairsFacts
  <2>2. f[p][1] = p[1] /\ f[q][1] = q[1]
    BY <2>1
  <2>3. p[1] = q[1]
    BY <1>2, <2>2
  <2>4. CASE p[1] = s
    <3>1. f[p] = <<s, p[2] - 1>> /\ f[q] = <<s, q[2] - 1>>
      BY <2>3, <2>4
    <3>2. p[2] - 1 = q[2] - 1
      BY <1>2, <3>1
    <3>3. p[2] \in Nat /\ q[2] \in Nat
      BY <2>1, <2>3, <2>4
    <3>4. p[2] = q[2]
      BY <3>2, <3>3
    <3> QED
      BY <2>1, <2>3, <3>4
  <2>5. CASE p[1] # s
    BY <1>2, <2>3, <2>5
  <2> QED
    BY <2>4, <2>5
<1>3. ASSUME NEW q \in Pairs(V) PROVE \E p \in Pairs(W) : f[p] = q
  <2>1. q[1] \in Streams /\ q[2] \in V[q[1]] /\ q = <<q[1], q[2]>>
    BY PairsFacts
  <2>2. CASE q[1] = s
    <3>1. q[2] \in Nat /\ q[2] + 1 \in W[s]
      BY <2>1, <2>2
    <3>2. <<s, q[2] + 1>> \in Pairs(W)
      BY <3>1, PairsFacts
    <3>3. f[<<s, q[2] + 1>>] = <<s, (q[2] + 1) - 1>>
      BY <3>2
    <3>4. (q[2] + 1) - 1 = q[2]
      BY <3>1
    <3> QED
      BY <2>1, <2>2, <3>2, <3>3, <3>4
  <2>3. CASE q[1] # s
    <3>1. q[2] \in W[q[1]]
      BY <2>1, <2>3
    <3>2. q \in Pairs(W)
      BY <2>1, <3>1, PairsFacts
    <3> QED
      BY <2>3, <3>2
  <2> QED
    BY <2>2, <2>3
<1>4. f \in [Pairs(W) -> Pairs(V)]
  BY <1>1
<1> HIDE DEF f
<1>5. f \in Injection(Pairs(W), Pairs(V))
  BY <1>2, <1>4 DEF Injection, IsInjective
<1>6. f \in Surjection(Pairs(W), Pairs(V))
  BY <1>3, <1>4 DEF Surjection
<1>7. ExistsBijection(Pairs(W), Pairs(V))
  BY <1>5, <1>6 DEF ExistsBijection, Bijection
<1> QED
  BY <1>7, FS_Bijection

\* The counted tasks of a queue that have not run.
NotRun ==
  [s \in Streams |-> {i \in DOMAIN queue[s] :
                        queue[s][i].counted /\ (i = 1 => ~closing[s])}]

\* The counter is their number.  Only computations and holds are ever counted.
Counted ==
  /\ numOps \in [Streams -> 0 .. DISPATCHES_PER_TASK - 1]
  /\ \A s \in Streams : \A i \in DOMAIN queue[s] :
       queue[s][i].counted => queue[s][i].op \in {"compute", "hold"}
  /\ IsFiniteSet(Pairs(NotRun)) /\ nActive = Cardinality(Pairs(NotRun))

\* The throttle lets the user's thread go on to a next entry only below the limit.
Limited ==
  /\ nActive <= MAX_ACTIVE_TASKS + 1
  /\ pc \in {"idle", "next", "inputs", "memory", "publish", "sync", "await"} =>
       nActive <= MAX_ACTIVE_TASKS
  /\ pc = "waiting" => m.nOld <= MAX_ACTIVE_TASKS + 1

\* Membership in NotRun.
LEMMA NotRunFacts ==
  ASSUME Types
  PROVE  \A s \in Streams :
           /\ NotRun[s] \subseteq Nat /\ 0 \notin NotRun[s]
           /\ \A i : i \in NotRun[s] <=>
                /\ i \in DOMAIN queue[s] /\ queue[s][i].counted
                /\ i = 1 => ~closing[s]
<1> SUFFICES ASSUME NEW s \in Streams
             PROVE  NotRun[s] \subseteq Nat /\ 0 \notin NotRun[s]
  BY DEF NotRun
<1>1. IsSeq(queue[s])
  BY DEF Types
<1>2. \A q : IsSeq(q) => DOMAIN q = 1 .. Len(q) /\ Len(q) \in Nat
  BY ConcatFacts
<1>3. DOMAIN queue[s] = 1 .. Len(queue[s]) /\ Len(queue[s]) \in Nat
  BY <1>1, <1>2
<1> QED
  BY <1>3 DEF NotRun

\* A worker has run the task at the head, and takes it off the queue.
LEMMA PopCounts ==
  ASSUME Types, Closing, Counted, NEW s \in Streams, queue[s] # <<>>, PopTask(s),
         closing' = [closing EXCEPT ![s] = FALSE]
  PROVE  /\ IsFiniteSet(Pairs(NotRun')) /\ Cardinality(Pairs(NotRun')) \in Nat
         /\ Cardinality(Pairs(NotRun')) =
              IF Head(queue[s]).counted /\ ~closing[s] THEN nActive - 1 ELSE nActive
         /\ \A r \in Streams : \A i \in DOMAIN queue'[r] :
              queue'[r][i].counted => queue'[r][i].op \in {"compute", "hold"}
<1>1. /\ \A r \in Streams : r # s => queue'[r] = queue[r]
      /\ Len(queue[s]) \in Nat \ {0} /\ DOMAIN queue[s] = 1 .. Len(queue[s])
      /\ DOMAIN queue'[s] = 1 .. Len(queue[s]) - 1
      /\ \A i \in 1 .. Len(queue[s]) - 1 : queue'[s][i] = queue[s][i + 1]
      /\ Head(queue[s]) = queue[s][1]
  BY Pops
<1>2. closing'[s] = FALSE /\ \A r \in Streams : r # s => closing'[r] = closing[r]
  BY DEF Closing
<1>3. PICK W : W = [r \in Streams |-> IF r = s THEN NotRun[s] \ {1} ELSE NotRun[r]]
  OBVIOUS
<1>4. PICK V : V = NotRun'
  OBVIOUS
<1>5. /\ W[s] = NotRun[s] \ {1} /\ \A r \in Streams : r # s => W[r] = NotRun[r]
  BY <1>3
<1>6. /\ IsFiniteSet(Pairs(W))
      /\ Cardinality(Pairs(W)) = IF 1 \in NotRun[s] THEN nActive - 1 ELSE nActive
  <2>1. IsFiniteSet(Pairs(NotRun)) /\ nActive = Cardinality(Pairs(NotRun))
    BY DEF Counted
  <2>2. W[s] = NotRun[s] \ {1}
    BY <1>5
  <2>3. \A r \in Streams : r # s => W[r] = NotRun[r]
    BY <1>5
  <2>4. /\ IsFiniteSet(Pairs(W))
        /\ Cardinality(Pairs(W)) = IF 1 \in NotRun[s] THEN Cardinality(Pairs(NotRun)) - 1
                                   ELSE Cardinality(Pairs(NotRun))
    BY <2>1, <2>2, <2>3, PairsRemove
  <2> QED
    BY <2>1, <2>4
<1>7. 1 \in NotRun[s] <=> Head(queue[s]).counted /\ ~closing[s]
  BY <1>1, NotRunFacts
<1>8. \A r \in Streams : \A i : i \in V[r] <=>
        /\ i \in DOMAIN queue'[r] /\ queue'[r][i].counted
        /\ i = 1 => ~closing'[r]
  BY <1>4 DEF NotRun
<1>9. ASSUME NEW r \in Streams, r # s PROVE V[r] = W[r]
  <2>1. \A i : i \in V[r] <=> i \in NotRun[r]
    BY <1>1, <1>2, <1>8, <1>9, NotRunFacts
  <2> QED
    BY <1>5, <1>9, <2>1
<1>10. \A j : j \in V[s] <=> j \in Nat /\ j + 1 \in W[s]
  <2> TAKE j
  <2>1. ASSUME j \in V[s] PROVE j \in Nat /\ j + 1 \in W[s]
    <3>1. j \in 1 .. Len(queue[s]) - 1 /\ queue[s][j + 1].counted
      BY <1>1, <1>8, <2>1
    <3> QED
      BY <1>1, <1>5, <3>1, NotRunFacts
  <2>2. ASSUME j \in Nat, j + 1 \in W[s] PROVE j \in V[s]
    <3>1. j + 1 \in NotRun[s] /\ j + 1 # 1
      BY <1>5, <2>2
    <3>2. j + 1 \in 1 .. Len(queue[s]) /\ queue[s][j + 1].counted
      BY <1>1, <3>1, NotRunFacts
    <3>3. j \in 1 .. Len(queue[s]) - 1
      BY <1>1, <2>2, <3>1, <3>2
    <3> QED
      BY <1>1, <1>2, <1>8, <3>2, <3>3
  <2> QED
    BY <2>1, <2>2
<1>11. W[s] \subseteq Nat /\ 0 \notin W[s]
  BY <1>5, NotRunFacts
<1>12. IsFiniteSet(Pairs(V)) /\ Cardinality(Pairs(V)) = Cardinality(Pairs(W))
  BY <1>6, <1>9, <1>10, <1>11, PairsShift
<1>13. ASSUME NEW r \in Streams, NEW i \in DOMAIN queue'[r], queue'[r][i].counted
       PROVE  queue'[r][i].op \in {"compute", "hold"}
  <2>1. CASE r = s
    <3>1. i + 1 \in DOMAIN queue[s] /\ queue'[s][i] = queue[s][i + 1]
      BY <1>1, <1>13, <2>1
    <3> QED
      BY <1>13, <2>1, <3>1 DEF Counted
  <2>2. CASE r # s
    BY <1>1, <1>13, <2>2 DEF Counted
  <2> QED
    BY <2>1, <2>2
<1>14. Cardinality(Pairs(V)) \in Nat
  BY <1>12, FS_CardinalityType
<1> QED
  BY <1>4, <1>6, <1>7, <1>12, <1>13, <1>14

\* A step of a worker.
LEMMA WorkerCounts ==
  ASSUME Types, Closing, Counted, NEW s \in Streams, RunStream(s)
  PROVE  Counted' /\ nActive' <= nActive /\ nActive' \in Int
<1>1. nActive \in Int /\ closing \in [Streams -> BOOLEAN]
  BY DEF Types, Closing
<1>2. UNCHANGED numOps
  BY DEF RunStream, RunCompute, RunHold, ReleaseBuffers, RunFenceWait,
       RunFenceUpdate, RunEventWait, RunEventSignal
<1>3. CASE RunHold(s)
  <2>1. /\ queue[s] # <<>> /\ ~closing[s] /\ UNCHANGED queue
        /\ closing' = [closing EXCEPT ![s] = TRUE]
        /\ nActive' = IF Head(queue[s]).counted THEN nActive - 1 ELSE nActive
    BY <1>3 DEF RunHold, Runnable, NotifyCompletion
  <2>2. closing'[s] = TRUE /\ \A r \in Streams : r # s => closing'[r] = closing[r]
    BY <1>1, <2>1
  <2>3. PICK V : V = NotRun'
    OBVIOUS
  <2>4. \A r \in Streams : \A i : i \in V[r] <=>
          /\ i \in DOMAIN queue[r] /\ queue[r][i].counted
          /\ i = 1 => ~closing'[r]
    BY <2>1, <2>3 DEF NotRun
  <2>5. V[s] = NotRun[s] \ {1} /\ \A r \in Streams : r # s => V[r] = NotRun[r]
    <3>1. \A i : i \in V[s] <=> i \in NotRun[s] \ {1}
      BY <2>1, <2>2, <2>4, NotRunFacts
    <3>2. ASSUME NEW r \in Streams, r # s PROVE \A i : i \in V[r] <=> i \in NotRun[r]
      BY <2>2, <2>4, <3>2, NotRunFacts
    <3> QED
      BY <3>1, <3>2
  <2>6. 1 \in NotRun[s] <=> Head(queue[s]).counted
    <3>1. IsSeq(queue[s])
      BY DEF Types
    <3>2. \A q : IsSeq(q) /\ q # <<>> => Head(q) = q[1] /\ 1 \in DOMAIN q
      <4> TAKE q
      <4> HAVE IsSeq(q) /\ q # <<>>
      <4>1. Len(q) \in Nat \ {0} /\ DOMAIN q = 1 .. Len(q) /\ Head(q) = q[1]
        BY TailFacts
      <4> QED
        BY <4>1
    <3> QED
      BY <2>1, <3>1, <3>2, NotRunFacts
  <2>7. IsFiniteSet(Pairs(V)) /\ Cardinality(Pairs(V)) = nActive'
    <3>1. IsFiniteSet(Pairs(NotRun)) /\ nActive = Cardinality(Pairs(NotRun))
      BY DEF Counted
    <3>2. V[s] = NotRun[s] \ {1}
      BY <2>5
    <3>3. \A r \in Streams : r # s => V[r] = NotRun[r]
      BY <2>5
    <3>4. /\ IsFiniteSet(Pairs(V))
          /\ Cardinality(Pairs(V)) = IF 1 \in NotRun[s] THEN Cardinality(Pairs(NotRun)) - 1
                                     ELSE Cardinality(Pairs(NotRun))
      BY <3>1, <3>2, <3>3, PairsRemove
    <3> QED
      BY <2>1, <2>6, <3>1, <3>4
  <2> QED
    BY <1>1, <1>2, <2>1, <2>3, <2>7 DEF Counted
<1>4. CASE ~RunHold(s)
  <2>1. PopTask(s) /\ queue[s] # <<>>
    BY <1>4, Working
  <2>2. closing' = [closing EXCEPT ![s] = FALSE]
    <3>1. CASE ReleaseBuffers(s)
      BY <3>1 DEF ReleaseBuffers
    <3>2. CASE ~ReleaseBuffers(s)
      <4>1. UNCHANGED closing /\ ~closing[s]
        BY <1>4, <3>2 DEF RunStream, RunCompute, RunFenceWait,
             RunFenceUpdate, RunEventWait, RunEventSignal, Runnable
      <4> QED
        BY <1>1, <4>1
    <3> QED
      BY <3>1, <3>2
  <2>3. nActive' = IF Head(queue[s]).counted /\ ~closing[s] THEN nActive - 1 ELSE nActive
    <3>1. CASE RunCompute(s)
      BY <3>1 DEF RunCompute, Runnable, NotifyCompletion
    <3>2. CASE ReleaseBuffers(s)
      BY <3>2 DEF ReleaseBuffers
    <3>3. CASE RunFenceWait(s) \/ RunFenceUpdate(s) \/ RunEventWait(s) \/ RunEventSignal(s)
      <4>1. /\ UNCHANGED nActive
            /\ Head(queue[s]).op \in {"fenceWait", "fenceUpdate", "eventWait", "eventSignal"}
        BY <3>3 DEF RunFenceWait, RunFenceUpdate, RunEventWait, RunEventSignal, Runnable
      <4>2. Head(queue[s]) = queue[s][1] /\ 1 \in DOMAIN queue[s]
        BY <2>1, Pops
      <4>3. ~Head(queue[s]).counted
        BY <4>1, <4>2 DEF Counted
      <4> QED
        BY <4>1, <4>3
    <3> QED
      BY <1>4, <3>1, <3>2, <3>3 DEF RunStream
  <2>4. PICK V : V = NotRun'
    OBVIOUS
  <2>5. /\ IsFiniteSet(Pairs(V)) /\ Cardinality(Pairs(V)) \in Nat
        /\ Cardinality(Pairs(V)) =
             IF Head(queue[s]).counted /\ ~closing[s] THEN nActive - 1 ELSE nActive
        /\ \A r \in Streams : \A i \in DOMAIN queue'[r] :
             queue'[r][i].counted => queue'[r][i].op \in {"compute", "hold"}
    BY <2>1, <2>2, <2>4, PopCounts
  <2> QED
    BY <1>1, <1>2, <2>3, <2>4, <2>5 DEF Counted
<1> QED
  BY <1>3, <1>4

\* Tasks that are enqueued past the encoder are not counted.
LEMMA PlainTasks ==
  ASSUME NEW x, NEW y
  PROVE  /\ FenceWait(x, y).counted = FALSE /\ FenceUpdate(x, y).counted = FALSE
         /\ EventWait(x).counted = FALSE /\ EventSignal(x).counted = FALSE
BY DEF FenceWait, FenceUpdate, EventWait, EventSignal, Task

\* Such tasks do not change what is counted.
LEMMA UncountedGrowth ==
  ASSUME Types, Counted, Grows, UNCHANGED <<closing, numOps, nActive>>,
         \A s \in Streams : \A i \in New(s) : ~queue'[s][i].counted
  PROVE  Counted'
<1>1. PICK V : V = NotRun'
  OBVIOUS
<1>2. \A s \in Streams : \A i : i \in V[s] <=>
        /\ i \in DOMAIN queue'[s] /\ queue'[s][i].counted
        /\ i = 1 => ~closing[s]
  BY <1>1 DEF NotRun
<1>3. ASSUME NEW s \in Streams PROVE V[s] = NotRun[s]
  <2>1. \A i : i \in V[s] <=> i \in NotRun[s]
    BY <1>2, NotRunFacts, GrowsFacts
  <2> QED
    BY <2>1
<1>4. Pairs(V) = Pairs(NotRun)
  BY <1>3, PairsSame
<1>5. ASSUME NEW s \in Streams, NEW i \in DOMAIN queue'[s], queue'[s][i].counted
      PROVE  queue'[s][i].op \in {"compute", "hold"}
  <2>1. i \in DOMAIN queue[s] /\ queue'[s][i] = queue[s][i]
    BY <1>5, GrowsFacts
  <2> QED
    BY <1>5, <2>1 DEF Counted
<1> QED
  BY <1>1, <1>4, <1>5 DEF Counted

\* One number in DISPATCHES_PER_TASK is a multiple of it, and two dispatches in a
\* row are at most two numbers.
LEMMA OneInTwo ==
  ASSUME NEW D \in Nat \ {0, 1}, NEW n \in 0 .. D - 1
  PROVE  /\ ~((n + 1) % D = 0 /\ (n + 2) % D = 0)
         /\ (n + 1) % D \in 0 .. D - 1 /\ (n + 2) % D \in 0 .. D - 1
OBVIOUS

\* The task with the number i from now on is one that the encoder counts.
Due(s, i) == (numOps[s] + i) % DISPATCHES_PER_TASK = 0

\* n tasks ts go to stream s with the numbers the encoder gives them.
Numbered(s, ts, n) ==
  /\ n \in {1, 2} /\ IsSeq(ts) /\ Enqueue(s, ts) /\ Len(ts) = n
  /\ \A i \in 1 .. n : ts[i].op \in {"compute", "hold"} /\ (ts[i].counted <=> Due(s, i))
  /\ numOps' = [numOps EXCEPT ![s] = (@ + n) % DISPATCHES_PER_TASK]
  /\ nActive' = nActive + Cardinality({i \in 1 .. n : Due(s, i)})

\* What cpu::eval adds.
LEMMA DispatchNumbers ==
  ASSUME EvalArray
  PROVE  \E ts, n : Numbered(StreamOf(m.cur), ts, n)
<1> DEFINE a == m.cur
           s == StreamOf(a)
           place == IF a = Sync THEN buf ELSE Place(a)
           hold == Hold(HeldBuffers(a, place))
           tasks == IF a = Sync \/ graph.kind[a] = "views" THEN <<hold>>
                    ELSE <<ComputeTask(a, place), hold>>
           due(i) == (numOps[s] + i) % DISPATCHES_PER_TASK = 0
           ts == [i \in DOMAIN tasks |-> [tasks[i] EXCEPT !.counted = due(i)]]
<1>1. /\ Enqueue(s, ts)
      /\ numOps' = [numOps EXCEPT ![s] = (@ + Len(tasks)) % DISPATCHES_PER_TASK]
      /\ nActive' = nActive + Cardinality({i \in DOMAIN tasks : due(i)})
  BY DEF EvalArray, Dispatch
<1>2. /\ hold.op = "hold" /\ ComputeTask(a, place).op = "compute"
      /\ {"op", "counted"} \subseteq DOMAIN hold
      /\ {"op", "counted"} \subseteq DOMAIN ComputeTask(a, place)
  BY DEF ComputeTask, Hold, Compute, Task
<1>3. \E n \in {1, 2} : DOMAIN tasks = 1 .. n /\ Len(tasks) = n
  <2>1. DOMAIN <<hold>> = 1 .. 1 /\ DOMAIN <<ComputeTask(a, place), hold>> = 1 .. 2
    OBVIOUS
  <2>2. Len(<<hold>>) = 1 /\ Len(<<ComputeTask(a, place), hold>>) = 2
    OBVIOUS
  <2> QED
    BY <2>1, <2>2
<1>4. \A i \in DOMAIN tasks : tasks[i] \in {hold, ComputeTask(a, place)}
  OBVIOUS
<1> HIDE DEF tasks, hold, due
<1>5. \A i \in DOMAIN ts : ts[i].op \in {"compute", "hold"} /\ ts[i].counted = due(i)
  BY <1>2, <1>4
<1>6. PICK n \in {1, 2} : DOMAIN tasks = 1 .. n /\ Len(tasks) = n
  BY <1>3
<1>7. IsSeq(ts) /\ Len(ts) = n
  BY <1>6, MappedSeq
<1>8. {i \in DOMAIN tasks : due(i)} = {i \in 1 .. n : due(i)}
  BY <1>6
<1>9. \A i \in 1 .. n : ts[i].op \in {"compute", "hold"} /\ (ts[i].counted <=> due(i))
  BY <1>5, <1>6
<1> HIDE DEF ts
<1>10. Numbered(s, ts, n)
  BY <1>1, <1>6, <1>7, <1>8, <1>9 DEF Numbered, Due, due
<1> QED
  BY <1>10

\* cpu::eval raises the counter at most by one, by what it adds to the queue.
LEMMA DispatchCounts ==
  ASSUME Types, Closing, Counted, EvalArray
  PROVE  Counted' /\ nActive' \in Int /\ nActive' <= nActive + 1
<1> DEFINE D == DISPATCHES_PER_TASK
<1>1. PICK s \in Streams : s = StreamOf(m.cur)
  BY StreamOfTyped DEF Types, Locals
<1> DEFINE due(i) == Due(s, i)
<1>2. PICK ts, n :
        /\ n \in {1, 2} /\ IsSeq(ts) /\ Enqueue(s, ts) /\ Len(ts) = n
        /\ \A i \in 1 .. n : ts[i].op \in {"compute", "hold"} /\ (ts[i].counted <=> due(i))
        /\ numOps' = [numOps EXCEPT ![s] = (@ + n) % D]
        /\ nActive' = nActive + Cardinality({i \in 1 .. n : due(i)})
  <2>1. \E ts, n : Numbered(s, ts, n)
    BY <1>1, DispatchNumbers
  <2> QED
    BY <2>1 DEF Numbered
<1>3. D \in Nat \ {0, 1} /\ numOps[s] \in 0 .. D - 1
  BY AsyncEvalAssumption DEF Counted
<1>4. /\ ~(due(1) /\ due(2))
      /\ (numOps[s] + n) % D \in 0 .. D - 1
  BY <1>2, <1>3, OneInTwo DEF Due
<1>5. numOps' \in [Streams -> 0 .. D - 1]
  BY <1>2, <1>4 DEF Counted
<1> HIDE DEF due
<1>6. /\ \A r \in Streams : r # s => queue'[r] = queue[r]
      /\ Len(queue[s]) \in Nat /\ DOMAIN queue[s] = 1 .. Len(queue[s])
      /\ DOMAIN queue'[s] = 1 .. Len(queue[s]) + n
      /\ \A i \in 1 .. Len(queue[s]) : queue'[s][i] = queue[s][i]
      /\ \A i \in 1 .. n : queue'[s][Len(queue[s]) + i] = ts[i]
  BY <1>2, Adds
<1>7. PICK l \in Nat : l = Len(queue[s])
  BY <1>6
<1>8. UNCHANGED closing /\ nActive \in Int /\ (closing[s] => l # 0)
  <2>1. IsSeq(queue[s]) /\ (closing[s] => queue[s] # <<>>)
    BY DEF Types, Closing
  <2>2. \A q : IsSeq(q) /\ q # <<>> => Len(q) # 0
    BY TailFacts
  <2> QED
    BY <1>7, <2>1, <2>2 DEF EvalArray, Types
<1>9. PICK V : V = NotRun'
  OBVIOUS
<1>10. \A r \in Streams : \A i : i \in V[r] <=>
         /\ i \in DOMAIN queue'[r] /\ queue'[r][i].counted
         /\ i = 1 => ~closing[r]
  BY <1>8, <1>9 DEF NotRun
<1>11. \A r \in Streams : r # s => V[r] = NotRun[r]
  <2> SUFFICES ASSUME NEW r \in Streams, r # s PROVE \A i : i \in V[r] <=> i \in NotRun[r]
    OBVIOUS
  <2> QED
    BY <1>6, <1>10, NotRunFacts
<1>12. \A i : i \in V[s] <=> i \in NotRun[s] \/ (i - l \in 1 .. n /\ i \in Nat /\ due(i - l))
  <2> TAKE i
  <2>1. i \in DOMAIN queue'[s] <=> i \in 1 .. l \/ (i - l \in 1 .. n /\ i \in Nat)
    <3>1. n \in Nat /\ DOMAIN queue'[s] = 1 .. l + n
      BY <1>2, <1>6, <1>7
    <3> QED
      BY <1>7, <3>1
  <2>2. ASSUME i \in 1 .. l PROVE i \in V[s] <=> i \in NotRun[s]
    BY <1>6, <1>7, <1>10, <2>1, <2>2, NotRunFacts
  <2>3. ASSUME i \in Nat, i - l \in 1 .. n PROVE i \in V[s] <=> due(i - l)
    <3>1. queue'[s][i] = ts[i - l]
      <4>1. i = l + (i - l)
        BY <2>3
      <4> QED
        BY <1>6, <1>7, <2>3, <4>1
    <3>2. i = 1 => ~closing[s]
      BY <1>8, <2>3
    <3> QED
      BY <1>2, <1>10, <2>1, <2>3, <3>1, <3>2
  <2>4. i \in NotRun[s] => i \in 1 .. l
    BY <1>6, <1>7, NotRunFacts
  <2>5. i \in V[s] => i \in DOMAIN queue'[s]
    BY <1>6, <1>10
  <2>6. ~(i \in 1 .. l /\ i - l \in 1 .. n)
    BY <1>7
  <2> QED
    BY <2>1, <2>2, <2>3, <2>4, <2>5, <2>6
<1>13. IsFiniteSet(Pairs(NotRun)) /\ nActive = Cardinality(Pairs(NotRun))
  BY DEF Counted
<1>14. /\ IsFiniteSet(Pairs(V)) /\ nActive' = Cardinality(Pairs(V))
       /\ nActive' \in Int /\ nActive' <= nActive + 1
  <2>1. CASE \A i \in 1 .. n : ~due(i)
    <3>1. {i \in 1 .. n : due(i)} = {}
      BY <2>1
    <3>2. nActive' = nActive
      <4>1. Cardinality({i \in 1 .. n : due(i)}) = 0
        BY <3>1, FS_EmptySet
      <4> QED
        BY <1>2, <1>8, <4>1
    <3>3. V[s] = NotRun[s]
      BY <1>12, <2>1
    <3>4. Pairs(V) = Pairs(NotRun)
      BY <1>11, <3>3, PairsSame
    <3> QED
      BY <1>8, <1>13, <3>2, <3>4
  <2>2. ASSUME NEW k \in 1 .. n, due(k) 
      PROVE  /\ IsFiniteSet(Pairs(V)) /\ nActive' = Cardinality(Pairs(V))
             /\ nActive' \in Int /\ nActive' <= nActive + 1
    <3>1. \A i \in 1 .. n : due(i) <=> i = k
      BY <1>2, <1>4, <2>2
    <3>2. {i \in 1 .. n : due(i)} = {k}
      BY <3>1
    <3>3. nActive' = nActive + 1
      BY <1>2, <1>8, <3>2, FS_Singleton
    <3>4. V[s] = NotRun[s] \cup {l + k} /\ l + k \notin NotRun[s]
      <4>1. \A i : i \in V[s] <=> i \in NotRun[s] \/ i = l + k
        BY <1>7, <1>12, <3>1
      <4>2. l + k \notin NotRun[s]
        BY <1>6, <1>7, NotRunFacts
      <4> QED
        BY <4>1, <4>2
    <3>5. V[s] = NotRun[s] \cup {l + k}
      BY <3>4
    <3>6. IsFiniteSet(Pairs(V)) /\ Cardinality(Pairs(V)) = Cardinality(Pairs(NotRun)) + 1
      BY <1>11, <1>13, <3>4, <3>5, PairsAdd
    <3> QED
      BY <1>8, <1>13, <3>3, <3>6
  <2> QED
    BY <2>1, <2>2
<1>15. ASSUME NEW r \in Streams, NEW i \in DOMAIN queue'[r], queue'[r][i].counted
       PROVE  queue'[r][i].op \in {"compute", "hold"}
  <2>1. CASE r # s
    BY <1>6, <1>15, <2>1 DEF Counted
  <2>2. CASE r = s /\ i \in 1 .. l
    BY <1>6, <1>7, <1>15, <2>2 DEF Counted
  <2>3. CASE r = s /\ i \notin 1 .. l
    <3>1. i - l \in 1 .. n /\ i = l + (i - l)
      <4>1. n \in Nat /\ i \in 1 .. l + n
        BY <1>2, <1>6, <1>7, <1>15, <2>3
      <4> QED
        BY <1>7, <2>3, <4>1
    <3>2. queue'[s][i] = ts[i - l]
      BY <1>6, <1>7, <3>1
    <3> QED
      BY <1>2, <2>3, <3>1, <3>2
  <2> QED
    BY <2>1, <2>2, <2>3
<1> QED
  BY <1>5, <1>9, <1>14, <1>15 DEF Counted

\* The counter starts at nothing, with nothing to count.
LEMMA CountedInit == Init => Counted /\ Limited
<1> SUFFICES ASSUME Init PROVE Counted /\ Limited
  OBVIOUS
<1>1. \A s \in Streams : queue[s] = <<>> /\ numOps[s] = 0
  BY DEF Init
<1>2. numOps \in [Streams -> 0 .. DISPATCHES_PER_TASK - 1]
  BY AsyncEvalAssumption DEF Init
<1>3. \A s \in Streams : NotRun[s] = {}
  BY <1>1 DEF NotRun
<1>4. Pairs(NotRun) = {}
  BY <1>3 DEF Pairs
<1>5. IsFiniteSet(Pairs(NotRun)) /\ Cardinality(Pairs(NotRun)) = 0
  BY <1>4, FS_EmptySet
<1>6. nActive = 0 /\ pc = "idle"
  BY DEF Init
<1>7. Counted
  BY <1>1, <1>2, <1>5, <1>6 DEF Counted
<1>8. Limited
  BY <1>6, AsyncEvalAssumption DEF Limited
<1> QED
  BY <1>7, <1>8

\* The counter is the number of the tasks counted and not run, whatever step is taken.
LEMMA CountedStep ==
  ASSUME Types, Closing, Counted, Next \/ UNCHANGED vars
  PROVE  /\ Counted' /\ nActive' \in Int
         /\ nActive' <= nActive \/ (EvalArray /\ nActive' <= nActive + 1)
<1>1. nActive \in Int
  BY DEF Types
<1>2. ASSUME Grows, UNCHANGED <<closing, numOps, nActive>>,
             \A s \in Streams : \A i \in New(s) : ~queue'[s][i].counted
      PROVE  Counted' /\ nActive' \in Int /\ nActive' <= nActive
  <2>1. Counted'
    BY <1>2, UncountedGrowth
  <2> QED
    BY <1>1, <1>2, <2>1
<1>3. CASE UNCHANGED <<queue, closing, numOps, nActive>>
  <2>1. Grows /\ \A s \in Streams : New(s) = {}
    BY <1>3, NothingAdded
  <2> QED
    BY <1>2, <1>3, <2>1
<1>4. CASE WaitForInput
  <2>1. UNCHANGED <<closing, numOps, nActive>>
    BY <1>4 DEF WaitForInput
  <2>2. Grows /\ \A s \in Streams : \A i \in New(s) : ~queue'[s][i].counted
    <3> DEFINE s == StreamOf(m.cur)
               x == InputsOf(m.cur)[m.i]
               wait == FenceWait(FenceOf(graph.stream[x]), m.fenceCount[graph.stream[x]])
    <3>1. /\ Grows
          /\ \/ \A r \in Streams : New(r) = {}
             \/ /\ \A r \in Streams \ {s} : New(r) = {}
                /\ \A i \in New(s) : queue'[s][i] = wait
             \/ /\ \A r \in Streams \ {s} : New(r) = {}
                /\ \A i \in New(s) : queue'[s][i] = EventWait(event[x])
      BY <1>4, WaitAdds
    <3>2. wait.counted = FALSE /\ EventWait(event[x]).counted = FALSE
      BY PlainTasks
    <3> HIDE DEF s, wait, x
    <3> QED
      BY <3>1, <3>2
  <2> QED
    BY <1>2, <2>1, <2>2
<1>5. CASE Publish
  <2>1. UNCHANGED <<closing, numOps, nActive>>
    BY <1>5 DEF Publish
  <2>2. PICK s \in Streams : s = StreamOf(m.cur)
    BY StreamOfTyped DEF Types, Locals
  <2>3. /\ Grows /\ \A r \in Streams \ {s} : New(r) = {}
        /\ Fenced \in Nat
        /\ \E k \in Nat :
             /\ DOMAIN queue[s] = 1 .. k /\ DOMAIN queue'[s] = 1 .. k + Fenced
             /\ \A i \in 1 .. Fenced :
                  queue'[s][k + i] = FenceUpdate(FenceOf(s), m.fenceCount[s] + i)
    BY <1>5, <2>2, PublishAdds
  <2>4. PICK k \in Nat :
          /\ DOMAIN queue[s] = 1 .. k /\ DOMAIN queue'[s] = 1 .. k + Fenced
          /\ \A i \in 1 .. Fenced :
               queue'[s][k + i] = FenceUpdate(FenceOf(s), m.fenceCount[s] + i)
    BY <2>3
  <2>5. ASSUME NEW i \in New(s) PROVE ~queue'[s][i].counted
    <3>1. i - k \in 1 .. Fenced /\ i = k + (i - k)
      BY <2>3, <2>4, <2>5 DEF New
    <3>2. queue'[s][i] = FenceUpdate(FenceOf(s), m.fenceCount[s] + (i - k))
      BY <2>4, <3>1
    <3> QED
      BY <3>2, PlainTasks
  <2> QED
    BY <1>2, <2>1, <2>3, <2>5
<1>6. CASE EndEval
  <2>1. UNCHANGED <<closing, numOps, nActive>>
    BY <1>6 DEF EndEval
  <2>2. Grows /\ \A s \in Streams : \A i \in New(s) : ~queue'[s][i].counted
    BY <1>6, SignalsAdded, PlainTasks
  <2> QED
    BY <1>2, <2>1, <2>2
<1>7. CASE EvalArray
  BY <1>7, DispatchCounts
<1>8. ASSUME NEW s \in Streams, RunStream(s)
      PROVE  Counted' /\ nActive' \in Int /\ nActive' <= nActive
  BY <1>8, WorkerCounts
<1>9. CASE User \/ Quiescent \/ UNCHANGED vars
  <2>1. UNCHANGED <<queue, closing, numOps, nActive>>
    BY <1>9 DEF User, EvalImpl, Await, Drop, Quiescent, vars, streamVars
  <2> QED
    BY <1>3, <2>1
<1>10. CASE Main
  <2>1. \/ WaitForInput \/ EvalArray \/ Publish \/ EndEval
        \/ UNCHANGED <<queue, closing, numOps, nActive>>
    BY <1>10 DEF Main, NextEntry, EvalThrows, Throttle, WaitForOne, OneCompleted,
         CheckMemory, EvalReturns, Awaited, OnlyMain, streamVars
  <2> QED
    BY <1>3, <1>4, <1>5, <1>6, <1>7, <2>1
<1> QED
  BY <1>8, <1>9, <1>10 DEF Next

\* The back-pressure: only an entry's own dispatches are let past the limit.
LEMMA LimitedStep ==
  ASSUME Types, Closing, Counted, Limited, Next \/ UNCHANGED vars
  PROVE  Limited'
<1> DEFINE Limit == MAX_ACTIVE_TASKS
           Below == {"idle", "next", "inputs", "memory", "publish", "sync", "await"}
<1>1. /\ nActive \in Int /\ nActive' \in Int
      /\ nActive' <= nActive \/ (EvalArray /\ nActive' <= nActive + 1)
  BY CountedStep DEF Types
<1>2. Limit \in Nat \ {0}
  BY AsyncEvalAssumption
<1>3. CASE EvalArray
  <2>1. pc = "inputs" /\ pc' = "throttle"
    BY <1>3 DEF EvalArray
  <2> QED
    BY <1>1, <1>2, <2>1 DEF Limited
<1>4. ASSUME ~EvalArray, pc' = pc, m'.nOld = m.nOld PROVE Limited'
  <2>1. m.nOld \in Int
    BY DEF Types, Locals
  <2> QED
    BY <1>1, <1>2, <1>4, <2>1 DEF Limited
<1>5. ASSUME ~EvalArray, pc \in Below, pc' \in Below PROVE Limited'
  BY <1>1, <1>2, <1>5 DEF Limited
<1>6. CASE User \/ Quiescent \/ UNCHANGED vars
  <2>1. ~EvalArray
    BY <1>6 DEF User, EvalImpl, Await, Drop, Quiescent, vars, EvalArray
  <2>2. CASE User
    <3>1. pc = "idle" /\ (pc' \in {"next", "await"} \/ UNCHANGED pc)
      BY <2>2 DEF User, EvalImpl, Await, Drop
    <3> QED
      BY <1>5, <2>1, <3>1
  <2>3. CASE Quiescent \/ UNCHANGED vars
    BY <1>4, <2>1, <2>3 DEF Quiescent, vars
  <2> QED
    BY <1>6, <2>2, <2>3
<1>7. ASSUME NEW s \in Streams, RunStream(s) PROVE Limited'
  <2>1. UNCHANGED <<pc, m>>
    BY <1>7, Working
  <2>2. ~EvalArray
    BY <2>1 DEF EvalArray
  <2> QED
    BY <1>4, <2>1, <2>2
<1>8. CASE NextEntry \/ WaitForInput \/ EvalThrows \/ Publish \/ EndEval \/ EvalReturns \/ Awaited
  <2>1. pc \in Below /\ pc' \in Below
    BY <1>8 DEF NextEntry, WaitForInput, EvalThrows, Publish, EndEval, EvalReturns, Awaited
  <2>2. ~EvalArray
    BY <2>1 DEF EvalArray
  <2> QED
    BY <1>5, <2>1, <2>2
<1>9. CASE Throttle
  <2>1. /\ UNCHANGED <<nActive, m>>
        /\ pc' = "waitForOne" \/ (pc' = "publish" /\ ~(nActive > Limit))
    BY <1>9 DEF Throttle, OnlyMain, streamVars
  <2> QED
    BY <1>1, <1>2, <2>1 DEF Limited
<1>10. CASE WaitForOne
  <2>1. UNCHANGED nActive
    BY <1>10 DEF WaitForOne, OnlyMain, streamVars
  <2>2. CASE nActive > 1
    <3>1. pc' = "waiting" /\ m'.nOld = nActive
      BY <1>10, <2>2 DEF WaitForOne, Types, Locals
    <3> QED
      BY <1>1, <1>2, <2>1, <3>1 DEF Limited
  <2>3. CASE ~(nActive > 1)
    <3>1. pc' = "memory"
      BY <1>10, <2>3 DEF WaitForOne
    <3> QED
      BY <1>1, <1>2, <2>1, <2>3, <3>1 DEF Limited
  <2> QED
    BY <2>2, <2>3
<1>11. CASE OneCompleted
  <2>1. /\ UNCHANGED <<nActive, m>> /\ m.nOld \in Int
        /\ pc = "waiting" /\ nActive < m.nOld /\ pc' = "memory"
    BY <1>11 DEF OneCompleted, OnlyMain, streamVars, Types, Locals
  <2> QED
    BY <1>1, <1>2, <2>1 DEF Limited
<1>12. CASE CheckMemory
  <2>1. /\ UNCHANGED <<nActive, m>> /\ pc = "memory"
        /\ pc' \in {"waitForOne", "publish"}
    BY <1>12 DEF CheckMemory, OnlyMain, streamVars
  <2> QED
    BY <1>1, <1>2, <2>1 DEF Limited
<1> QED
  BY <1>3, <1>6, <1>7, <1>8, <1>9, <1>10, <1>11, <1>12 DEF Next, Main

\* The inductive invariant says what is to be shown.
LEMMA BacklogHolds ==
  ASSUME Counted, Limited PROVE BacklogBounded
<1>1. UNION {{<<s, i>> : i \in {j \in DOMAIN queue[s] :
                queue[s][j].counted /\ (j = 1 => ~closing[s])}} : s \in Streams}
        = Pairs(NotRun)
  BY DEF Pairs, NotRun
<1> QED
  BY <1>1 DEF Counted, Limited, BacklogBounded

\* n_active_tasks is exactly the number of counted tasks that no worker has run
\* yet, for any number of streams, and eval_impl keeps it at most one above
\* MAX_ACTIVE_TASKS.
THEOREM BacklogBoundedHolds == Spec => []BacklogBounded
<1>1. FenceInv /\ Counted /\ Limited /\ [Next]_vars => Counted' /\ Limited'
  BY CountedStep, LimitedStep DEF FenceInv
<1>2. Counted /\ Limited => BacklogBounded
  BY BacklogHolds
<1> QED
  BY <1>1, <1>2, CountedInit, FenceInvariant, PTL DEF Spec

-----------------------------------------------------------------------------
(* Events: as long as nothing throws, whoever waits for an event, a stream   *)
(* in a later evaluation or the user's thread in eval or wait, waits for a   *)
(* signal that has run or is queued.                                         *)

\* Outputs of one primitive are scheduled together.
Siblings ==
  \A x \in Arrays : Unscheduled(x) => \A y \in Outputs(x) : Unscheduled(y)

\* What the running eval_impl schedules, or has scheduled with an event.
Mine(x) ==
  \/ Unscheduled(x)
  \/ event[x] # NoEvent /\ event[x][1] = evals
  \/ \E k \in DOMAIN m.tape : x \in Outputs(m.tape[k])

\* Where an entry and an input it shares the evaluation with are on different
\* streams, a fence orders them.
FencedIn(a) ==
  \A x \in ToSet(InputsOf(a)) :
    Mine(x) /\ graph.stream[x] # StreamOf(a) => x \in m.needsFence

CrossFenced ==
  pc \in Running => /\ \A k \in DOMAIN m.tape : FencedIn(m.tape[k])
                    /\ pc \in InBody => FencedIn(m.cur)

\* An array's event belongs to its stream.  Its signal is on its way, or is
\* what the running eval_impl ends with.
EventGood(x) ==
  event[x] # NoEvent =>
    \E e \in 1 .. evals :
      /\ event[x] = <<e, graph.stream[x]>>
      /\ IF pc \in Running /\ e = evals
           THEN m.async /\ graph.stream[x] \in m.open
           ELSE EventCovered(<<e, graph.stream[x]>>)

EventsGood == \A x \in Arrays : EventGood(x)

\* A pending wait for an event waits for a signal that is on its way.
GoodEventWait(t) ==
  \E e \in 1 .. evals, r \in Streams :
    t.obj = <<e, r>> /\ EventCovered(<<e, r>>)

EventWaits ==
  \A s \in Streams : \A i \in DOMAIN queue[s] :
    queue[s][i].op = "eventWait" => GoodEventWait(queue[s][i])

\* wait is for an array that has been scheduled.
Awaits == pc = "await" => m.cur \in Arrays /\ ~Unscheduled(m.cur)

\* The Synchronizer's stream is used; who waits in eval or in wait waits for
\* a signal that is on its way.
Callers ==
  /\ pc \in Running =>
       m.home \in m.open \/ \E k \in DOMAIN m.tape : m.tape[k] = Sync
  /\ pc = "sync" => evals \in 1 .. evals /\ EventCovered(<<evals, m.home>>)
  /\ pc = "await" =>
       /\ m.cur \in Arrays /\ ~Unscheduled(m.cur)
       /\ event[m.cur] # NoEvent

-----------------------------------------------------------------------------
(* How steps change what events depend on *)

\* Inside the loop's body only events that are signaled are let go.
LEMMA BodySteps ==
  ASSUME Types,
         \/ WaitForInput \/ EvalArray \/ Throttle \/ WaitForOne
         \/ OneCompleted \/ CheckMemory
  PROVE  /\ pc \in InBody /\ pc' \in InBody
         /\ UNCHANGED <<graph, status, held, evals, signaled>>
         /\ m'.tape = m.tape /\ m'.cur = m.cur /\ m'.outs = m.outs
         /\ m'.needsFence = m.needsFence /\ m'.home = m.home
         /\ m'.open = m.open /\ m'.async = m.async
         /\ \A y \in Arrays : event'[y] \in {event[y], NoEvent}
<1>1. m \in Locals /\ event \in [Arrays -> SyncIds \cup {NoEvent}]
  BY DEF Types
<1>2. /\ pc \in InBody /\ pc' \in InBody
      /\ UNCHANGED <<graph, status, held, evals, signaled>>
  BY DEF WaitForInput, EvalArray, Throttle, WaitForOne, OneCompleted,
       CheckMemory, OnlyMain, arrayVars, InBody
<1>3. /\ m'.tape = m.tape /\ m'.cur = m.cur /\ m'.outs = m.outs
      /\ m'.needsFence = m.needsFence /\ m'.home = m.home
      /\ m'.open = m.open /\ m'.async = m.async
  BY <1>1 DEF WaitForInput, EvalArray, Throttle, WaitForOne, OneCompleted,
       CheckMemory, Locals
<1>4. CASE WaitForInput
  <2>1. ASSUME NEW y \in Arrays PROVE event'[y] \in {event[y], NoEvent}
    BY <1>1, <1>4 DEF WaitForInput
  <2> QED
    BY <1>2, <1>3, <2>1
<1>5. CASE ~WaitForInput
  <2>1. UNCHANGED event
    BY <1>5 DEF EvalArray, Throttle, WaitForOne, OneCompleted, CheckMemory,
         OnlyMain, arrayVars
  <2> QED
    BY <1>2, <1>3, <2>1
<1> QED
  BY <1>4, <1>5

\* Taking an entry gives its outputs the event of their stream.
LEMMA EntryTaken ==
  ASSUME Types, NextEntry
  PROVE  LET a == m.tape[1]
         IN  /\ pc = "next" /\ pc' = "inputs" /\ a \in Entries
             /\ UNCHANGED <<graph, status, held, evals, signaled>>
             /\ 1 \in DOMAIN m.tape /\ m'.cur = a
             /\ \A k \in DOMAIN m'.tape :
                  k \in Nat /\ k + 1 \in DOMAIN m.tape /\ m'.tape[k] = m.tape[k + 1]
             /\ \A k \in DOMAIN m.tape :
                  k # 1 => k - 1 \in DOMAIN m'.tape /\ m'.tape[k - 1] = m.tape[k]
             /\ m'.outs = m.outs /\ m'.needsFence = m.needsFence
             /\ m'.home = m.home /\ m'.async = m.async
             /\ m'.open = m.open \cup {StreamOf(a)}
             /\ \A x \in Arrays :
                  event'[x] = IF m.async /\ x \in Outputs(a)
                                THEN <<evals, StreamOf(a)>> ELSE event[x]
<1>1. /\ m.tape \in Seq(Entries) /\ m.tape # <<>> /\ m \in Locals
  BY DEF Types, Locals, NextEntry
<1>2. IsSeq(m.tape)
  BY <1>1 DEF IsSeq
<1>3. /\ Len(m.tape) \in Nat \ {0} /\ DOMAIN m.tape = 1 .. Len(m.tape)
      /\ DOMAIN Tail(m.tape) = 1 .. Len(m.tape) - 1
      /\ \A i \in 1 .. Len(m.tape) - 1 : Tail(m.tape)[i] = m.tape[i + 1]
      /\ Head(m.tape) = m.tape[1]
  BY <1>1, <1>2, TailFacts
<1>4. m.tape[1] \in Entries /\ 1 \in DOMAIN m.tape
  BY <1>1, <1>3, ElementOfSeq
<1>5. /\ m'.tape = Tail(m.tape) /\ m'.cur = m.tape[1] /\ m'.outs = m.outs
      /\ m'.needsFence = m.needsFence /\ m'.home = m.home /\ m'.async = m.async
      /\ m'.open = m.open \cup {StreamOf(m.tape[1])}
  BY <1>1, <1>3 DEF NextEntry, Locals
<1>6. /\ pc = "next" /\ pc' = "inputs"
      /\ UNCHANGED <<graph, status, held, evals, signaled>>
      /\ \A x \in Arrays : event'[x] = IF m.async /\ x \in Outputs(m.tape[1])
                                         THEN <<evals, StreamOf(m.tape[1])>>
                                         ELSE event[x]
  BY <1>3 DEF NextEntry
<1>7. /\ \A k \in DOMAIN m'.tape :
           k \in Nat /\ k + 1 \in DOMAIN m.tape /\ m'.tape[k] = m.tape[k + 1]
      /\ \A k \in DOMAIN m.tape :
           k # 1 => k - 1 \in DOMAIN m'.tape /\ m'.tape[k - 1] = m.tape[k]
  BY <1>3, <1>5
<1> QED
  BY <1>4, <1>5, <1>6, <1>7

\* Publishing makes the outputs of the entry evaluated.
LEMMA EntryPublished ==
  ASSUME Types, Publish
  PROVE  /\ pc \in InBody /\ pc' = "next"
         /\ UNCHANGED <<graph, event, held, evals, signaled>>
         /\ m'.tape = m.tape /\ m'.needsFence = m.needsFence
         /\ m'.outs \in {<<>>, m.outs} /\ m'.home = m.home
         /\ m'.async = m.async /\ m'.open = m.open
         /\ \A x \in Arrays :
              status'[x] = IF x \in Outputs(m.cur) THEN "evaluated" ELSE status[x]
<1>1. m \in Locals
  BY DEF Types
<1>2. /\ m'.tape = m.tape /\ m'.needsFence = m.needsFence
      /\ m'.outs \in {<<>>, m.outs} /\ m'.home = m.home
      /\ m'.async = m.async /\ m'.open = m.open
  BY <1>1 DEF Publish, Locals
<1>3. /\ pc \in InBody /\ pc' = "next"
      /\ UNCHANGED <<graph, event, held, evals, signaled>>
      /\ \A x \in Arrays :
           status'[x] = IF x \in Outputs(m.cur) THEN "evaluated" ELSE status[x]
  BY DEF Publish, InBody
<1> QED
  BY <1>2, <1>3

\* What has been signaled, or will be without eval_impl, stays so.
LEMMA EventStaysCovered ==
  ASSUME Types, Closing, Next \/ UNCHANGED vars,
         NEW f \in SyncIds, EventCovered(f)
  PROVE  EventCovered(f)'
<1> DEFINE s == f[2]
<1>0. s \in Streams
  BY DEF SyncIds
<1>1. CASE f \in signaled
  <2>1. CASE UNCHANGED signaled
    BY <1>1, <2>1 DEF EventCovered
  <2>2. CASE ~UNCHANGED signaled
    <3>1. PICK r \in Streams : RunStream(r)
      BY <2>2, Growth DEF Next
    <3>2. signaled' = signaled \cup {Head(queue[r]).obj}
      BY <2>2, <3>1, Working
    <3> QED
      BY <1>1, <3>2 DEF EventCovered
  <2> QED
    BY <2>1, <2>2
<1>2. CASE Coming(s, "eventSignal", f, 0)
  <2>1. PICK i \in DOMAIN queue[s] :
          queue[s][i].op = "eventSignal" /\ queue[s][i].obj = f /\ queue[s][i].n >= 0
    BY <1>2 DEF Coming
  <2>2. ASSUME \E j \in DOMAIN queue'[s] : queue'[s][j] = queue[s][i]
        PROVE  EventCovered(f)'
    BY <2>1, <2>2 DEF EventCovered, Coming
  <2>3. CASE Grows
    BY <1>0, <2>2, <2>3, GrowsFacts
  <2>4. ASSUME NEW r \in Streams, RunStream(r) PROVE EventCovered(f)'
    <3>1. CASE RunHold(r)
      BY <2>2, <2>4, <3>1 DEF RunHold
    <3>2. CASE ~RunHold(r) /\ r # s
      <4>1. queue'[s] = queue[s]
        BY <1>0, <2>4, <3>2, Working, Pops
      <4> QED
        BY <2>2, <4>1
    <3>3. CASE ~RunHold(r) /\ r = s
      <4>1. queue[s] # <<>> /\ PopTask(s)
        BY <2>4, <3>3, Working
      <4>2. /\ Len(queue[s]) \in Nat \ {0} /\ DOMAIN queue[s] = 1 .. Len(queue[s])
            /\ DOMAIN queue'[s] = 1 .. Len(queue[s]) - 1
            /\ \A k \in 1 .. Len(queue[s]) - 1 : queue'[s][k] = queue[s][k + 1]
            /\ Head(queue[s]) = queue[s][1]
        BY <1>0, <4>1, Pops
      <4>3. CASE i = 1
        <5>1. signaled' = signaled \cup {f}
          BY <2>1, <2>4, <3>3, <4>2, <4>3, Working
        <5> QED
          BY <5>1 DEF EventCovered
      <4>4. CASE i # 1
        <5>1. i - 1 \in DOMAIN queue'[s] /\ queue'[s][i - 1] = queue[s][i]
          BY <4>2, <4>4
        <5> QED
          BY <2>2, <5>1
      <4> QED
        BY <4>3, <4>4
    <3> QED
      BY <3>1, <3>2, <3>3
  <2> QED
    BY <2>3, <2>4, Growth DEF Next
<1> QED
  BY <1>1, <1>2 DEF EventCovered

-----------------------------------------------------------------------------
(* Who needs a fence *)

\* Siblings are scheduled together: publishing covers all outputs, and waiting
\* is for what is scheduled.
LEMMA SiblingsStep ==
  ASSUME Types, Closing, Siblings, Awaits, Next \/ UNCHANGED vars
  PROVE  Siblings'
<1>0. IsGraph(graph) /\ \A x \in Arrays : x \in Entries
  BY DEF Types, Entries
<1>1. CASE UNCHANGED <<graph, status>>
  BY <1>1 DEF Siblings, Unscheduled, Outputs
<1>2. CASE Publish
  <2>1. /\ graph' = graph
        /\ \A x \in Arrays :
             status'[x] = IF x \in Outputs(m.cur) THEN "evaluated" ELSE status[x]
    BY <1>2, EntryPublished
  <2>2. m.cur \in Entries
    BY DEF Types, Locals
  <2>3. ASSUME NEW x \in Arrays, Unscheduled(x)', NEW y \in Outputs(x)
        PROVE  Unscheduled(y)'
    <3>1. x \notin Outputs(m.cur) /\ Unscheduled(x)
      BY <2>1, <2>3 DEF Unscheduled
    <3>2. Unscheduled(y) /\ y \in Arrays
      BY <1>0, <2>3, <3>1 DEF Siblings, Outputs, OutputsIn, Sync, Arrays, IsGraph
    <3>3. Outputs(y) = Outputs(x) /\ x \in Outputs(x)
      BY <1>0, <2>3, <3>2, OutputsFacts
    <3>4. y \in Outputs(m.cur) => Outputs(y) = Outputs(m.cur)
      BY <1>0, <2>2, <3>2, OutputsFacts
    <3> QED
      BY <2>1, <3>1, <3>2, <3>3, <3>4 DEF Unscheduled
  <2> QED
    BY <2>1, <2>3 DEF Siblings, Outputs
<1>3. ASSUME NEW a \in Arrays, ~Unscheduled(a), graph' = graph,
             status' = [status EXCEPT ![a] = "available"]
      PROVE  Siblings'
  <2>1. \A x \in Arrays : Unscheduled(x)' <=> Unscheduled(x)
    BY <1>3 DEF Unscheduled, Types
  <2>2. ASSUME NEW x \in Arrays, Unscheduled(x)', NEW y \in Outputs(x)
        PROVE  Unscheduled(y)'
    <3>1. Unscheduled(y) /\ y \in Arrays
      BY <1>0, <2>1, <2>2 DEF Siblings, Outputs, OutputsIn, Sync, Arrays, IsGraph
    <3> QED
      BY <2>1, <3>1
  <2> QED
    BY <1>3, <2>2 DEF Siblings, Outputs
<1>4. ASSUME NEW a \in Arrays, Await(a) PROVE Siblings'
  <2>1. CASE UNCHANGED status
    BY <1>1, <1>4, <2>1 DEF Await
  <2>2. CASE ~UNCHANGED status
    <3>1. /\ ~Unscheduled(a) /\ graph' = graph
          /\ status' = [status EXCEPT ![a] = "available"]
      BY <1>4, <2>2 DEF Await, Unscheduled
    <3> QED
      BY <1>3, <3>1
  <2> QED
    BY <2>1, <2>2
<1>5. CASE Awaited
  <2>1. /\ m.cur \in Arrays /\ ~Unscheduled(m.cur) /\ graph' = graph
        /\ status' = [status EXCEPT ![m.cur] = "available"]
    BY <1>5 DEF Awaited, Awaits
  <2> QED
    BY <1>3, <2>1
<1>6. CASE \/ WaitForInput \/ EvalArray \/ Throttle \/ WaitForOne
           \/ OneCompleted \/ CheckMemory \/ NextEntry
  BY <1>1, <1>6, BodySteps, EntryTaken
<1>7. CASE \/ \E s \in Streams : RunStream(s)
           \/ \E async, outs : EvalImpl(async, outs) \/ \E a \in Arrays : Drop(a)
           \/ EvalThrows \/ EndEval \/ EvalReturns \/ Quiescent \/ UNCHANGED vars
  <2>1. UNCHANGED <<graph, status>>
    BY <1>7, Working DEF EvalImpl, Drop, EvalThrows, EndEval, EvalReturns,
         OnlyMain, Quiescent, vars, arrayVars
  <2> QED
    BY <1>1, <2>1
<1> QED
  BY <1>2, <1>4, <1>5, <1>6, <1>7 DEF Next, User, Main

\* A new tape has a fence for every input it orders across streams.
LEMMA FencedStart ==
  ASSUME Types, Siblings, EventsGood, NEW outs, NEW async, EvalImpl(async, outs)
  PROVE  CrossFenced'
<1>1. PICK k \in DOMAIN outs, t \in Tapes(outs) :
        m' = [NoEval EXCEPT !.async = async, !.outs = outs,
                            !.home = graph.stream[outs[k]],
                            !.tape = Append(t, Sync),
                            !.needsFence = NeedsFence(t, outs, graph.stream[outs[k]])]
  BY DEF EvalImpl
<1> DEFINE home == graph.stream[outs[k]]
<1>2. /\ m'.tape = Append(t, Sync) /\ m'.outs = outs /\ m'.home = home
      /\ m'.needsFence = NeedsFence(t, outs, home)
  BY <1>1 DEF NoEval
<1>3. t \in Seq(Arrays) /\ t \in Seq(Pending)
  BY TapesTyped
<1>4. /\ pc' = "next" /\ graph' = graph /\ status' = status /\ event' = event
      /\ evals' = evals + 1
  BY DEF EvalImpl, arrayVars
<1>5. /\ DOMAIN m'.tape = 1 .. Len(t) + 1 /\ Len(t) \in Nat /\ DOMAIN t = 1 .. Len(t)
      /\ \A j \in 1 .. Len(t) : m'.tape[j] = t[j] /\ t[j] \in Arrays /\ t[j] \in Pending
      /\ m'.tape[Len(t) + 1] = Sync
  <2>1. IsSeq(t) /\ \A j \in DOMAIN t : t[j] \in Arrays /\ t[j] \in Pending
    BY <1>3, ElementOfSeq, LenProperties DEF IsSeq
  <2> QED
    BY <1>2, <2>1, AppendFacts
<1> HIDE DEF home
<1>6. ASSUME NEW x \in Arrays, Mine(x)' PROVE Unscheduled(x)
  <2>1. event[x] # NoEvent => event[x][1] # evals'
    <3>1. event[x] # NoEvent => \E e \in 1 .. evals : event[x] = <<e, graph.stream[x]>>
      BY DEF EventsGood, EventGood
    <3> QED
      BY <1>4, <3>1 DEF Types
  <2>2. ASSUME NEW j \in DOMAIN m'.tape, x \in Outputs(m'.tape[j])
        PROVE  Unscheduled(x)
    <3>1. CASE j \in 1 .. Len(t)
      BY <1>5, <2>2, <3>1 DEF Siblings, Pending
    <3>2. CASE j = Len(t) + 1
      BY <1>5, <2>2, <3>2 DEF Outputs, Sync, Arrays
    <3> QED
      BY <1>5, <3>1, <3>2
  <2>3. \/ Unscheduled(x)
        \/ event[x] # NoEvent /\ event[x][1] = evals'
        \/ \E j \in DOMAIN m'.tape : x \in Outputs(m'.tape[j])
    <3>1. ASSUME NEW j \in DOMAIN m'.tape, x \in (Outputs(m.tape[j]))'
          PROVE  x \in Outputs(m'.tape[j])
      BY <1>4, <3>1 DEF Outputs
    <3>2. event'[x] = event[x] /\ status'[x] = status[x]
      BY <1>4
    <3>3. \/ status'[x] = "unscheduled"
          \/ event'[x] # NoEvent /\ event'[x][1] = evals'
          \/ \E j \in DOMAIN m'.tape : x \in (Outputs(m.tape[j]))'
      BY <1>6 DEF Mine, Unscheduled, Outputs
    <3> QED
      BY <3>1, <3>2, <3>3 DEF Unscheduled
  <2> QED
    BY <2>1, <2>2, <2>3
<1>7. ASSUME NEW i \in DOMAIN m'.tape, NEW a, a = m'.tape[i],
             NEW x \in ToSet(InputsOf(a)'), Mine(x)', graph.stream[x] # StreamOf(a)'
      PROVE  x \in m'.needsFence
  <2>1. CASE i = Len(t) + 1
    <3>1. x \in ToSet(outs) /\ graph.stream[x] # home
      BY <1>2, <1>5, <1>7, <2>1 DEF InputsOf, StreamOf
    <3>2. x \in Arrays
      BY <3>1 DEF EvalImpl, Types
    <3>3. Unscheduled(x) /\ x \in Pending
      BY <1>6, <1>7, <3>2 DEF Pending
    <3> QED
      BY <1>2, <3>1, <3>3 DEF NeedsFence, FencedInputs
  <2>2. CASE i \in 1 .. Len(t)
    <3>1. a \in Arrays /\ a = t[i] /\ a # Sync
      BY <1>5, <1>7, <2>2 DEF Arrays, Sync
    <3>2. x \in ToSet(graph.in[a]) /\ graph.stream[x] # graph.stream[a]
      BY <1>4, <1>7, <3>1 DEF InputsOf, StreamOf
    <3>3. x \in Arrays
      BY <3>1, <3>2 DEF Types, IsGraph, ToSet
    <3>4. Unscheduled(x) /\ x \in Pending
      BY <1>6, <1>7, <3>3 DEF Pending
    <3>5. a \in ToSet(t)
      BY <1>5, <2>2, <3>1 DEF ToSet
    <3> QED
      BY <1>2, <3>2, <3>4, <3>5 DEF NeedsFence, FencedInputs
  <2> QED
    BY <1>5, <2>1, <2>2
<1> QED
  BY <1>4, <1>7 DEF CrossFenced, FencedIn, InputsOf, StreamOf, InBody

\* What an eval_impl schedules only gets less, so a fence once decided on stays
\* enough.
LEMMA FencedKept ==
  ASSUME Types, graph' = graph, pc \in Running,
         m'.needsFence = m.needsFence, m'.home = m.home,
         m'.outs \in {<<>>, m.outs},
         \A x \in Arrays : Mine(x)' => Mine(x),
         NEW a \in Entries, FencedIn(a)
  PROVE  FencedIn(a)'
<1>1. StreamOf(a)' = StreamOf(a)
  BY DEF StreamOf
<1>2. ASSUME NEW x \in ToSet(InputsOf(a)') PROVE x \in ToSet(InputsOf(a))
  <2>1. CASE a # Sync
    BY <1>2, <2>1 DEF InputsOf
  <2>2. CASE a = Sync /\ m'.outs = m.outs
    BY <1>2, <2>2 DEF InputsOf
  <2>3. CASE a = Sync /\ m'.outs = <<>>
    <3>1. x \in ToSet(<<>>)
      BY <1>2, <2>3 DEF InputsOf
    <3> QED
      BY <3>1 DEF ToSet
  <2> QED
    BY <2>1, <2>2, <2>3
<1>3. ToSet(InputsOf(a)) \subseteq Arrays
  BY InputsTyped DEF ToSet
<1>4. ASSUME NEW x \in ToSet(InputsOf(a)'), Mine(x)', graph.stream[x] # StreamOf(a)
      PROVE  x \in m'.needsFence
  <2>1. x \in ToSet(InputsOf(a)) /\ x \in Arrays
    BY <1>2, <1>3, <1>4
  <2> QED
    BY <1>4, <2>1 DEF FencedIn
<1> QED
  BY <1>1, <1>4 DEF FencedIn

\* Every step keeps a fence at every crossing of streams within the evaluation.
LEMMA CrossFencedStep ==
  ASSUME Types, Closing, Siblings, CrossFenced, EventsGood, Next \/ UNCHANGED vars
  PROVE  CrossFenced'
<1>0. /\ m \in Locals /\ IsGraph(graph) /\ m.cur \in Entries
      /\ \A k \in DOMAIN m.tape : m.tape[k] \in Entries
  <2>1. m \in Locals /\ IsGraph(graph)
    BY DEF Types
  <2>2. m.tape \in Seq(Entries) /\ m.cur \in Entries
    BY <2>1 DEF Locals
  <2> QED
    BY <2>1, <2>2, ElementOfSeq, LenProperties
<1>1. ASSUME NEW async, NEW outs, EvalImpl(async, outs) PROVE CrossFenced'
  BY <1>1, FencedStart
<1>2. CASE NextEntry
  <2> DEFINE a == m.tape[1]
  <2>1. /\ pc = "next" /\ pc' = "inputs" /\ a \in Entries /\ graph' = graph
        /\ status' = status /\ evals' = evals
        /\ 1 \in DOMAIN m.tape /\ m'.cur = a
        /\ \A k \in DOMAIN m'.tape :
             k + 1 \in DOMAIN m.tape /\ m'.tape[k] = m.tape[k + 1]
        /\ m'.outs = m.outs /\ m'.needsFence = m.needsFence /\ m'.home = m.home
        /\ \A x \in Arrays :
             event'[x] = IF m.async /\ x \in Outputs(a)
                           THEN <<evals, StreamOf(a)>> ELSE event[x]
    BY <1>2, EntryTaken
  <2>2. ASSUME NEW x \in Arrays, Mine(x)' PROVE Mine(x)
    <3>1. \A b : Outputs(b)' = Outputs(b)
      BY <2>1 DEF Outputs
    <3>2. CASE x \in Outputs(a)
      BY <2>1, <3>2 DEF Mine
    <3>3. CASE x \notin Outputs(a)
      <4>1. event'[x] = event[x] /\ status'[x] = status[x] /\ evals' = evals
        BY <2>1, <3>3
      <4>2. \/ status'[x] = "unscheduled"
            \/ event'[x] # NoEvent /\ event'[x][1] = evals'
            \/ \E k \in DOMAIN m'.tape : x \in Outputs(m'.tape[k])
        BY <2>1, <2>2 DEF Mine, Unscheduled, Outputs
      <4> QED
        BY <2>1, <4>1, <4>2 DEF Mine, Unscheduled
    <3> QED
      BY <3>2, <3>3
  <2>3. pc \in Running
    BY <2>1 DEF Running
  <2>4. \A k \in DOMAIN m.tape : FencedIn(m.tape[k])
    BY <2>3 DEF CrossFenced
  <2>5. ASSUME NEW b, NEW k \in DOMAIN m.tape, b = m.tape[k] PROVE FencedIn(b)'
    BY <1>0, <2>1, <2>2, <2>3, <2>4, <2>5, FencedKept
  <2>6. FencedIn(m.cur)'
    BY <2>1, <2>5 DEF FencedIn, InputsOf, StreamOf, Mine, Outputs, Unscheduled
  <2>7. ASSUME NEW k \in DOMAIN m'.tape PROVE FencedIn(m.tape[k])'
    BY <2>1, <2>5, <2>7 DEF FencedIn, InputsOf, StreamOf, Mine, Outputs, Unscheduled
  <2> QED
    BY <2>6, <2>7 DEF CrossFenced
<1>3. CASE \/ WaitForInput \/ EvalArray \/ Throttle \/ WaitForOne
           \/ OneCompleted \/ CheckMemory
  <2>1. /\ pc \in InBody /\ pc' \in InBody /\ graph' = graph
        /\ status' = status /\ evals' = evals
        /\ m'.tape = m.tape /\ m'.cur = m.cur /\ m'.outs = m.outs
        /\ m'.needsFence = m.needsFence /\ m'.home = m.home
        /\ \A y \in Arrays : event'[y] \in {event[y], NoEvent}
    BY <1>3, BodySteps
  <2>2. ASSUME NEW x \in Arrays, Mine(x)' PROVE Mine(x)
    BY <2>1, <2>2 DEF Mine, Unscheduled, Outputs
  <2>3. pc \in Running
    BY <2>1 DEF Running
  <2>4. /\ \A k \in DOMAIN m.tape : FencedIn(m.tape[k])
        /\ FencedIn(m.cur)
    BY <2>1, <2>3 DEF CrossFenced
  <2>5. ASSUME NEW b \in Entries, FencedIn(b) PROVE FencedIn(b)'
    BY <2>1, <2>2, <2>3, <2>5, FencedKept
  <2>6. FencedIn(m.cur)'
    BY <1>0, <2>1, <2>4, <2>5
       DEF FencedIn, InputsOf, StreamOf, Mine, Outputs, Unscheduled
  <2>7. ASSUME NEW k \in DOMAIN m'.tape PROVE FencedIn(m.tape[k])'
    BY <1>0, <2>1, <2>4, <2>5, <2>7
       DEF FencedIn, InputsOf, StreamOf, Mine, Outputs, Unscheduled
  <2> QED
    BY <2>6, <2>7 DEF CrossFenced
<1>4. CASE Publish
  <2>1. /\ pc \in InBody /\ pc' = "next" /\ graph' = graph
        /\ event' = event /\ evals' = evals
        /\ m'.tape = m.tape /\ m'.needsFence = m.needsFence
        /\ m'.outs \in {<<>>, m.outs} /\ m'.home = m.home
        /\ \A x \in Arrays :
             status'[x] = IF x \in Outputs(m.cur) THEN "evaluated" ELSE status[x]
    BY <1>4, EntryPublished
  <2>2. ASSUME NEW x \in Arrays, Mine(x)' PROVE Mine(x)
    <3>1. status'[x] = "unscheduled" => status[x] = "unscheduled"
      BY <2>1
    <3> QED
      BY <2>1, <2>2, <3>1 DEF Mine, Unscheduled, Outputs
  <2>3. pc \in Running
    BY <2>1 DEF Running
  <2>4. \A k \in DOMAIN m.tape : FencedIn(m.tape[k])
    BY <2>3 DEF CrossFenced
  <2>5. ASSUME NEW b, NEW k \in DOMAIN m.tape, b = m.tape[k] PROVE FencedIn(b)'
    BY <1>0, <2>1, <2>2, <2>3, <2>4, <2>5, FencedKept
  <2>6. ASSUME NEW k \in DOMAIN m'.tape PROVE FencedIn(m.tape[k])'
    BY <2>1, <2>5, <2>6 DEF FencedIn, InputsOf, StreamOf, Mine, Outputs, Unscheduled
  <2>7. pc' \notin InBody
    BY <2>1 DEF InBody
  <2> QED
    BY <2>6, <2>7 DEF CrossFenced
<1>5. CASE \/ \E a \in Arrays : Await(a) \/ Drop(a)
           \/ EvalThrows \/ EndEval \/ EvalReturns \/ Awaited
  <2>1. pc' \notin Running
    BY <1>5 DEF Await, Drop, EvalThrows, EndEval, EvalReturns, Awaited, Running,
         InBody
  <2> QED
    BY <2>1 DEF CrossFenced
<1>6. CASE Quiescent \/ UNCHANGED vars \/ \E s \in Streams : RunStream(s)
  <2>1. UNCHANGED <<graph, status, event, evals, pc, m>>
    BY <1>6, Working DEF Quiescent, vars, arrayVars
  <2> QED
    BY <2>1 DEF CrossFenced, FencedIn, InputsOf, StreamOf, Mine, Outputs, Unscheduled
<1> QED
  BY <1>1, <1>2, <1>3, <1>4, <1>5, <1>6 DEF Next, User, Main

-----------------------------------------------------------------------------
(* Events *)

\* A step that starts and ends no evaluation keeps the events good.
LEMMA EventKept ==
  ASSUME Types, Closing, Next \/ UNCHANGED vars, graph' = graph, NEW x \in Arrays,
         EventGood(x), event'[x] \in {event[x], NoEvent},
         evals' = evals, pc' \in Running <=> pc \in Running,
         pc \in Running => m'.async = m.async /\ m.open \subseteq m'.open
  PROVE  EventGood(x)'
<1>1. SUFFICES ASSUME event'[x] = event[x], event[x] # NoEvent
               PROVE  EventGood(x)'
  BY DEF EventGood
<1>2. PICK e \in 1 .. evals :
        /\ event[x] = <<e, graph.stream[x]>>
        /\ IF pc \in Running /\ e = evals
             THEN m.async /\ graph.stream[x] \in m.open
             ELSE EventCovered(<<e, graph.stream[x]>>)
  BY <1>1 DEF EventGood
<1>3. graph.stream[x] \in Streams
  BY DEF Types, IsGraph
<1>4. <<e, graph.stream[x]>> \in SyncIds
  BY <1>3, SyncIdOf
<1>5. ASSUME NEW f, f = <<e, graph.stream[x]>>, EventCovered(f)
      PROVE  EventCovered(f)'
  BY <1>4, <1>5, EventStaysCovered
<1>6. CASE pc \in Running /\ e = evals
  BY <1>1, <1>2, <1>6 DEF EventGood
<1>7. CASE ~(pc \in Running /\ e = evals)
  <2>1. EventCovered(<<e, graph.stream[x]>>)'
    BY <1>2, <1>5, <1>7 DEF EventCovered
  <2> QED
    BY <1>1, <1>2, <1>7, <2>1 DEF EventGood, EventCovered
<1> QED
  BY <1>6, <1>7

\* Every step keeps the events good: the end of eval_impl signals those it gave
\* out, and no exception keeps it from getting there.
LEMMA EventsGoodStep ==
  ASSUME Faulty = {}, Types, Closing, EventsGood, Next \/ UNCHANGED vars
  PROVE  EventsGood'
<1> USE DEF Running, InBody
<1>0. graph' = graph /\ evals \in Nat
  BY Working, Growth DEF Next, Types
<1>1. ASSUME NEW async, NEW outs, EvalImpl(async, outs) PROVE EventsGood'
  <2>1. pc = "idle" /\ evals' = evals + 1 /\ event' = event
    BY <1>1 DEF EvalImpl, arrayVars
  <2>2. ASSUME NEW x \in Arrays, event[x] # NoEvent PROVE EventGood(x)'
    <3>1. PICK e \in 1 .. evals : /\ event[x] = <<e, graph.stream[x]>>
                                  /\ EventCovered(<<e, graph.stream[x]>>)
      BY <2>1, <2>2 DEF EventsGood, EventGood
    <3>2. <<e, graph.stream[x]>> \in SyncIds
      BY SyncIdOf DEF Types, IsGraph
    <3>3. ASSUME NEW f, f = <<e, graph.stream[x]>> PROVE EventCovered(f)'
      BY <3>1, <3>2, <3>3, EventStaysCovered
    <3>4. EventCovered(<<e, graph.stream[x]>>)'
      BY <3>3, <1>0 DEF EventCovered
    <3>5. e \in 1 .. evals' /\ e # evals'
      BY <1>0, <2>1
    <3> QED
      BY <1>0, <2>1, <3>1, <3>4, <3>5 DEF EventGood, EventCovered
  <2> QED
    BY <2>1, <2>2 DEF EventsGood, EventGood
<1>2. CASE NextEntry
  <2> DEFINE a == m.tape[1]
  <2>1. /\ pc = "next" /\ pc' = "inputs" /\ a \in Entries /\ evals' = evals
        /\ m'.async = m.async /\ m'.open = m.open \cup {StreamOf(a)}
        /\ \A x \in Arrays :
             event'[x] = IF m.async /\ x \in Outputs(a)
                           THEN <<evals, StreamOf(a)>> ELSE event[x]
    BY <1>2, EntryTaken
  <2>2. ASSUME NEW x \in Arrays PROVE EventGood(x)'
    <3>1. CASE m.async /\ x \in Outputs(a)
      <4>1. graph.stream[x] = StreamOf(a)
        BY <2>1, <3>1, OutputsFacts DEF Types
      <4>2. evals \in 1 .. evals
        BY <2>1 DEF Types
      <4> QED
        BY <1>0, <2>1, <3>1, <4>1, <4>2 DEF EventGood
    <3>2. CASE ~(m.async /\ x \in Outputs(a))
      <4>1. event'[x] = event[x]
        BY <2>1, <3>2
      <4> QED
        BY <1>0, <2>1, <4>1, EventKept DEF EventsGood
    <3> QED
      BY <3>1, <3>2
  <2> QED
    BY <2>2 DEF EventsGood
<1>3. CASE \/ WaitForInput \/ EvalArray \/ Throttle \/ WaitForOne
           \/ OneCompleted \/ CheckMemory
  BY <1>0, <1>3, BodySteps, EventKept DEF EventsGood
<1>4. CASE Publish
  BY <1>0, <1>4, EntryPublished, EventKept DEF EventsGood
<1>5. CASE EvalThrows
  BY <1>5 DEF EvalThrows
<1>6. CASE EndEval
  <2>1. /\ pc = "next" /\ pc' \notin Running /\ evals' = evals /\ event' = event
    BY <1>6 DEF EndEval, arrayVars
  <2>2. ASSUME NEW x \in Arrays, event[x] # NoEvent PROVE EventGood(x)'
    <3>1. PICK e \in 1 .. evals :
            /\ event[x] = <<e, graph.stream[x]>>
            /\ IF e = evals THEN m.async /\ graph.stream[x] \in m.open
                            ELSE EventCovered(<<e, graph.stream[x]>>)
      BY <2>1, <2>2 DEF EventsGood, EventGood
    <3>2. graph.stream[x] \in Streams
      BY DEF Types, IsGraph
    <3>3. ASSUME NEW f, f = <<e, graph.stream[x]>> PROVE EventCovered(f)'
      <4>1. f \in SyncIds /\ f[2] = graph.stream[x]
        BY <3>2, <3>3, SyncIdOf
      <4>2. CASE e # evals
        BY <3>1, <3>3, <4>1, <4>2, EventStaysCovered
      <4>3. CASE e = evals
        <5>1. PICK i \in New(graph.stream[x]) :
                queue'[graph.stream[x]][i] = EventSignal(f)
          BY <1>6, <3>1, <3>2, <3>3, <4>3, SignalsAdded
        <5>2. /\ queue'[graph.stream[x]][i].op = "eventSignal"
              /\ queue'[graph.stream[x]][i].obj = f
              /\ queue'[graph.stream[x]][i].n = 0
          BY <5>1, TaskFields
        <5>3. \E j \in DOMAIN queue'[graph.stream[x]] :
                /\ queue'[graph.stream[x]][j].op = "eventSignal"
                /\ queue'[graph.stream[x]][j].obj = f
                /\ queue'[graph.stream[x]][j].n >= 0
          BY <5>2 DEF New
        <5> QED
          BY <4>1, <5>3 DEF EventCovered, Coming
      <4> QED
        BY <4>2, <4>3
    <3>4. EventCovered(<<e, graph.stream[x]>>)'
      BY <3>3, <1>0 DEF EventCovered
    <3> QED
      BY <1>0, <2>1, <3>1, <3>4 DEF EventGood, EventCovered
  <2> QED
    BY <2>1, <2>2 DEF EventsGood, EventGood
<1>7. CASE \/ \E a \in Arrays : Await(a) \/ Drop(a)
           \/ EvalReturns \/ Awaited
  <2>1. /\ pc \notin Running /\ pc' \notin Running /\ evals' = evals
        /\ \A x \in Arrays : event'[x] \in {event[x], NoEvent}
    BY <1>7 DEF Await, Drop, EvalReturns, Awaited, OnlyMain, arrayVars, Types
  <2> QED
    BY <1>0, <2>1, EventKept DEF EventsGood
<1>8. CASE Quiescent \/ UNCHANGED vars \/ \E s \in Streams : RunStream(s)
  <2>1. UNCHANGED <<event, evals, pc, m>>
    BY <1>8, Working DEF Quiescent, vars, arrayVars
  <2> QED
    BY <1>0, <2>1, EventKept DEF EventsGood
<1> QED
  BY <1>1, <1>2, <1>3, <1>4, <1>5, <1>6, <1>7, <1>8 DEF Next, User, Main

\* Every step keeps the waits good: an input with an event of the running
\* evaluation on another stream has a fence, so what WaitForInput waits for is
\* an event of an earlier one.
LEMMA EventWaitsStep ==
  ASSUME Types, Closing, CrossFenced, EventsGood, EventWaits, Next \/ UNCHANGED vars
  PROVE  EventWaits'
<1>0. evals \in Nat
  BY DEF Types
<1>1. ASSUME NEW t, GoodEventWait(t), evals' \in Nat, evals' >= evals
      PROVE  GoodEventWait(t)'
  <2>1. PICK e \in 1 .. evals, r \in Streams :
          t.obj = <<e, r>> /\ EventCovered(<<e, r>>)
    BY <1>1 DEF GoodEventWait
  <2>2. EventCovered(<<e, r>>)'
    BY <2>1, SyncIdOf, EventStaysCovered
  <2>3. e \in 1 .. evals'
    BY <1>0, <1>1
  <2> QED
    BY <2>1, <2>2, <2>3 DEF GoodEventWait
<1>2. ASSUME Grows, evals' \in Nat, evals' >= evals,
             \A s \in Streams : \A i \in New(s) :
               queue'[s][i].op = "eventWait" =>
                 \E t : t = queue'[s][i] /\ GoodEventWait(t)
      PROVE  EventWaits'
  <2>1. ASSUME NEW s \in Streams, NEW i \in DOMAIN queue'[s], NEW t,
               t = queue'[s][i], t.op = "eventWait"
        PROVE  GoodEventWait(t)'
    <3>1. CASE i \in New(s)
      BY <1>1, <1>2, <2>1, <3>1
    <3>2. CASE i \in DOMAIN queue[s]
      <4>1. t = queue[s][i]
        BY <1>2, <2>1, <3>2, GrowsFacts
      <4> QED
        BY <1>1, <1>2, <2>1, <3>2, <4>1 DEF EventWaits
    <3> QED
      BY <2>1, <3>1, <3>2 DEF New
  <2>2. ASSUME NEW s \in Streams, NEW i \in DOMAIN queue'[s],
               queue'[s][i].op = "eventWait"
        PROVE  GoodEventWait(queue[s][i])'
    <3>1. PICK t : t = queue'[s][i]
      OBVIOUS
    <3>2. GoodEventWait(t)'
      BY <2>1, <2>2, <3>1
    <3> QED
      BY <3>1, <3>2 DEF GoodEventWait, EventCovered, Coming
  <2> QED
    BY <2>2 DEF EventWaits
<1>3. ASSUME UNCHANGED queue, evals' \in Nat, evals' >= evals PROVE EventWaits'
  BY <1>2, <1>3, NothingAdded
<1>4. CASE WaitForInput
  <2> DEFINE x == InputsOf(m.cur)[m.i]
             r == StreamOf(m.cur)
             src == graph.stream[x]
  <2>1. /\ pc = "inputs" /\ evals' = evals /\ m.cur \in Entries
        /\ m.i \in Nat \ {0} /\ m.i <= Len(InputsOf(m.cur))
    BY <1>4 DEF WaitForInput, Types, Locals
  <2>2. x \in Arrays /\ x \in ToSet(InputsOf(m.cur)) /\ r \in Streams
    <3>1. InputsOf(m.cur) \in Seq(Arrays) /\ m.i \in DOMAIN InputsOf(m.cur)
      BY <2>1, InputsTyped, LenProperties
    <3> QED
      BY <2>1, <3>1, ElementOfSeq, LenProperties, StreamOfTyped DEF ToSet
  <2>3. CASE \A s \in Streams : New(s) = {}
    BY <1>0, <1>2, <1>4, <2>1, <2>3, WaitAdds
  <2>4. CASE /\ \A s \in Streams \ {r} : New(s) = {}
             /\ \A i \in New(r) :
                  queue'[r][i] = FenceWait(FenceOf(src), m.fenceCount[src])
    <3>1. \A i \in New(r) : queue'[r][i].op = "fenceWait"
      BY <2>4, TaskFields
    <3>2. Grows
      BY <1>4, WaitAdds
    <3> HIDE DEF r, src, x
    <3> QED
      BY <1>0, <1>2, <2>1, <2>4, <3>1, <3>2
  <2>5. CASE /\ event[x] # NoEvent /\ event[x][2] # r /\ x \notin m.needsFence
             /\ \A s \in Streams \ {r} : New(s) = {}
             /\ \A i \in New(r) : queue'[r][i] = EventWait(event[x])
    <3>1. PICK e \in 1 .. evals :
            /\ event[x] = <<e, src>>
            /\ IF pc \in Running /\ e = evals
                 THEN m.async /\ src \in m.open ELSE EventCovered(<<e, src>>)
      BY <2>2, <2>5 DEF EventsGood, EventGood
    <3>2. e # evals
      <4>1. FencedIn(m.cur)
        BY <2>1 DEF CrossFenced, Running, InBody
      <4>2. src # r
        BY <2>5, <3>1
      <4>3. e = evals => Mine(x)
        BY <2>5, <3>1 DEF Mine
      <4> QED
        BY <2>2, <2>5, <4>1, <4>2, <4>3 DEF FencedIn
    <3>3. src \in Streams
      BY <2>2 DEF Types, IsGraph
    <3>4. ASSUME NEW i \in New(r), NEW t, t = queue'[r][i] PROVE GoodEventWait(t)
      <4>1. t.obj = event[x]
        BY <2>5, <3>4, TaskFields
      <4> QED
        BY <3>1, <3>2, <3>3, <4>1 DEF GoodEventWait
    <3>5. Grows
      BY <1>4, WaitAdds
    <3> HIDE DEF r, src, x
    <3> QED
      BY <1>0, <1>2, <2>1, <2>5, <3>4, <3>5
  <2>6. \/ \A s \in Streams : New(s) = {}
        \/ /\ x \in m.needsFence
           /\ \A s \in Streams \ {r} : New(s) = {}
           /\ \A i \in New(r) :
                queue'[r][i] = FenceWait(FenceOf(src), m.fenceCount[src])
        \/ /\ event[x] # NoEvent /\ event[x][2] # r /\ x \notin m.needsFence
           /\ \A s \in Streams \ {r} : New(s) = {}
           /\ \A i \in New(r) : queue'[r][i] = EventWait(event[x])
    BY <1>4, WaitAdds
  <2> QED
    BY <2>3, <2>4, <2>5, <2>6
<1>5. CASE EvalArray
  <2>1. /\ Grows /\ evals' = evals
        /\ \A s \in Streams : \A i \in New(s) : queue'[s][i].op \in {"compute", "hold"}
    BY <1>5, DispatchAdds DEF EvalArray
  <2> QED
    BY <1>0, <1>2, <2>1
<1>6. CASE Publish
  <2> DEFINE r == StreamOf(m.cur)
  <2>1. /\ Grows /\ Fenced \in Nat /\ evals' = evals
        /\ \A q \in Streams \ {r} : New(q) = {}
    BY <1>6, PublishAdds DEF Publish
  <2>2. PICK k \in Nat :
          /\ DOMAIN queue[r] = 1 .. k /\ DOMAIN queue'[r] = 1 .. k + Fenced
          /\ \A j \in 1 .. Fenced :
               queue'[r][k + j] = FenceUpdate(FenceOf(r), m.fenceCount[r] + j)
    BY <1>6, PublishAdds
  <2> HIDE DEF r
  <2>3. ASSUME NEW i \in New(r) PROVE queue'[r][i].op = "fenceUpdate"
    <3>1. i - k \in 1 .. Fenced /\ i = k + (i - k)
      BY <2>1, <2>2, <2>3 DEF New
    <3> QED
      BY <2>2, <3>1, TaskFields
  <2> QED
    BY <1>0, <1>2, <2>1, <2>3
<1>7. CASE EndEval
  <2>1. Grows /\ evals' = evals
    BY <1>7, SignalsAdded DEF EndEval
  <2>2. \A s \in Streams : \A i \in New(s) : queue'[s][i] = EventSignal(<<evals, s>>)
    BY <1>7, SignalsAdded
  <2>3. \A s \in Streams : \A i \in New(s) : queue'[s][i].op = "eventSignal"
    <3>1. ASSUME NEW f PROVE EventSignal(f).op = "eventSignal"
      BY TaskFields
    <3> QED
      BY <2>2, <3>1
  <2> QED
    BY <1>0, <1>2, <2>1, <2>3
<1>8. CASE \/ \E async, outs : EvalImpl(async, outs)
           \/ \E a \in Arrays : Await(a) \/ Drop(a)
           \/ NextEntry \/ EvalThrows \/ Throttle \/ WaitForOne \/ OneCompleted
           \/ CheckMemory \/ EvalReturns \/ Awaited \/ Quiescent \/ UNCHANGED vars
  <2>1. UNCHANGED queue /\ evals' \in {evals, evals + 1}
    BY <1>8 DEF EvalImpl, Await, Drop, NextEntry, EvalThrows, Throttle,
         WaitForOne, OneCompleted, CheckMemory, EvalReturns, Awaited, OnlyMain,
         Quiescent, vars, streamVars
  <2> QED
    BY <1>0, <1>3, <2>1
<1>9. ASSUME NEW r \in Streams, RunStream(r) PROVE EventWaits'
  <2>1. evals' \in Nat /\ evals' >= evals
    BY <1>0, <1>9, Working
  <2>2. ASSUME NEW s \in Streams, NEW i \in DOMAIN queue'[s]
        PROVE  \E j \in DOMAIN queue[s] : queue'[s][i] = queue[s][j]
    <3>1. CASE RunHold(r)
      BY <2>2, <3>1 DEF RunHold
    <3>2. CASE ~RunHold(r)
      <4>1. queue[r] # <<>> /\ PopTask(r)
        BY <1>9, <3>2, Working
      <4>2. /\ r # s => queue'[s] = queue[s]
            /\ Len(queue[r]) \in Nat \ {0} /\ DOMAIN queue[r] = 1 .. Len(queue[r])
            /\ DOMAIN queue'[r] = 1 .. Len(queue[r]) - 1
            /\ \A j \in 1 .. Len(queue[r]) - 1 : queue'[r][j] = queue[r][j + 1]
        BY <4>1, Pops
      <4> QED
        BY <2>2, <4>2
    <3> QED
      BY <3>1, <3>2
  <2>3. ASSUME NEW s \in Streams, NEW i \in DOMAIN queue'[s], NEW t,
               t = queue'[s][i], t.op = "eventWait"
        PROVE  GoodEventWait(t)'
    BY <1>1, <2>1, <2>2, <2>3 DEF EventWaits
  <2>4. ASSUME NEW s \in Streams, NEW i \in DOMAIN queue'[s],
               queue'[s][i].op = "eventWait"
        PROVE  GoodEventWait(queue[s][i])'
    <3>1. PICK t : t = queue'[s][i]
      OBVIOUS
    <3>2. GoodEventWait(t)'
      BY <2>3, <2>4, <3>1
    <3> QED
      BY <3>1, <3>2 DEF GoodEventWait, EventCovered, Coming
  <2> QED
    BY <2>4 DEF EventWaits
<1> QED
  BY <1>4, <1>5, <1>6, <1>7, <1>8, <1>9 DEF Next, User, Main

-----------------------------------------------------------------------------
(* The user's thread *)

\* Every step keeps what is known of the user's thread: the Synchronizer opens its
\* stream before the tape runs out, and the end of eval_impl signals there.
LEMMA CallersStep ==
  ASSUME Faulty = {}, Types, Closing, Callers, Next \/ UNCHANGED vars
  PROVE  Callers'
<1> USE DEF Running, InBody
<1>0. m \in Locals /\ evals \in Nat
  BY DEF Types
<1>1. ASSUME NEW async, NEW outs, EvalImpl(async, outs) PROVE Callers'
  <2>1. PICK k \in DOMAIN outs, t \in Tapes(outs) :
          m' = [NoEval EXCEPT !.async = async, !.outs = outs,
                  !.home = graph.stream[outs[k]], !.tape = Append(t, Sync),
                  !.needsFence = NeedsFence(t, outs, graph.stream[outs[k]])]
    BY <1>1 DEF EvalImpl
  <2>2. m'.tape = Append(t, Sync) /\ t \in Seq(Arrays)
    BY <2>1, TapesTyped DEF NoEval
  <2>3. /\ Len(t) + 1 \in DOMAIN Append(t, Sync)
        /\ Append(t, Sync)[Len(t) + 1] = Sync
    BY <2>2, LenProperties
  <2>4. pc' = "next"
    BY <1>1 DEF EvalImpl
  <2> QED
    BY <2>2, <2>3, <2>4 DEF Callers
<1>2. CASE NextEntry
  <2> DEFINE a == m.tape[1]
  <2>1. /\ pc = "next" /\ pc' = "inputs" /\ m'.home = m.home
        /\ m'.open = m.open \cup {StreamOf(a)}
        /\ \A k \in DOMAIN m.tape :
             k # 1 => k - 1 \in DOMAIN m'.tape /\ m'.tape[k - 1] = m.tape[k]
    BY <1>2, EntryTaken
  <2>2. CASE a = Sync
    BY <2>1, <2>2 DEF Callers, StreamOf
  <2>3. CASE a # Sync
    BY <2>1, <2>3 DEF Callers
  <2> QED
    BY <2>2, <2>3
<1>3. CASE \/ WaitForInput \/ EvalArray \/ Throttle \/ WaitForOne
           \/ OneCompleted \/ CheckMemory \/ Publish
  <2>1. /\ pc \in InBody /\ pc' \in Running /\ m'.tape = m.tape
        /\ m'.home = m.home /\ m'.open = m.open
    BY <1>3, BodySteps, EntryPublished
  <2> QED
    BY <2>1 DEF Callers
<1>4. CASE EvalThrows
  BY <1>4 DEF EvalThrows
<1>5. CASE EndEval
  <2>1. /\ pc = "next" /\ m.tape = <<>> /\ evals' = evals
        /\ IF m.async THEN pc' = "idle" /\ m' = NoEval
                      ELSE pc' = "sync" /\ m' = [NoEval EXCEPT !.home = m.home]
    BY <1>5 DEF EndEval
  <2>2. m.home \in m.open /\ m.home \in Streams /\ evals \in 1 .. evals
    BY <1>0, <2>1 DEF Callers, Types, Locals
  <2>3. CASE m.async
    BY <2>1, <2>3 DEF Callers
  <2>4. CASE ~m.async
    <3>1. pc' = "sync" /\ m'.home = m.home
      BY <2>1, <2>4 DEF NoEval
    <3>2. ASSUME NEW f, f = <<evals, m.home>> PROVE EventCovered(f)'
      <4>1. f \in SyncIds /\ f[2] = m.home
        BY <2>2, <3>2, SyncIdOf
      <4>2. PICK i \in New(m.home) : queue'[m.home][i] = EventSignal(f)
        BY <1>5, <2>2, <3>2, SignalsAdded
      <4>3. /\ queue'[m.home][i].op = "eventSignal"
            /\ queue'[m.home][i].obj = f /\ queue'[m.home][i].n = 0
        BY <4>2, TaskFields
      <4>4. i \in DOMAIN queue'[m.home] /\ queue'[m.home][i].n >= 0
        BY <4>3 DEF New
      <4> QED
        BY <4>1, <4>3, <4>4 DEF EventCovered, Coming
    <3>3. EventCovered(<<evals, m.home>>)'
      BY <2>1, <3>1, <3>2 DEF EventCovered, Coming
    <3> QED
      BY <2>1, <2>2, <3>1, <3>3 DEF Callers
  <2> QED
    BY <2>3, <2>4
<1>6. ASSUME NEW a \in Arrays, Await(a) PROVE Callers'
  <2>1. pc = "idle" /\ event' = event /\ status[a] = "evaluated"
        /\ \/ pc' = pc
           \/ pc' = "await" /\ m' = [NoEval EXCEPT !.cur = a] /\ UNCHANGED status
                /\ ~Available(a)
    BY <1>6 DEF Await
  <2>2. CASE pc' = "idle"
    BY <2>2 DEF Callers
  <2>3. CASE pc' # "idle"
    <3>1. pc' = "await" /\ m'.cur = a /\ status' = status
      BY <2>1, <2>3 DEF NoEval
    <3>2. event[a] # NoEvent
      BY <2>1, <2>3 DEF Available
    <3> QED
      BY <2>1, <3>1, <3>2 DEF Callers, Unscheduled
  <2> QED
    BY <2>2, <2>3
<1>7. CASE EvalReturns \/ Awaited \/ \E a \in Arrays : Drop(a)
  <2>1. pc' = "idle"
    BY <1>7 DEF EvalReturns, Awaited, Drop
  <2> QED
    BY <2>1 DEF Callers
<1>8. CASE Quiescent \/ UNCHANGED vars \/ \E s \in Streams : RunStream(s)
  <2>1. UNCHANGED <<status, event, evals, pc, m>>
    BY <1>8, Working DEF Quiescent, vars, arrayVars
  <2>2. CASE pc = "sync"
    <3>1. evals \in 1 .. evals /\ m.home \in Streams
      BY <1>0, <2>2 DEF Callers, Locals
    <3>2. ASSUME NEW f, f = <<evals, m.home>> PROVE EventCovered(f)'
      BY <2>2, <3>1, <3>2, SyncIdOf, EventStaysCovered DEF Callers
    <3>3. EventCovered(<<evals, m.home>>)'
      BY <2>1, <3>2 DEF EventCovered, Coming
    <3> QED
      BY <2>1, <2>2, <3>1, <3>3 DEF Callers
  <2>3. CASE pc # "sync"
    BY <2>1, <2>3 DEF Callers, Unscheduled
  <2> QED
    BY <2>2, <2>3
<1> QED
  BY <1>1, <1>2, <1>3, <1>4, <1>5, <1>6, <1>7, <1>8 DEF Next, User, Main

-----------------------------------------------------------------------------
(* The inductive invariant *)

\* The inductive invariant behind EventWaitsCovered.
EventInv ==
  /\ Types /\ Closing
  /\ Siblings /\ CrossFenced /\ EventsGood /\ EventWaits /\ Callers

\* The invariant of events holds before any call: there are no events, and an
\* output of a primitive has the kind of its siblings.
LEMMA EventInvInit == Init => EventInv
<1> SUFFICES ASSUME Init PROVE EventInv
  OBVIOUS
<1>1. Types /\ Closing
  BY TypesInit, ClosingInit
<1>2. /\ pc = "idle" /\ \A x \in Arrays : event[x] = NoEvent
      /\ \A s \in Streams : DOMAIN queue[s] = {}
  BY DEF Init
<1>3. Siblings
  <2> SUFFICES ASSUME NEW x \in Arrays, Unscheduled(x), NEW y \in Outputs(x)
               PROVE  Unscheduled(y)
    BY DEF Siblings
  <2>1. y \in {x} \cup graph.sib[x] /\ IsGraph(graph)
    BY <1>1 DEF Outputs, OutputsIn, Types, Sync, Arrays
  <2>2. y \in Arrays /\ graph.kind[y] = graph.kind[x]
    BY <2>1 DEF IsGraph
  <2> QED
    BY <2>2 DEF Init, Unscheduled
<1>4. CrossFenced /\ EventsGood /\ EventWaits /\ Callers
  BY <1>2 DEF CrossFenced, EventsGood, EventGood, EventWaits, Callers, Running,
       InBody
<1> QED
  BY <1>1, <1>3, <1>4 DEF EventInv

\* Without exceptions every step keeps the invariant of events; the types are
\* those of the invariant of fences.
LEMMA EventInvStep ==
  ASSUME Faulty = {}
  PROVE  EventInv /\ FenceInv /\ FenceInv' /\ [Next]_vars => EventInv'
<1> SUFFICES ASSUME EventInv, FenceInv', [Next]_vars PROVE EventInv'
  OBVIOUS
<1> USE DEF EventInv
<1>1. Types' /\ Closing'
  BY DEF FenceInv
<1>2. Awaits
  BY DEF Callers, Awaits
<1> QED
  BY <1>1, <1>2, SiblingsStep, CrossFencedStep, EventsGoodStep, EventWaitsStep, CallersStep

\* If nothing throws, whoever waits for an event, a stream in a later
\* evaluation, eval for its Synchronizer or wait for an array, waits for a
\* signal that has run or is queued: no later call is needed to wake it.
THEOREM EventWaitsCoveredHolds ==
  ASSUME Faulty = {}
  PROVE  Spec => []EventWaitsCovered
<1>1. EventInv => EventWaitsCovered
  <2> SUFFICES ASSUME EventInv PROVE EventWaitsCovered
    OBVIOUS
  <2>1. ASSUME NEW s \in Streams, NEW i \in DOMAIN queue[s],
               queue[s][i].op = "eventWait"
        PROVE  EventCovered(queue[s][i].obj)
    BY <2>1 DEF EventInv, EventWaits, GoodEventWait
  <2>2. pc = "sync" => EventCovered(<<evals, m.home>>)
    BY DEF EventInv, Callers
  <2>3. ASSUME pc = "await" PROVE EventCovered(event[m.cur])
    <3>1. pc \notin Running
      BY <2>3 DEF Running, InBody
    <3> QED
      BY <2>3, <3>1 DEF EventInv, Callers, EventsGood, EventGood
  <2> QED
    BY <2>1, <2>2, <2>3 DEF EventWaitsCovered
<1> QED
  BY <1>1, EventInvInit, EventInvStep, FenceInvariant, PTL DEF Spec

-----------------------------------------------------------------------------
(* Buffers and the values in them: what the operators compute *)

\* The k-th smallest of a finite set of numbers is one of them, and another one
\* for another k.
LEMMA NthFacts ==
  ASSUME NEW S, S \subseteq Nat, IsFiniteSet(S)
  PROVE  /\ Cardinality(S) \in Nat
         /\ \A k \in 1 .. Cardinality(S) :
              /\ Nth(S, k) \in S
              /\ Cardinality({j \in S : j <= Nth(S, k)}) = k
<1> DEFINE below(i) == {j \in S : j <= i}
           rank(i) == Cardinality(below(i))
           Ranked == {n \in Nat : \A T \in SUBSET S :
                        Cardinality(T) = n =>
                          \A k \in 1 .. n : \E i \in T : Cardinality({j \in T : j <= i}) = k}
<1>0. \A T \in SUBSET S : IsFiniteSet(T) /\ Cardinality(T) \in Nat
  BY FS_Subset, FS_CardinalityType
<1>1. 0 \in Ranked
  OBVIOUS
<1>2. ASSUME NEW n \in Nat, n \in Ranked PROVE n + 1 \in Ranked
  <2> SUFFICES ASSUME NEW T \in SUBSET S, Cardinality(T) = n + 1, NEW k \in 1 .. n + 1
               PROVE  \E i \in T : Cardinality({j \in T : j <= i}) = k
    OBVIOUS
  <2>1. IsFiniteSet(T) /\ T # {}
    BY <1>0, FS_EmptySet
  <2>2. PICK t \in T : \A j \in T : j <= t
    <3> DEFINE Bounds == {b \in Nat : \A j \in T : j <= b}
    <3>1. PICK g : g \in Nat /\ \A j \in T : j <= g
      <4> DEFINE F == {U \in SUBSET T : \E g \in Nat : \A j \in U : j <= g}
      <4>1. {} \in F
        OBVIOUS
      <4>2. \A U \in F : \A x \in T : U \subseteq T /\ x \notin U => U \cup {x} \in F
        <5> SUFFICES ASSUME NEW U \in F, NEW x \in T PROVE U \cup {x} \in F
          OBVIOUS
        <5>1. PICK g \in Nat : \A j \in U : j <= g
          OBVIOUS
        <5>2. x \in Nat /\ U \subseteq Nat
          OBVIOUS
        <5>3. x + g \in Nat /\ \A j \in U \cup {x} : j <= x + g
          BY <5>1, <5>2
        <5> QED
          BY <5>3
      <4> HIDE DEF F
      <4>3. T \in F
        BY <2>1, <4>1, <4>2, FiniteSetInduction
      <4> QED
        BY <4>3 DEF F
    <3>2. Bounds # {} /\ Bounds \subseteq Nat
      BY <3>1
    <3>3. PICK b \in Bounds : \A c \in Bounds : b <= c
      <4> HIDE DEF Bounds
      <4> QED
        BY <3>2, LeastNat
    <3>4. b \in T
      <4> SUFFICES ASSUME b \notin T PROVE FALSE
        OBVIOUS
      <4>1. \A j \in T : j \in Nat /\ j <= b /\ j # b
        BY <3>3
      <4>2. PICK j0 : j0 \in T
        BY <2>1
      <4>3. b - 1 \in Nat /\ \A j \in T : j <= b - 1
        BY <4>1, <4>2, <3>3
      <4>4. b - 1 \in Bounds
        BY <4>3
      <4> QED
        BY <3>3, <4>3, <4>4
    <3> QED
      BY <3>3, <3>4
  <2>3. CASE k = n + 1
    <3>1. {j \in T : j <= t} = T
      BY <2>2
    <3> QED
      BY <2>2, <2>3, <3>1
  <2>4. CASE k # n + 1
    <3>1. k \in 1 .. n
      BY <2>4
    <3>2. Cardinality(T \ {t}) = n /\ T \ {t} \in SUBSET S
      <4>1. Cardinality(T \ {t}) = Cardinality(T) - 1
        BY <2>1, <2>2, FS_RemoveElement
      <4>2. Cardinality(T) - 1 = n
        OBVIOUS
      <4> QED
        BY <4>1, <4>2
    <3>3. PICK i \in T \ {t} : Cardinality({j \in T \ {t} : j <= i}) = k
      BY <1>2, <3>1, <3>2
    <3>4. i \in Nat /\ t \in Nat /\ i <= t /\ i # t
      BY <2>2, <3>3
    <3>5. {j \in T \ {t} : j <= i} = {j \in T : j <= i}
      BY <3>4
    <3> QED
      BY <3>3, <3>5
  <2> QED
    BY <2>3, <2>4
<1> DEFINE n == Cardinality(S)
<1>3. Cardinality(S) \in Ranked
  <2> HIDE DEF Ranked
  <2>1. \A i \in Nat : i \in Ranked
    BY <1>1, <1>2, NatSetInduction
  <2> QED
    BY <2>1, FS_CardinalityType
<1>4. ASSUME NEW k \in 1 .. Cardinality(S)
      PROVE  \E i \in S : Cardinality({j \in S : j <= i}) = k
  BY <1>3
<1> QED
  BY <1>4, FS_CardinalityType DEF Nth

\* In a finite set of numbers, every number has a rank of its own.
LEMMA RankFacts ==
  ASSUME NEW S, S \subseteq Nat, IsFiniteSet(S)
  PROVE  /\ \A i \in S : Cardinality({j \in S : j <= i}) \in 1 .. Cardinality(S)
         /\ \A i, k \in S : i # k =>
              Cardinality({j \in S : j <= i}) # Cardinality({j \in S : j <= k})
<1> DEFINE below(i) == {j \in S : j <= i}
<1>0. ASSUME NEW i \in S
      PROVE  /\ below(i) \in SUBSET S /\ IsFiniteSet(below(i)) /\ i \in below(i)
             /\ Cardinality(below(i)) \in Nat /\ Cardinality(below(i)) <= Cardinality(S)
             /\ Cardinality(below(i)) # 0
  <2>1. below(i) \in SUBSET S /\ i \in below(i)
    OBVIOUS
  <2>2. IsFiniteSet(below(i)) /\ Cardinality(below(i)) <= Cardinality(S)
    BY <2>1, FS_Subset
  <2> QED
    BY <2>1, <2>2, FS_CardinalityType, FS_EmptySet
<1>1. Cardinality(S) \in Nat
  BY FS_CardinalityType
<1>2. ASSUME NEW i \in S, NEW k \in S, i < k
      PROVE  Cardinality(below(i)) # Cardinality(below(k))
  <2>1. i \in Nat /\ k \in Nat /\ \A j \in S : j \in Nat /\ (j <= i => j <= k)
    BY <1>2
  <2>2. k \in below(k) /\ k \notin below(i)
    BY <1>2, <2>1
  <2>3. below(i) \in SUBSET below(k)
    BY <2>1
  <2> QED
    BY <1>0, <2>2, <2>3, FS_Subset
<1>3. \A i, k \in S : i # k => i < k \/ k < i
  OBVIOUS
<1> QED
  BY <1>0, <1>1, <1>2, <1>3

-----------------------------------------------------------------------------
(* Values *)

\* The inputs of an array are arrays with smaller numbers; a view has some.
LEMMA InputFacts ==
  ASSUME IsGraph(graph), NEW a \in Arrays
  PROVE  /\ graph.in[a] \in Seq(Arrays)
         /\ \A x \in ToSet(graph.in[a]) : x \in Arrays /\ x < a
         /\ graph.kind[a] \in {"leaf", "donates", "allocates", "views"}
         /\ graph.kind[a] # "leaf" =>
              1 \in DOMAIN graph.in[a] /\ graph.in[a][1] \in ToSet(graph.in[a])
         /\ graph.kind[a] = "leaf" => ToSet(graph.in[a]) = {}
<1>1. /\ graph.in[a] \in Seq(Arrays) /\ \A x \in ToSet(graph.in[a]) : x < a
      /\ graph.in[a] = <<>> <=> graph.kind[a] = "leaf"
      /\ graph.kind[a] \in {"leaf", "donates", "allocates", "views"}
  BY DEF IsGraph
<1>2. DOMAIN graph.in[a] = 1 .. Len(graph.in[a]) /\ Len(graph.in[a]) \in Nat
  BY <1>1, LenProperties
<1>3. graph.in[a] # <<>> => Len(graph.in[a]) # 0
  BY <1>1, EmptySeq
<1>4. ToSet(graph.in[a]) \subseteq Arrays
  BY <1>1, <1>2, ElementOfSeq DEF ToSet
<1>5. graph.in[a] = <<>> => ToSet(graph.in[a]) = {}
  BY <1>2 DEF ToSet
<1> QED
  BY <1>1, <1>2, <1>3, <1>4, <1>5 DEF ToSet

\* A view has the value of its first input, any other array its own.
LEMMA ValFacts ==
  ASSUME IsGraph(graph), NEW a \in Arrays
  PROVE  /\ Val(a) \in Arrays /\ graph.kind[Val(a)] # "views"
         /\ graph.kind[a] # "views" => Val(a) = a
         /\ graph.kind[a] = "views" =>
              graph.in[a][1] \in Arrays /\ Val(a) = Val(graph.in[a][1])
<1> DEFINE Step(f, x) == IF graph.kind[x] = "views" THEN f[graph.in[x][1]] ELSE x
           Body(f) == [x \in Arrays |-> Step(f, x)]
           v == CHOOSE f : f = Body(f)
           Upto == {n \in Nat : \E f \in [1 .. n -> Arrays] :
                      \A x \in 1 .. n : x \in Arrays => f[x] = Step(f, x)}
<1>0. \A x \in Arrays : graph.kind[x] = "views" =>
        graph.in[x][1] \in Arrays /\ graph.in[x][1] < x
  BY InputFacts
<1>1. 0 \in Upto
  <2>1. PICK f : f = [x \in 1 .. 0 |-> a]
    OBVIOUS
  <2>2. f \in [1 .. 0 -> Arrays]
    BY <2>1
  <2>3. \A x \in 1 .. 0 : x \in Arrays => f[x] = Step(f, x)
    OBVIOUS
  <2> HIDE DEF Step
  <2> QED
    BY <2>2, <2>3
<1>2. ASSUME NEW n \in Nat, n \in Upto PROVE n + 1 \in Upto
  <2>1. PICK f \in [1 .. n -> Arrays] : \A x \in 1 .. n : x \in Arrays => f[x] = Step(f, x)
    BY <1>2
  <2>2. CASE n + 1 \notin Arrays
    <3>1. PICK h : h = [x \in 1 .. n + 1 |-> IF x = n + 1 THEN a ELSE f[x]]
      OBVIOUS
    <3>2. h \in [1 .. n + 1 -> Arrays]
      BY <3>1
    <3>3. \A x \in 1 .. n + 1 : x \in Arrays => x \in 1 .. n /\ h[x] = f[x]
      BY <2>2, <3>1
    <3>4. \A x \in 1 .. n : x \in Arrays /\ graph.kind[x] = "views" =>
            graph.in[x][1] \in 1 .. n /\ h[graph.in[x][1]] = f[graph.in[x][1]]
      <4>1. ASSUME NEW x \in 1 .. n, x \in Arrays, graph.kind[x] = "views"
            PROVE  graph.in[x][1] \in Arrays /\ graph.in[x][1] < x
        BY <1>0, <4>1
      <4> QED
        BY <4>1, <3>3 DEF Arrays
    <3>5. \A x \in 1 .. n + 1 : x \in Arrays => h[x] = Step(h, x)
      BY <2>1, <3>3, <3>4
    <3> QED
      BY <3>2, <3>5
  <2>3. CASE n + 1 \in Arrays
    <3>1. PICK h : h = [x \in 1 .. n + 1 |-> IF x = n + 1 THEN Step(f, n + 1) ELSE f[x]]
      OBVIOUS
    <3>2. ASSUME NEW x \in 1 .. n + 1, x \in Arrays, graph.kind[x] = "views"
          PROVE  graph.in[x][1] \in 1 .. n
      <4>1. graph.in[x][1] \in Arrays /\ graph.in[x][1] < x
        BY <1>0, <3>2
      <4> QED
        BY <4>1 DEF Arrays
    <3>3. h \in [1 .. n + 1 -> Arrays]
      <4>1. Step(f, n + 1) \in Arrays
        <5>1. n + 1 \in 1 .. n + 1
          OBVIOUS
        <5> QED
          BY <2>3, <3>2, <5>1
      <4> HIDE DEF Step
      <4> QED
        BY <3>1, <4>1
    <3>4. ASSUME NEW x \in 1 .. n + 1, x \in Arrays PROVE h[x] = Step(h, x)
      <4>1. CASE x = n + 1
        <5>1. h[x] = Step(f, x)
          BY <3>1, <4>1
        <5>2. graph.kind[x] = "views" => h[graph.in[x][1]] = f[graph.in[x][1]]
          <6>1. \A j \in 1 .. n : h[j] = f[j]
            BY <3>1
          <6> QED
            BY <3>2, <3>4, <6>1
        <5> QED
          BY <5>1, <5>2
      <4>2. CASE x \in 1 .. n
        <5>1. h[x] = f[x] /\ f[x] = Step(f, x)
          BY <2>1, <3>1, <3>4, <4>2
        <5>2. graph.kind[x] = "views" => h[graph.in[x][1]] = f[graph.in[x][1]]
          BY <3>1, <3>2, <3>4
        <5> QED
          BY <5>1, <5>2
      <4> QED
        BY <4>1, <4>2
    <3> QED
      BY <3>3, <3>4
  <2> QED
    BY <2>2, <2>3
<1>3. N \in Upto
  <2> HIDE DEF Upto
  <2> QED
    BY <1>1, <1>2, NatSetInduction, EvalGraphAssumption
<1>4. PICK f \in [Arrays -> Arrays] : \A x \in Arrays : f[x] = Step(f, x)
  BY <1>3 DEF Arrays
<1>5. f = Body(f)
  <2> HIDE DEF Step
  <2> QED
    BY <1>4
<1> HIDE DEF Body
<1>6. v = Body(v)
  BY <1>5
<1> HIDE DEF v
<1>7. \A x \in Arrays : v[x] = Step(v, x)
  BY <1>6 DEF Body
<1>8. \A x : Val(x) = v[x]
  BY DEF Val, ValueOf, v, Body, Step
<1>9. \A x \in 1 .. N : v[x] \in Arrays /\ graph.kind[v[x]] # "views"
  <2> DEFINE Good == {n \in Nat : \A x \in 1 .. n : x \in Arrays =>
                        v[x] \in Arrays /\ graph.kind[v[x]] # "views"}
  <2>1. 0 \in Good
    OBVIOUS
  <2>2. ASSUME NEW n \in Nat, n \in Good PROVE n + 1 \in Good
    <3> SUFFICES ASSUME NEW x \in 1 .. n + 1, x \in Arrays
                 PROVE  v[x] \in Arrays /\ graph.kind[v[x]] # "views"
      OBVIOUS
    <3>1. CASE graph.kind[x] = "views"
      <4>1. graph.in[x][1] \in Arrays /\ graph.in[x][1] < x
        BY <1>0, <3>1
      <4>2. graph.in[x][1] \in 1 .. n
        BY <4>1 DEF Arrays
      <4>3. v[x] = v[graph.in[x][1]]
        BY <1>7, <3>1
      <4> QED
        BY <2>2, <4>1, <4>2, <4>3
    <3>2. CASE graph.kind[x] # "views"
      BY <1>7, <3>2
    <3> QED
      BY <3>1, <3>2
  <2> HIDE DEF Good
  <2>3. N \in Good
    BY <2>1, <2>2, NatSetInduction, EvalGraphAssumption
  <2> QED
    BY <2>3 DEF Good, Arrays
<1> QED
  BY <1>0, <1>7, <1>8, <1>9 DEF Arrays

-----------------------------------------------------------------------------
(* Live arrays *)

\* The arrays with the primitive of x, as long as it is attached.
GroupOf(g, U, x) == IF x \in U THEN OutputsIn(g, x) ELSE {x}

\* What handles in S keep alive, read as a fixed point: the smallest one.
LEMMA ReachFacts ==
  ASSUME NEW g, IsGraph(g), NEW U, U \subseteq Arrays, NEW S
  PROVE  /\ Reach(g, U, S) \subseteq Arrays
         /\ \A x \in Arrays :
              x \in Reach(g, U, S) <=>
                \E y \in GroupOf(g, U, x) :
                  y \in S \/ \E c \in Reach(g, U, S) \cap U : y \in ToSet(g.in[c])
         /\ \A V \in SUBSET Arrays :
              (\A x \in Arrays : \A y \in GroupOf(g, U, x) :
                 y \in S \/ (\E c \in V \cap U : y \in ToSet(g.in[c])) => x \in V)
              => Reach(g, U, S) \subseteq V
<1> DEFINE in == g.in
           group(a) == IF a \in U THEN OutputsIn(g, a) ELSE {a}
           Body(f) == [a \in Arrays |->
                         \E x \in group(a) :
                           \/ x \in S
                           \/ \E c \in (x + 1 .. N) \cap U : x \in ToSet(in[c]) /\ f[c]]
           reached == CHOOSE f : f = Body(f)
           Closed(V) == \A a \in Arrays :
                          (\E x \in group(a) : x \in S \/ \E c \in (x + 1 .. N) \cap U :
                                                            x \in ToSet(in[c]) /\ c \in V)
                            => a \in V
           Least == {a \in Arrays : \A V \in SUBSET Arrays : Closed(V) => a \in V}
           R == Reach(g, U, S)
<1>1. \A a : group(a) = GroupOf(g, U, a)
  BY DEF GroupOf
<1> HIDE DEF group
<1>2. Closed(Least)
  OBVIOUS
<1>3. ASSUME NEW a \in Least
      PROVE  \E x \in group(a) : x \in S \/ \E c \in (x + 1 .. N) \cap U :
                                              x \in ToSet(in[c]) /\ c \in Least
  <2> SUFFICES ASSUME ~(\E x \in group(a) : x \in S \/ \E c \in (x + 1 .. N) \cap U :
                                              x \in ToSet(in[c]) /\ c \in Least)
               PROVE  FALSE
    OBVIOUS
  <2>1. Closed(Least \ {a})
    BY <1>2
  <2>2. Least \ {a} \in SUBSET Arrays
    OBVIOUS
  <2> HIDE DEF Closed
  <2> QED
    BY <2>1, <2>2
<1>4. PICK f : f = [a \in Arrays |-> a \in Least]
  OBVIOUS
<1>5. f = Body(f)
  <2>1. \A a \in Arrays : f[a] <=> a \in Least
    BY <1>4
  <2>3. \A a \in Arrays :
          a \in Least <=> \E x \in group(a) :
                            \/ x \in S
                            \/ \E c \in (x + 1 .. N) \cap U : x \in ToSet(in[c]) /\ c \in Least
    <3> HIDE DEF Least
    <3> QED
      BY <1>2, <1>3
  <2> HIDE DEF Least
  <2>4. \A a \in Arrays : f[a] \in BOOLEAN
    BY <1>4
  <2> DEFINE used(a) == \E x \in group(a) :
                          \/ x \in S
                          \/ \E c \in (x + 1 .. N) \cap U : x \in ToSet(in[c]) /\ f[c]
  <2>5. \A a \in Arrays : used(a) \in BOOLEAN
    OBVIOUS
  <2>6. \A a \in Arrays : f[a] <=> used(a)
    BY <2>1, <2>3
  <2>7. \A a \in Arrays : f[a] = used(a)
    <3> HIDE DEF used
    <3> QED
      BY <2>4, <2>5, <2>6
  <2>8. Body(f) = [a \in Arrays |-> used(a)]
    OBVIOUS
  <2> HIDE DEF used, Body
  <2> QED
    BY <1>4, <2>7, <2>8
<1> HIDE DEF Body
<1>6. reached = Body(reached)
  BY <1>5
<1> HIDE DEF reached
<1>7. \A a \in Arrays :
        reached[a] <=> \E x \in group(a) :
                         \/ x \in S
                         \/ \E c \in (x + 1 .. N) \cap U : x \in ToSet(in[c]) /\ reached[c]
  BY <1>6 DEF Body
<1>8. R = {a \in Arrays : reached[a]}
  BY DEF Reach, reached, Body, group
<1>9. \A a \in Arrays : a \in R <=> reached[a]
  BY <1>8
<1> HIDE DEF R
<1>10. \A a \in Arrays : \A x \in group(a) :
         /\ x \in Arrays
         /\ \A c \in U : x \in ToSet(in[c]) => c \in (x + 1 .. N) \cap U
  <2> SUFFICES ASSUME NEW a \in Arrays, NEW x \in group(a)
               PROVE  /\ x \in Arrays
                      /\ \A c \in U : x \in ToSet(in[c]) => c \in (x + 1 .. N) \cap U
    OBVIOUS
  <2>1. x \in Arrays
    BY DEF group, OutputsIn, IsGraph
  <2>2. \A c \in U : c \in Arrays /\ (x \in ToSet(in[c]) => x < c)
    BY DEF IsGraph
  <2> QED
    BY <2>1, <2>2, EvalGraphAssumption DEF Arrays
<1>11. \A x \in Arrays :
         x \in R <=> \E y \in group(x) : y \in S \/ \E c \in R \cap U : y \in ToSet(in[c])
  BY <1>7, <1>8, <1>9, <1>10
<1>12. ASSUME NEW V \in SUBSET Arrays,
              \A x \in Arrays : \A y \in group(x) :
                y \in S \/ (\E c \in V \cap U : y \in ToSet(in[c])) => x \in V
       PROVE  R \subseteq V
  <2> DEFINE Missing == R \ V
             Lowest(n) == {x \in Missing : n \in OutputsIn(g, x)
                                           /\ \A z \in OutputsIn(g, x) : n <= z}
             T == {k \in Nat : \E n \in Arrays : k = N - n /\ Lowest(n) # {}}
  <2>0. \A x \in Arrays : OutputsIn(g, x) \subseteq Arrays /\ x \in OutputsIn(g, x)
                          /\ \A c \in OutputsIn(g, x) : in[c] = in[x]
    BY DEF OutputsIn, IsGraph
  <2>00. Missing \subseteq Arrays /\ R \subseteq Arrays
    BY <1>8
  <2>1. ASSUME NEW x \in Missing
        PROVE  \E n \in Arrays : x \in Lowest(n)
    <3>1. OutputsIn(g, x) \subseteq Nat /\ OutputsIn(g, x) # {}
      BY <2>0, <2>00 DEF Arrays
    <3>2. PICK n \in OutputsIn(g, x) : \A z \in OutputsIn(g, x) : n <= z
      BY <3>1, LeastNat
    <3> QED
      BY <2>0, <2>00, <3>2
  <2> SUFFICES ASSUME Missing # {} PROVE FALSE
    OBVIOUS
  <2>2. T # {} /\ T \subseteq Nat
    <3>1. PICK n \in Arrays : Lowest(n) # {}
      BY <2>1
    <3>2. N - n \in Nat
      BY EvalGraphAssumption DEF Arrays
    <3> QED
      BY <3>1, <3>2
  <2>3. PICK k \in T : \A j \in T : k <= j
    <3> HIDE DEF T
    <3> QED
      BY <2>2, LeastNat
  <2>40. PICK n \in Arrays : k = N - n /\ Lowest(n) # {}
    OBVIOUS
  <2>4. PICK x \in Lowest(n) : TRUE
    BY <2>40
  <2>5. x \in Missing /\ x \in Arrays /\ x \in R /\ x \notin V
    BY <2>00
  <2>6. PICK y \in group(x) : y \in S \/ \E c \in R \cap U : y \in ToSet(in[c])
    BY <1>11, <2>5
  <2>7. PICK c \in R \cap U : y \in ToSet(in[c])
    BY <1>12, <2>5, <2>6
  <2>8. c \notin V
    BY <1>12, <2>5, <2>7
  <2>9. c \in Missing
    BY <2>7, <2>8
  <2>10. PICK l \in Arrays : c \in Lowest(l)
    BY <2>1, <2>9
  <2>11. y \in OutputsIn(g, x)
    BY <2>6, <2>0, <2>5 DEF group
  <2>12. n <= y
    BY <2>4, <2>11
  <2>13. l \in OutputsIn(g, c) /\ in[l] = in[c]
    BY <2>0, <2>9, <2>10, <2>00
  <2>14. y < l
    BY <2>7, <2>13 DEF IsGraph
  <2>15. n < l /\ n \in Nat /\ l \in Nat /\ N \in Nat /\ N - l \in Nat
    <3>1. y \in Arrays
      BY <1>10, <2>5, <2>6
    <3> QED
      BY <2>12, <2>14, <3>1, EvalGraphAssumption DEF Arrays
  <2>16. N - l \in T
    <3>1. Lowest(l) # {}
      BY <2>10
    <3> HIDE DEF Lowest
    <3> QED
      BY <2>15, <3>1
  <2>17. k <= N - l
    BY <2>3, <2>16
  <2> QED
    BY <2>40, <2>15, <2>17
<1> QED
  BY <1>1, <1>8, <1>11, <1>12 DEF R

-----------------------------------------------------------------------------
(* The tape, as the order in which arrays are scheduled *)

\* An entry that publishes x comes before entry k of the tape.
Before(k, x) ==
  \/ pc \in InBody /\ m.cur \in Outputs(x)
  \/ \E j \in DOMAIN m.tape : j < k /\ m.tape[j] \in Outputs(x)

\* What the entries still to come have of the tape's contract: the Synchronizer
\* is the last; the others are unscheduled and have a consumer further on; no
\* primitive is evaluated twice; inputs come first.
EntryGood(k) ==
  /\ m.tape[k] = Sync <=> k = Len(m.tape)
  /\ m.tape[k] # Sync =>
       /\ Unscheduled(m.tape[k])
       /\ \E j \in DOMAIN m.tape : k < j /\ m.tape[k] \in ToSet(InputsOf(m.tape[j]))
  /\ \A j \in DOMAIN m.tape : j # k => m.tape[j] \notin Outputs(m.tape[k])
  /\ \A x \in ToSet(InputsOf(m.tape[k])) : Unscheduled(x) => Before(k, x)

\* The same of the entry in hand.
CurrentGood ==
  /\ m.cur = Sync <=> m.tape = <<>>
  /\ m.cur # Sync =>
       /\ Unscheduled(m.cur)
       /\ \E k \in DOMAIN m.tape : m.cur \in ToSet(InputsOf(m.tape[k]))
  /\ \A k \in DOMAIN m.tape : m.tape[k] \notin Outputs(m.cur)
  /\ \A x \in ToSet(InputsOf(m.cur)) : ~Unscheduled(x)

Schedule ==
  /\ pc \in Running => \A k \in DOMAIN m.tape : EntryGood(k)
  /\ pc \in InBody => CurrentGood
  /\ pc = "next" => m.cur = Sync

\* The tape as numbers and entries.
LEMMA TapeFacts ==
  ASSUME Types
  PROVE  /\ Len(m.tape) \in Nat /\ DOMAIN m.tape = 1 .. Len(m.tape)
         /\ \A k \in DOMAIN m.tape : m.tape[k] \in Entries
         /\ m.cur \in Entries /\ m.home \in Streams
         /\ m.outs \in Seq(Arrays) /\ m.tape \in Seq(Entries)
         /\ m.tape = <<>> <=> Len(m.tape) = 0
<1>1. m.tape \in Seq(Entries) /\ m.cur \in Entries /\ m.home \in Streams
      /\ m.outs \in Seq(Arrays)
  BY DEF Types, Locals
<1> QED
  BY <1>1, LenProperties, ElementOfSeq, EmptySeq

\* Arrays have outputs that are arrays, each with the same outputs; the
\* Synchronizer is not one of them.
LEMMA GroupFacts ==
  ASSUME IsGraph(graph), NEW a \in Arrays
  PROVE  /\ a # Sync /\ a \in Outputs(a) /\ Outputs(a) \subseteq Arrays
         /\ Outputs(a) = OutputsIn(graph, a)
         /\ InputsOf(a) = graph.in[a] /\ StreamOf(a) = graph.stream[a]
         /\ \A x \in Outputs(a) :
              /\ Outputs(x) = Outputs(a) /\ graph.in[x] = graph.in[a]
              /\ graph.kind[x] = graph.kind[a] /\ graph.stream[x] = graph.stream[a]
<1>1. a # Sync /\ \A x \in Arrays : x # Sync
  BY DEF Arrays, Sync
<1>2. Outputs(a) = {a} \cup graph.sib[a] /\ \A x \in Arrays : Outputs(x) = {x} \cup graph.sib[x]
  BY <1>1 DEF Outputs, OutputsIn
<1>3. \A s \in graph.sib[a] :
        /\ s # a /\ graph.sib[s] = (graph.sib[a] \ {s}) \cup {a}
        /\ graph.in[s] = graph.in[a] /\ graph.kind[s] = graph.kind[a]
        /\ graph.stream[s] = graph.stream[a]
  BY DEF IsGraph
<1>4. graph.sib[a] \subseteq Arrays
  BY DEF IsGraph
<1>5. \A x \in Outputs(a) : Outputs(x) = Outputs(a)
  BY <1>2, <1>3, <1>4
<1> QED
  BY <1>1, <1>2, <1>3, <1>4, <1>5 DEF InputsOf, StreamOf, OutputsIn

\* A tape as the graph walk makes it keeps the contract.
LEMMA ScheduleStarts ==
  ASSUME Types, NEW outs \in Seq(Arrays), NEW async, EvalImpl(async, outs)
  PROVE  Schedule'
<1>1. PICK k \in DOMAIN outs, t \in Tapes(outs) :
        m' = [NoEval EXCEPT !.async = async, !.outs = outs,
                            !.home = graph.stream[outs[k]],
                            !.tape = Append(t, Sync),
                            !.needsFence = NeedsFence(t, outs, graph.stream[outs[k]])]
  BY DEF EvalImpl
<1>2. m'.tape = Append(t, Sync) /\ m'.outs = outs /\ m'.cur = Sync
  BY <1>1 DEF NoEval
<1>3. /\ t \in Seq(Arrays) /\ t \in Seq(Pending) /\ IsTape(graph, Pending, outs, t)
      /\ IsGraph(graph)
  BY <1>2, TapesTyped DEF Types
<1>4. pc' = "next" /\ graph' = graph /\ status' = status
  BY DEF EvalImpl, arrayVars
<1>5. /\ DOMAIN m'.tape = 1 .. Len(t) + 1 /\ Len(t) \in Nat /\ DOMAIN t = 1 .. Len(t)
      /\ \A j \in 1 .. Len(t) : m'.tape[j] = t[j] /\ t[j] \in Arrays /\ t[j] \in Pending
      /\ m'.tape[Len(t) + 1] = Sync
      /\ Len(m'.tape) = Len(t) + 1
  <2>1. IsSeq(t) /\ \A j \in DOMAIN t : t[j] \in Arrays /\ t[j] \in Pending
    BY <1>3, ElementOfSeq, LenProperties DEF IsSeq
  <2>2. m'.tape \in Seq(Arrays \cup {Sync}) /\ Len(m'.tape) = Len(t) + 1
    <3>1. t \in Seq(Arrays \cup {Sync})
      BY <1>3, SeqMonotonic
    <3> QED
      BY <1>2, <3>1, AppendProperties
  <2> QED
    BY <1>2, <2>1, <2>2, AppendFacts
<1>6. \A x \in Arrays : x # Sync /\ Outputs(x) = OutputsIn(graph, x) /\ Outputs(x)' = Outputs(x)
                        /\ (Unscheduled(x)' <=> x \in Pending)
                        /\ InputsOf(x)' = graph.in[x]
  BY <1>4 DEF Outputs, Arrays, Sync, Unscheduled, Pending, InputsOf
<1>7. (Outputs(Sync) = {Sync})' /\ InputsOf(Sync)' = outs
  BY <1>2 DEF Outputs, InputsOf
<1>8. \A i, j \in 1 .. Len(t) : i # j => t[j] \notin Outputs(t[i])
  <2> DEFINE groups == {OutputsIn(graph, a) : a \in Needed(graph, Pending, outs)}
             M == 1 .. Len(t)
             f == [i \in M |-> OutputsIn(graph, t[i])]
  <2>1. /\ Len(t) = Cardinality(groups)
        /\ \A grp \in groups : \E i \in DOMAIN t : t[i] \in grp
    BY <1>3 DEF IsTape
  <2>2. \A i \in M : t[i] \in Needed(graph, Pending, outs)
    <3>1. t \in BoundedSeq(Needed(graph, Pending, outs), N)
      BY DEF Tapes
    <3>2. t \in Seq(Needed(graph, Pending, outs))
      BY <3>1 DEF BoundedSeq, SeqOf
    <3> QED
      BY <3>2, <1>5, ElementOfSeq
  <2>3. f \in [M -> groups]
    BY <2>2
  <2>4. \A grp \in groups : \E i \in M : f[i] = grp
    <3> SUFFICES ASSUME NEW grp \in groups PROVE \E i \in M : f[i] = grp
      OBVIOUS
    <3>1. PICK i \in M : t[i] \in grp
      BY <1>5, <2>1
    <3>2. PICK a \in Needed(graph, Pending, outs) : grp = OutputsIn(graph, a)
      OBVIOUS
    <3>3. a \in Arrays
      BY <3>2 DEF Needed, Pending
    <3>4. grp = Outputs(a) /\ t[i] \in Outputs(a)
      BY <1>6, <3>1, <3>2, <3>3
    <3>5. Outputs(t[i]) = Outputs(a)
      BY <1>3, <3>3, <3>4, GroupFacts
    <3> QED
      BY <1>5, <1>6, <3>4, <3>5
  <2>5. f \in Surjection(M, groups)
    BY <2>3, <2>4 DEF Surjection
  <2>6. IsFiniteSet(M) /\ Cardinality(M) = Len(t)
    <3>1. IsFiniteSet(1 .. Len(t)) /\ Cardinality(1 .. Len(t)) =
            IF 1 > Len(t) THEN 0 ELSE Len(t) - 1 + 1
      <4>1. PICK l \in Nat : l = Len(t)
        BY <1>5
      <4>2. IsFiniteSet(1 .. l) /\ Cardinality(1 .. l) = IF 1 > l THEN 0 ELSE l - 1 + 1
        BY FS_Interval
      <4> QED
        BY <4>1, <4>2
    <3> QED
      BY <1>5, <3>1
  <2>7. f \in Injection(M, groups)
    <3> HIDE DEF groups, f, M
    <3> QED
      BY <2>1, <2>5, <2>6, FS_SurjSameCardinalityImpliesInj
  <2>8. ASSUME NEW i \in M, NEW j \in M, i # j, t[j] \in Outputs(t[i]) PROVE FALSE
    <3>1. Outputs(t[j]) = Outputs(t[i])
      BY <1>3, <1>5, <2>8, GroupFacts
    <3>2. f[i] = f[j]
      BY <1>5, <1>6, <3>1
    <3>3. \A p, q \in M : f[p] = f[q] => p = q
      <4>1. DOMAIN f = M
        OBVIOUS
      <4> HIDE DEF f, M
      <4> QED
        BY <2>7, <4>1 DEF Injection, IsInjective
    <3> QED
      BY <2>8, <3>2, <3>3
  <2> QED
    BY <2>8
<1>9. ASSUME NEW i \in 1 .. Len(t), NEW x \in ToSet(graph.in[t[i]]), x \in Pending
      PROVE  \E j \in 1 .. i - 1 : t[j] \in OutputsIn(graph, x)
  BY <1>3, <1>5, <1>9 DEF IsTape
<1>10. ASSUME NEW x \in ToSet(outs), x \in Pending
       PROVE  \E j \in 1 .. Len(t) : t[j] \in OutputsIn(graph, x)
  <2>1. \A y \in ToSet(outs) \cap Pending :
          \E j \in 1 .. (Len(t) + 1) - 1 : t[j] \in OutputsIn(graph, y)
    BY ONLY <1>3 DEF IsTape
  <2> QED
    BY <1>5, <1>10, <2>1
<1>11. ASSUME NEW i \in 1 .. Len(t)
       PROVE  t[i] \in ToSet(outs) \/ \E j \in i + 1 .. Len(t) : t[i] \in ToSet(graph.in[t[j]])
  BY <1>3, <1>5 DEF IsTape
<1>12. ASSUME NEW i \in 1 .. Len(t) PROVE EntryGood(i)'
  <2>1. m'.tape[i] = t[i] /\ t[i] \in Arrays /\ t[i] # Sync /\ i # Len(m'.tape)
        /\ i \in DOMAIN m'.tape
    BY <1>5, <1>6
  <2>2. Unscheduled(t[i])'
    BY <1>5, <1>6
  <2>3. \E j \in DOMAIN m'.tape : i < j /\ t[i] \in ToSet(InputsOf(m.tape[j])')
    <3>1. CASE t[i] \in ToSet(outs)
      <4>1. InputsOf(m.tape[Len(t) + 1])' = outs
        BY <1>5, <1>7 DEF InputsOf
      <4> QED
        BY <1>5, <3>1, <4>1
    <3>2. CASE \E j \in i + 1 .. Len(t) : t[i] \in ToSet(graph.in[t[j]])
      <4>1. PICK j \in i + 1 .. Len(t) : t[i] \in ToSet(graph.in[t[j]])
        BY <3>2
      <4>2. j \in 1 .. Len(t) /\ i < j
        OBVIOUS
      <4>3. InputsOf(m.tape[j])' = graph.in[t[j]]
        BY <1>4, <1>5, <1>6, <4>2 DEF InputsOf
      <4> QED
        BY <1>5, <4>1, <4>2, <4>3
    <3> QED
      BY <1>11, <3>1, <3>2
  <2>4. \A j \in DOMAIN m'.tape : j # i => m'.tape[j] \notin (Outputs(m.tape[i]))'
    <3>1. (Outputs(m.tape[i]))' = Outputs(t[i])
      BY <1>4, <1>5, <1>6 DEF Outputs
    <3>2. Sync \notin Outputs(t[i])
      BY <1>3, <1>5, GroupFacts DEF Arrays, Sync
    <3> QED
      BY <1>5, <1>8, <3>1, <3>2
  <2>5. \A x \in ToSet((InputsOf(m.tape[i]))') : Unscheduled(x)' => Before(i, x)'
    <3> SUFFICES ASSUME NEW x \in ToSet((InputsOf(m.tape[i]))'), Unscheduled(x)'
                 PROVE  Before(i, x)'
      OBVIOUS
    <3>1. (InputsOf(m.tape[i]))' = graph.in[t[i]]
      BY <1>4, <1>5, <1>6 DEF InputsOf
    <3>2. x \in Arrays
      BY <1>3, <1>5, <3>1, InputFacts
    <3>3. PICK j \in 1 .. i - 1 : t[j] \in OutputsIn(graph, x)
      BY <1>6, <1>9, <3>1, <3>2
    <3>4. j \in DOMAIN m'.tape /\ j < i /\ m'.tape[j] \in Outputs(x)'
      BY <1>5, <1>6, <3>2, <3>3
    <3> QED
      BY <3>4 DEF Before
  <2> QED
    BY <2>1, <2>2, <2>3, <2>4, <2>5 DEF EntryGood
<1>13. EntryGood(Len(t) + 1)'
  <2> DEFINE l == Len(t) + 1
  <2>1. \A j \in DOMAIN m'.tape : j # l => m'.tape[j] \notin (Outputs(m.tape[l]))'
    <3>1. (Outputs(m.tape[l]))' = {Sync}
      BY <1>5, <1>7 DEF Outputs
    <3> QED
      BY <1>5, <1>6, <3>1
  <2>2. \A x \in ToSet((InputsOf(m.tape[l]))') : Unscheduled(x)' => Before(l, x)'
    <3> SUFFICES ASSUME NEW x \in ToSet((InputsOf(m.tape[l]))'), Unscheduled(x)'
                 PROVE  Before(l, x)'
      OBVIOUS
    <3>1. (InputsOf(m.tape[l]))' = outs
      BY <1>5, <1>7 DEF InputsOf
    <3>2. x \in Arrays
      <4>1. outs \in Seq(Arrays)
        OBVIOUS
      <4> QED
        BY <3>1, <4>1, ElementOfSeq, LenProperties DEF ToSet
    <3>3. PICK j \in 1 .. Len(t) : t[j] \in OutputsIn(graph, x)
      BY <1>6, <1>10, <3>1, <3>2
    <3>4. j \in DOMAIN m'.tape /\ j < l /\ m'.tape[j] \in Outputs(x)'
      BY <1>5, <1>6, <3>2, <3>3
    <3> QED
      BY <3>4 DEF Before
  <2> QED
    BY <1>5, <2>1, <2>2 DEF EntryGood
<1>14. \A i \in DOMAIN m'.tape : EntryGood(i)'
  BY <1>5, <1>12, <1>13
<1> QED
  BY <1>2, <1>4, <1>14 DEF Schedule, InBody

\* What a call of eval starts with.
LEMMA UserStarts ==
  ASSUME Types, User
  PROVE  \/ \E outs \in Seq(Arrays), async \in BOOLEAN :
              ToSet(outs) \subseteq held /\ EvalImpl(async, outs)
         \/ \E a \in Arrays : Await(a) \/ Drop(a)
<1>1. ASSUME NEW n \in 1 .. MaxOutputs, NEW outs \in [1 .. n -> held]
      PROVE  outs \in Seq(Arrays)
  <2>1. outs \in [1 .. n -> Arrays] /\ n \in Nat
    BY AsyncEvalAssumption DEF Types
  <2> QED
    BY <2>1, SeqDef
<1>2. ASSUME NEW n \in 1 .. MaxOutputs, NEW outs \in [1 .. n -> held], NEW async \in BOOLEAN,
             EvalImpl(async, outs)
      PROVE  \E o \in Seq(Arrays), b \in BOOLEAN : ToSet(o) \subseteq held /\ EvalImpl(b, o)
  <2>1. outs \in Seq(Arrays) /\ ToSet(outs) \subseteq held
    BY <1>1, <1>2 DEF EvalImpl
  <2> QED
    BY <1>2, <2>1
<1> QED
  BY <1>2 DEF User

\* Taking the next entry: what it needed from earlier ones was published.
LEMMA ScheduleAdvances ==
  ASSUME Types, Schedule, NextEntry
  PROVE  Schedule'
<1>00. PICK a : a = m.tape[1]
  OBVIOUS
<1>0. IsGraph(graph)
  BY DEF Types
<1>1. /\ pc = "next" /\ pc' = "inputs" /\ a \in Entries /\ graph' = graph /\ status' = status
      /\ 1 \in DOMAIN m.tape /\ m'.cur = a
      /\ \A k \in DOMAIN m'.tape :
           k \in Nat /\ k + 1 \in DOMAIN m.tape /\ m'.tape[k] = m.tape[k + 1]
      /\ \A k \in DOMAIN m.tape :
           k # 1 => k - 1 \in DOMAIN m'.tape /\ m'.tape[k - 1] = m.tape[k]
      /\ m'.outs = m.outs
  BY <1>00, EntryTaken
<1>2. /\ Len(m'.tape) = Len(m.tape) - 1 /\ Len(m.tape) \in Nat \ {0}
      /\ m'.tape = <<>> <=> Len(m.tape) = 1
      /\ DOMAIN m'.tape = 1 .. Len(m.tape) - 1 /\ DOMAIN m.tape = 1 .. Len(m.tape)
  <2>1. m'.tape = Tail(m.tape) /\ m.tape # <<>>
    BY DEF NextEntry, Types, Locals
  <2>2. m.tape \in Seq(Entries)
    BY TapeFacts
  <2>3. Tail(m.tape) \in Seq(Entries) /\ Len(Tail(m.tape)) = Len(m.tape) - 1
        /\ Len(m.tape) \in Nat \ {0}
    BY <2>1, <2>2, HeadTailProperties, EmptySeq, LenProperties
  <2>4. /\ DOMAIN m'.tape = 1 .. Len(m'.tape) /\ (m'.tape = <<>> <=> Len(m'.tape) = 0)
        /\ DOMAIN m.tape = 1 .. Len(m.tape)
    BY <2>1, <2>2, <2>3, EmptySeq, LenProperties
  <2> QED
    BY <2>1, <2>3, <2>4
<1>3. \A k \in DOMAIN m.tape : EntryGood(k)
  BY <1>1 DEF Schedule, Running
<1>4. \A x : InputsOf(x)' = InputsOf(x) /\ Outputs(x)' = Outputs(x)
             /\ (Unscheduled(x)' <=> Unscheduled(x))
  BY <1>1 DEF InputsOf, Outputs, Unscheduled
<1>5. ASSUME NEW k \in DOMAIN m.tape, NEW x, Before(k, x), k # 1
      PROVE  Before(k - 1, x)'
  <2>1. PICK j \in DOMAIN m.tape : j < k /\ m.tape[j] \in Outputs(x)
    BY <1>1, <1>5 DEF Before, InBody
  <2>2. CASE j = 1
    BY <1>00, <1>1, <1>4, <2>1, <2>2 DEF Before, InBody
  <2>3. CASE j # 1
    <3>1. j - 1 \in DOMAIN m'.tape /\ m'.tape[j - 1] = m.tape[j] /\ j - 1 < k - 1
      BY <1>1, <1>2, <2>1, <2>3
    <3> QED
      BY <1>4, <2>1, <3>1 DEF Before
  <2> QED
    BY <2>2, <2>3
<1>6. ASSUME NEW k \in DOMAIN m'.tape PROVE EntryGood(k)'
  <2>0. PICK l, b : l = k + 1 /\ b = m.tape[k + 1]
    OBVIOUS
  <2>1. k \in Nat /\ l \in DOMAIN m.tape /\ m'.tape[k] = b /\ l # 1 /\ k = l - 1
        /\ b = m.tape[l]
    BY <1>1, <1>2, <2>0
  <2>2. EntryGood(l)
    BY <1>3, <2>1
  <2>3. b = Sync <=> k = Len(m'.tape)
    BY <1>2, <2>1, <2>2 DEF EntryGood
  <2>4. ASSUME b # Sync
        PROVE  /\ Unscheduled(b)'
               /\ \E j \in DOMAIN m'.tape : k < j /\ b \in ToSet(InputsOf(m.tape[j])')
    <3>1. PICK j \in DOMAIN m.tape : l < j /\ b \in ToSet(InputsOf(m.tape[j]))
      BY <2>1, <2>2, <2>4 DEF EntryGood
    <3>20. j # 1 /\ j \in Nat /\ l \in Nat
      BY <1>2, <2>1, <3>1
    <3>2. j # 1 /\ j - 1 \in DOMAIN m'.tape /\ m'.tape[j - 1] = m.tape[j] /\ k < j - 1
      BY <1>1, <2>1, <3>1, <3>20
    <3>3. InputsOf(m.tape[j - 1])' = InputsOf(m.tape[j])
      BY <1>1, <1>4, <3>2 DEF InputsOf
    <3> QED
      BY <1>4, <2>1, <2>2, <2>4, <3>1, <3>2, <3>3 DEF EntryGood
  <2>5. \A j \in DOMAIN m'.tape : j # k => m'.tape[j] \notin Outputs(b)'
    <3> SUFFICES ASSUME NEW j \in DOMAIN m'.tape, j # k
                 PROVE  m'.tape[j] \notin Outputs(b)'
      OBVIOUS
    <3>1. j + 1 \in DOMAIN m.tape /\ m'.tape[j] = m.tape[j + 1] /\ j + 1 # l
      BY <1>1, <2>1
    <3> QED
      BY <1>4, <2>1, <2>2, <3>1 DEF EntryGood
  <2>6. \A x \in ToSet(InputsOf(b)) : Unscheduled(x) => Before(k, x)'
    BY <1>5, <2>1, <2>2 DEF EntryGood
  <2>7. InputsOf(m.tape[k])' = InputsOf(b) /\ Outputs(m.tape[k])' = Outputs(b)
    BY <1>1, <1>4, <2>1 DEF InputsOf, Outputs
  <2> QED
    BY <1>1, <1>4, <2>1, <2>3, <2>4, <2>5, <2>6, <2>7 DEF EntryGood
<1>7. CurrentGood'
  <2>1. EntryGood(1) /\ Len(m.tape) \in Nat /\ a = m.tape[1]
    BY <1>00, <1>1, <1>2, <1>3
  <2>2. m'.cur = Sync <=> m'.tape = <<>>
    BY <1>1, <1>2, <2>1 DEF EntryGood
  <2>3. ASSUME a # Sync
        PROVE  /\ Unscheduled(a)'
               /\ \E k \in DOMAIN m'.tape : a \in ToSet(InputsOf(m.tape[k])')
    <3>1. PICK j \in DOMAIN m.tape : 1 < j /\ a \in ToSet(InputsOf(m.tape[j]))
      BY <2>1, <2>3 DEF EntryGood
    <3>2. j # 1 /\ j - 1 \in DOMAIN m'.tape /\ m'.tape[j - 1] = m.tape[j]
      BY <1>1, <1>2, <3>1
    <3>3. InputsOf(m.tape[j - 1])' = InputsOf(m.tape[j])
      BY <1>1, <1>4, <3>2 DEF InputsOf
    <3> QED
      BY <1>4, <2>1, <2>3, <3>1, <3>2, <3>3 DEF EntryGood
  <2>4. \A k \in DOMAIN m'.tape : m'.tape[k] \notin Outputs(a)'
    <3> SUFFICES ASSUME NEW k \in DOMAIN m'.tape
                 PROVE  m'.tape[k] \notin Outputs(a)'
      OBVIOUS
    <3>1. k + 1 \in DOMAIN m.tape /\ m'.tape[k] = m.tape[k + 1] /\ k + 1 # 1
      BY <1>1, <1>2
    <3> QED
      BY <1>4, <2>1, <3>1 DEF EntryGood
  <2>5. \A x \in ToSet(InputsOf(a)) : ~Unscheduled(x)
    <3> SUFFICES ASSUME NEW x \in ToSet(InputsOf(a)), Unscheduled(x) PROVE FALSE
      OBVIOUS
    <3>1. Before(1, x)
      BY <2>1 DEF EntryGood
    <3> QED
      BY <1>1, <1>2, <3>1 DEF Before, InBody
  <2>6. InputsOf(m.cur)' = InputsOf(a) /\ Outputs(m.cur)' = Outputs(a)
    BY <1>1, <1>4 DEF InputsOf, Outputs
  <2> QED
    BY <1>1, <1>4, <2>2, <2>3, <2>4, <2>5, <2>6 DEF CurrentGood
<1> QED
  BY <1>1, <1>6, <1>7 DEF Schedule

\* Publishing an entry: whatever waited for it on the tape waits no more.
LEMMA SchedulePublished ==
  ASSUME Types, Schedule, Publish
  PROVE  Schedule'
<1>0. IsGraph(graph) /\ m \in Locals
  BY DEF Types
<1>1. /\ pc \in InBody /\ pc' = "next" /\ graph' = graph
      /\ m'.tape = m.tape
      /\ \A x \in Arrays :
           status'[x] = IF x \in Outputs(m.cur) THEN "evaluated" ELSE status[x]
  BY EntryPublished
<1>2. m'.cur = Sync /\ (m.cur # Sync => m'.outs = m.outs)
  BY <1>0 DEF Publish, Locals
<1>3. CurrentGood /\ \A k \in DOMAIN m.tape : EntryGood(k)
  BY <1>1 DEF Schedule, Running
<1>4. ASSUME NEW k \in DOMAIN m'.tape PROVE EntryGood(k)'
  <2>1. m.cur # Sync /\ k \in DOMAIN m.tape /\ EntryGood(k)
    <3>1. m.tape # <<>>
      BY <1>1, TapeFacts
    <3> QED
      BY <1>1, <1>3, <3>1 DEF CurrentGood
  <2>2. m.cur \in Arrays
    BY <2>1, TapeFacts DEF Entries
  <2>3. \A x : InputsOf(x)' = InputsOf(x) /\ Outputs(x)' = Outputs(x)
    BY <1>1, <1>2, <2>1 DEF InputsOf, Outputs
  <2>4. \A x \in Arrays : Unscheduled(x)' <=> Unscheduled(x) /\ x \notin Outputs(m.cur)
    BY <1>1 DEF Unscheduled
  <2>5. m.tape[k] # Sync => Unscheduled(m.tape[k])'
    <3> SUFFICES ASSUME m.tape[k] # Sync PROVE Unscheduled(m.tape[k])'
      OBVIOUS
    <3>1. m.tape[k] \in Arrays /\ Unscheduled(m.tape[k]) /\ m.tape[k] \notin Outputs(m.cur)
      BY <1>3, <2>1, TapeFacts DEF EntryGood, CurrentGood, Entries
    <3> QED
      BY <1>1, <3>1 DEF Unscheduled
  <2>6. ASSUME NEW x \in ToSet(InputsOf(m.tape[k])), Unscheduled(x)' PROVE Before(k, x)'
    <3>1. m.tape[k] \in Entries
      BY <2>1, TapeFacts
    <3>2. x \in Arrays
      <4>1. InputsOf(m.tape[k]) \in Seq(Arrays)
        BY <3>1, InputsTyped
      <4> QED
        BY <4>1, ElementOfSeq, LenProperties DEF ToSet
    <3>3. Unscheduled(x) /\ x \notin Outputs(m.cur)
      BY <2>4, <2>6, <3>2
    <3>4. Before(k, x)
      BY <2>1, <3>3 DEF EntryGood
    <3>5. m.cur \notin Outputs(x)
      BY <1>0, <2>2, <3>2, <3>3, GroupFacts
    <3> QED
      BY <1>1, <2>3, <3>4, <3>5 DEF Before
  <2>7. InputsOf(m.tape[k])' = InputsOf(m.tape[k])
        /\ Outputs(m.tape[k])' = Outputs(m.tape[k])
        /\ \A j : InputsOf(m.tape[j])' = InputsOf(m.tape[j])
    BY <1>1, <1>2, <2>1 DEF InputsOf, Outputs
  <2> QED
    BY <1>1, <2>1, <2>5, <2>6, <2>7 DEF EntryGood
<1> QED
  BY <1>1, <1>2, <1>4 DEF Schedule, InBody

\* Every step keeps the contract of the tape.
LEMMA ScheduleStep ==
  ASSUME Types, Closing, Schedule, Next \/ UNCHANGED vars
  PROVE  Schedule'
<1>1. ASSUME NEW outs \in Seq(Arrays), NEW async, EvalImpl(async, outs) PROVE Schedule'
  BY <1>1, ScheduleStarts
<1>2. CASE NextEntry
  BY <1>2, ScheduleAdvances
<1>3. CASE Publish
  BY <1>3, SchedulePublished
<1>4. CASE \/ WaitForInput \/ EvalArray \/ Throttle \/ WaitForOne
           \/ OneCompleted \/ CheckMemory
  <2>1. /\ pc \in InBody /\ pc' \in InBody /\ graph' = graph /\ status' = status
        /\ m'.tape = m.tape /\ m'.cur = m.cur /\ m'.outs = m.outs
    BY <1>4, BodySteps
  <2>2. pc' # "next" /\ pc \in Running
    BY <2>1 DEF InBody, Running
  <2>3. (\A k \in DOMAIN m.tape : EntryGood(k)) /\ CurrentGood
    BY <2>1, <2>2 DEF Schedule
  <2>4. \A x : InputsOf(x)' = InputsOf(x) /\ Outputs(x)' = Outputs(x)
               /\ (Unscheduled(x)' <=> Unscheduled(x))
    BY <2>1 DEF InputsOf, Outputs, Unscheduled
  <2>5. \A k, x : Before(k, x)' <=> Before(k, x)
    BY <2>1 DEF Before, Outputs
  <2>6. \A k \in DOMAIN m'.tape : EntryGood(k)'
    BY <2>1, <2>3, <2>5 DEF EntryGood, InputsOf, Outputs, Unscheduled
  <2>7. CurrentGood'
    BY <2>1, <2>3 DEF CurrentGood, InputsOf, Outputs, Unscheduled
  <2> QED
    BY <2>2, <2>6, <2>7 DEF Schedule
<1>5. CASE \/ \E a \in Arrays : Await(a) \/ Drop(a)
           \/ EvalThrows \/ EndEval \/ EvalReturns \/ Awaited
  <2>1. pc' \notin Running /\ pc' # "next" /\ pc' \notin InBody
    BY <1>5 DEF Await, Drop, EvalThrows, EndEval, EvalReturns, Awaited, Running,
         InBody
  <2> QED
    BY <2>1 DEF Schedule
<1>6. CASE Quiescent \/ UNCHANGED vars \/ \E s \in Streams : RunStream(s)
  <2>1. UNCHANGED <<graph, pc, m, status>>
    BY <1>6, Working DEF Quiescent, vars, arrayVars
  <2> QED
    BY <2>1 DEF Schedule, EntryGood, CurrentGood, Before, InputsOf, Outputs, Unscheduled
<1>7. CASE User
  BY <1>1, <1>5, <1>7, UserStarts
<1> QED
  BY <1>2, <1>3, <1>4, <1>5, <1>6, <1>7 DEF Next, Main

-----------------------------------------------------------------------------
(* Live arrays and their buffers *)

\* The arrays that share the primitive of x as long as it is attached; the
\* handles an array can be kept alive by.
Group(x) == IF Unscheduled(x) THEN Outputs(x) ELSE {x}
Handles == held \cup ToSet(m.tape) \cup ToSet(m.outs) \cup {m.cur}

\* Live arrays are what the handles keep alive, and no more.
LEMMA LiveFacts ==
  ASSUME Types
  PROVE  /\ Live \subseteq Arrays
         /\ \A x \in Arrays :
              x \in Live <=>
                \E y \in Group(x) :
                  y \in Handles \/ \E c \in Live \cap Pending : y \in ToSet(graph.in[c])
         /\ \A V \in SUBSET Arrays :
              (\A x \in Arrays : \A y \in Group(x) :
                 y \in Handles \/ (\E c \in V \cap Pending : y \in ToSet(graph.in[c])) => x \in V)
              => Live \subseteq V
<1>1. IsGraph(graph) /\ Pending \subseteq Arrays
  BY DEF Types, Pending
<1>2. \A x \in Arrays : GroupOf(graph, Pending, x) = Group(x)
  BY <1>1, GroupFacts DEF GroupOf, Group, Pending
<1>3. Live = Reach(graph, Pending, Handles)
  BY DEF Live, Handles
<1> HIDE DEF Live, Handles, Pending, Group
<1>4. /\ Reach(graph, Pending, Handles) \subseteq Arrays
      /\ \A x \in Arrays :
           x \in Reach(graph, Pending, Handles) <=>
             \E y \in GroupOf(graph, Pending, x) :
               y \in Handles
               \/ \E c \in Reach(graph, Pending, Handles) \cap Pending : y \in ToSet(graph.in[c])
      /\ \A V \in SUBSET Arrays :
           (\A x \in Arrays : \A y \in GroupOf(graph, Pending, x) :
              y \in Handles \/ (\E c \in V \cap Pending : y \in ToSet(graph.in[c])) => x \in V)
           => Reach(graph, Pending, Handles) \subseteq V
  <2>0. PICK g, U, S : g = graph /\ U = Pending /\ S = Handles
    OBVIOUS
  <2>1. IsGraph(g) /\ U \subseteq Arrays
    BY <1>1, <2>0
  <2>2. /\ Reach(g, U, S) \subseteq Arrays
        /\ \A x \in Arrays :
             x \in Reach(g, U, S) <=>
               \E y \in GroupOf(g, U, x) :
                 y \in S \/ \E c \in Reach(g, U, S) \cap U : y \in ToSet(g.in[c])
        /\ \A V \in SUBSET Arrays :
             (\A x \in Arrays : \A y \in GroupOf(g, U, x) :
                y \in S \/ (\E c \in V \cap U : y \in ToSet(g.in[c])) => x \in V)
             => Reach(g, U, S) \subseteq V
    <3> HIDE <2>0
    <3>1. /\ Reach(g, U, S) \subseteq Arrays
          /\ \A x \in Arrays :
               x \in Reach(g, U, S) <=>
                 \E y \in GroupOf(g, U, x) :
                   y \in S \/ \E c \in Reach(g, U, S) \cap U : y \in ToSet(g.in[c])
      BY ONLY <2>1, ReachFacts
    <3>2. \A V \in SUBSET Arrays :
             (\A x \in Arrays : \A y \in GroupOf(g, U, x) :
                y \in S \/ (\E c \in V \cap U : y \in ToSet(g.in[c])) => x \in V)
             => Reach(g, U, S) \subseteq V
      BY ONLY <2>1, ReachFacts
    <3> QED
      BY ONLY <3>1, <3>2
  <2> QED
    BY <2>0, <2>2
<1> QED
  BY <1>2, <1>3, <1>4

\* A handle keeps its array alive, an attached consumer its inputs, and a
\* primitive all of its outputs.
LEMMA LiveBy ==
  ASSUME Types
  PROVE  /\ \A x \in Handles \cap Arrays : x \in Live
         /\ \A c \in Live \cap Pending : ToSet(graph.in[c]) \subseteq Live
         /\ Siblings => \A x \in Live : Group(x) \subseteq Live
<1>1. \A x \in Arrays : x \in Group(x)
  BY GroupFacts DEF Group, Types
<1>2. \A c \in Pending : ToSet(graph.in[c]) \subseteq Arrays
  BY InputFacts DEF Types, Pending
<1>3. ASSUME Siblings, NEW x \in Live, NEW y \in Group(x) PROVE y \in Live
  <2>1. x \in Arrays
    BY LiveFacts
  <2>2. y \in Arrays /\ Group(y) = Group(x)
    BY <1>3, <2>1, GroupFacts DEF Group, Siblings, Types
  <2> QED
    BY <2>1, <2>2, LiveFacts
<1> QED
  BY <1>1, <1>2, <1>3, LiveFacts

\* The same of what is alive after a step.
LEMMA LiveNext ==
  ASSUME Types', NEW V \in SUBSET Arrays,
         \A x \in Arrays : \A y \in Group(x)' :
           y \in Handles' \/ (\E c \in V \cap Pending' : y \in ToSet(graph'.in[c])) => x \in V
  PROVE  Live' \subseteq V
<1>1. IsGraph(graph') /\ Pending' \subseteq Arrays
  BY DEF Types, Pending
<1>2. \A x \in Arrays : GroupOf(graph', Pending', x) = Group(x)'
  BY DEF GroupOf, Group, Pending, Outputs, Sync, Arrays, Unscheduled
<1>3. Live' = Reach(graph', Pending', Handles')
  BY DEF Live, Handles
<1> HIDE DEF Live, Handles, Pending, Group
<1>4. (\A x \in Arrays : \A y \in GroupOf(graph', Pending', x) :
          y \in Handles' \/ (\E c \in V \cap Pending' : y \in ToSet(graph'.in[c])) => x \in V)
       => Reach(graph', Pending', Handles') \subseteq V
  BY <1>1, ReachFacts
<1> QED
  BY <1>2, <1>3, <1>4

\* What is alive after a step is kept alive by a handle or an attached consumer.
LEMMA LiveWhy ==
  ASSUME Types', NEW V, V = Live', NEW x \in V
  PROVE  \E y \in Group(x)' : y \in Handles' \/ \E c \in V \cap Pending' : y \in ToSet(graph'.in[c])
<1>1. IsGraph(graph') /\ Pending' \subseteq Arrays
  BY DEF Types, Pending
<1>2. \A z \in Arrays : GroupOf(graph', Pending', z) = Group(z)'
  BY DEF GroupOf, Group, Pending, Outputs, Sync, Arrays, Unscheduled
<1>3. Live' = Reach(graph', Pending', Handles')
  BY DEF Live, Handles
<1> HIDE DEF Live, Handles, Pending, Group
<1>4. x \in Reach(graph', Pending', Handles') /\ x \in Arrays
  BY <1>1, <1>3, ReachFacts
<1>5. \E y \in GroupOf(graph', Pending', x) :
        y \in Handles' \/ \E c \in Reach(graph', Pending', Handles') \cap Pending' : y \in ToSet(graph'.in[c])
  BY <1>1, <1>4, ReachFacts
<1> QED
  BY <1>2, <1>3, <1>4, <1>5

\* What is alive after a step was before, if the step attaches no primitive and
\* takes only handles of live arrays.
LEMMA LiveShrinks ==
  ASSUME Types, Types', Siblings, graph' = graph, Pending' \subseteq Pending,
         \A x \in Handles' \cap Arrays : x \in Live
  PROVE  Live' \subseteq Live
<1>1. Live \in SUBSET Arrays
  BY LiveFacts
<1>2. ASSUME NEW x \in Arrays, NEW y \in Group(x)',
             y \in Handles' \/ \E c \in Live \cap Pending' : y \in ToSet(graph.in[c])
      PROVE  x \in Live
  <2>1. y \in Group(x)
    <3>1. x \in Pending' => x \in Pending
      OBVIOUS
    <3>2. x \in Group(x) /\ Outputs(x)' = Outputs(x)
      BY GroupFacts DEF Group, Types, Outputs
    <3> QED
      BY <1>2, <3>1, <3>2 DEF Group, Pending, Unscheduled
  <2>2. y \in Arrays
    BY <2>1, GroupFacts DEF Group, Types
  <2>3. y \in Live
    BY <1>2, <2>2, LiveBy
  <2>4. x \in Group(y)
    <3>1. CASE Unscheduled(x)
      BY <2>1, <2>2, <3>1, GroupFacts DEF Group, Siblings, Types
    <3>2. CASE ~Unscheduled(x)
      BY <2>1, <3>2, GroupFacts DEF Group, Types
    <3> QED
      BY <3>1, <3>2
  <2> QED
    BY <2>3, <2>4, LiveBy
<1> QED
  BY <1>1, <1>2, LiveNext

-----------------------------------------------------------------------------
(* Reference counts *)

\* Only streams of the graph are ever used.
Used == {graph.stream[x] : x \in Arrays}
UsedOnly ==
  /\ \A s \in Streams : queue[s] # <<>> => s \in Used
  /\ pc \in Running => m.home \in Used /\ m.open \subseteq Used

\* The tasks in flight that hold buffer b, and the live arrays in it.
Holders(b) == Pairs([s \in Streams |-> {i \in DOMAIN queue[s] : b \in queue[s][i].holds}])
Owners(b) == {x \in Live : buf[x] = b}

\* data.use_count() counts a finite number of arrays and tasks.
LEMMA DataRefsFacts ==
  ASSUME Types, UsedOnly, NEW b
  PROVE  /\ IsFiniteSet(Holders(b)) /\ IsFiniteSet(Owners(b))
         /\ Cardinality(Holders(b)) \in Nat /\ Cardinality(Owners(b)) \in Nat
         /\ DataRefs(b) = Cardinality(Owners(b)) + Cardinality(Holders(b))
<1> DEFINE of(s) == {<<s, i>> : i \in {j \in DOMAIN queue[s] : b \in queue[s][j].holds}}
           H == UNION {of(s) : s \in Streams}
           W == [s \in Streams |-> {i \in DOMAIN queue[s] : b \in queue[s][i].holds}]
<1>1. H = Holders(b)
  <2>1. \A s \in Streams : of(s) = {<<s, i>> : i \in W[s]}
    OBVIOUS
  <2> QED
    BY <2>1 DEF Holders, Pairs
<1>2. \A s \in Streams : IsFiniteSet(of(s)) /\ (s \notin Used => of(s) = {})
  <2> SUFFICES ASSUME NEW s \in Streams
               PROVE  IsFiniteSet(of(s)) /\ (s \notin Used => of(s) = {})
    OBVIOUS
  <2>1. IsSeq(queue[s])
    BY DEF Types
  <2>2. Len(queue[s]) \in Nat /\ DOMAIN queue[s] = 1 .. Len(queue[s])
    BY <2>1, ConcatFacts
  <2>3. IsFiniteSet(1 .. Len(queue[s]))
    <3>1. PICK l \in Nat : l = Len(queue[s])
      BY <2>2
    <3>2. IsFiniteSet(1 .. l)
      BY FS_Interval
    <3> QED
      BY <3>1, <3>2
  <2>4. IsFiniteSet({j \in DOMAIN queue[s] : b \in queue[s][j].holds})
    BY <2>2, <2>3, FS_Subset
  <2>5. IsFiniteSet(of(s))
    <3> DEFINE D == {j \in DOMAIN queue[s] : b \in queue[s][j].holds}
               f == [i \in D |-> <<s, i>>]
    <3>1. f \in Surjection(D, of(s))
      <4>1. f \in [D -> of(s)]
        OBVIOUS
      <4>2. \A p \in of(s) : \E i \in D : f[i] = p
        OBVIOUS
      <4> QED
        BY <4>1, <4>2 DEF Surjection
    <3> HIDE DEF f, D
    <3>2. IsFiniteSet(D)
      BY <2>4 DEF D
    <3> QED
      BY <3>1, <3>2, FS_Surjection
  <2>6. s \notin Used => of(s) = {}
    <3> SUFFICES ASSUME s \notin Used PROVE of(s) = {}
      OBVIOUS
    <3>1. queue[s] = <<>>
      BY DEF UsedOnly
    <3> QED
      BY <3>1
  <2> QED
    BY <2>5, <2>6
<1> HIDE DEF of
<1>3. IsFiniteSet(Used)
  <2> DEFINE g == [x \in Arrays |-> graph.stream[x]]
  <2>1. g \in Surjection(Arrays, Used)
    BY DEF Surjection, Used
  <2>2. IsFiniteSet(Arrays)
    BY FS_Interval, EvalGraphAssumption DEF Arrays
  <2> HIDE DEF g
  <2> QED
    BY <2>1, <2>2, FS_Surjection
<1>4. IsFiniteSet({of(s) : s \in Used \cap Streams})
  <2> DEFINE U == Used \cap Streams
             h == [s \in U |-> of(s)]
  <2>1. h \in Surjection(U, {of(s) : s \in U})
    BY DEF Surjection
  <2>2. IsFiniteSet(U)
    BY <1>3, FS_Intersection
  <2> HIDE DEF h, U
  <2>3. IsFiniteSet({of(s) : s \in U})
    BY <2>1, <2>2, FS_Surjection
  <2> QED
    BY <2>3 DEF U
<1>5. H = UNION {of(s) : s \in Used \cap Streams}
  BY <1>2
<1>6. IsFiniteSet(H)
  <2>1. \A T \in {of(s) : s \in Used \cap Streams} : IsFiniteSet(T)
    BY <1>2
  <2> QED
    BY <1>4, <1>5, <2>1, FS_UNION
<1>7. IsFiniteSet(Owners(b))
  <2>1. IsFiniteSet(Arrays)
    BY FS_Interval, EvalGraphAssumption DEF Arrays
  <2>2. Owners(b) \subseteq Arrays
    BY LiveFacts DEF Owners
  <2> QED
    BY <2>1, <2>2, FS_Subset
<1>8. DataRefs(b) = Cardinality(Owners(b)) + Cardinality(H)
  BY DEF DataRefs, Owners, of
<1> QED
  BY <1>1, <1>6, <1>7, <1>8, FS_CardinalityType

\* A buffer is free when no live array is in it and no task holds it.
LEMMA FreeFacts ==
  ASSUME Types, UsedOnly, NEW b
  PROVE  /\ Free(b) <=> /\ \A x \in Live : buf[x] # b
                        /\ \A s \in Streams : \A i \in DOMAIN queue[s] : b \notin queue[s][i].holds
         /\ DataRefs(b) = 1 =>
              \A x \in Live : buf[x] = b =>
                /\ \A y \in Live : buf[y] = b => y = x
                /\ \A s \in Streams : \A i \in DOMAIN queue[s] : b \notin queue[s][i].holds
<1>1. /\ IsFiniteSet(Holders(b)) /\ IsFiniteSet(Owners(b))
      /\ Cardinality(Holders(b)) \in Nat /\ Cardinality(Owners(b)) \in Nat
      /\ DataRefs(b) = Cardinality(Owners(b)) + Cardinality(Holders(b))
  BY DataRefsFacts
<1>2. Holders(b) = {} <=>
        \A s \in Streams : \A i \in DOMAIN queue[s] : b \notin queue[s][i].holds
  <2> DEFINE W == [s \in Streams |-> {i \in DOMAIN queue[s] : b \in queue[s][i].holds}]
  <2>1. Holders(b) = Pairs(W)
    BY DEF Holders
  <2>2. \A s \in Streams : \A i : i \in W[s] <=> i \in DOMAIN queue[s] /\ b \in queue[s][i].holds
    OBVIOUS
  <2> HIDE DEF W
  <2>3. /\ \A s \in Streams : \A i : <<s, i>> \in Pairs(W) <=> i \in W[s]
        /\ \A p \in Pairs(W) : p[1] \in Streams /\ p[2] \in W[p[1]] /\ p = <<p[1], p[2]>>
    BY PairsFacts
  <2>4. ASSUME Holders(b) = {}, NEW s \in Streams, NEW i \in DOMAIN queue[s]
        PROVE  b \notin queue[s][i].holds
    BY <2>1, <2>2, <2>3, <2>4
  <2>5. ASSUME \A s \in Streams : \A i \in DOMAIN queue[s] : b \notin queue[s][i].holds,
               NEW p \in Holders(b)
        PROVE  FALSE
    <3>1. p[1] \in Streams /\ p[2] \in W[p[1]]
      BY <2>1, <2>3
    <3> QED
      BY <2>2, <2>5, <3>1
  <2> QED
    BY <2>4, <2>5
<1>3. Owners(b) = {} <=> \A x \in Live : buf[x] # b
  BY DEF Owners
<1>4. /\ Cardinality(Holders(b)) = 0 <=> Holders(b) = {}
      /\ Cardinality(Owners(b)) = 0 <=> Owners(b) = {}
  BY <1>1, FS_EmptySet
<1>5. ASSUME DataRefs(b) = 1, NEW x \in Live, buf[x] = b
      PROVE  Holders(b) = {} /\ \A y \in Live : buf[y] = b => y = x
  <2>1. x \in Owners(b)
    BY <1>5 DEF Owners
  <2>2. Cardinality(Owners(b)) = 1 /\ Cardinality(Holders(b)) = 0
    BY <1>1, <1>4, <1>5, <2>1
  <2>3. PICK z : Owners(b) = {z}
    BY <1>1, <2>2, FS_Singleton
  <2> QED
    BY <1>4, <2>1, <2>2, <2>3 DEF Owners
<1> QED
  BY <1>1, <1>2, <1>3, <1>4, <1>5 DEF Free

-----------------------------------------------------------------------------
(* What eval_cpu finds *)

\* An input of a live primitive that may be donated: nothing else refers to the
\* array, and nothing but the array to its buffer.
LEMMA DonatableFacts ==
  ASSUME Types, UsedOnly, NEW a \in Live \cap Pending, NEW i \in DOMAIN graph.in[a],
         Donatable(graph.in[a][i])
  PROVE  LET x == graph.in[a][i]
         IN  /\ x \in Live /\ x \in Arrays /\ x \notin held /\ x \notin ToSet(m.outs)
             /\ \A c \in Live \cap Pending : \A j \in DOMAIN graph.in[c] :
                  graph.in[c][j] = x => c = a /\ j = i
             /\ \A y \in Live : buf[y] = buf[x] => y = x
             /\ \A s \in Streams : \A k \in DOMAIN queue[s] :
                  buf[x] \notin queue[s][k].holds
<1> DEFINE x == graph.in[a][i]
           slots(c) == {<<c, j>> : j \in {k \in DOMAIN graph.in[c] : graph.in[c][k] = x}}
           U == UNION {slots(c) : c \in Live \cap Pending}
           occ == {k \in DOMAIN m.outs : m.outs[k] = x}
<1>1. a \in Arrays /\ graph.in[a] \in Seq(Arrays) /\ x \in ToSet(graph.in[a])
  BY InputFacts DEF Types, Pending, ToSet
<1>2. x \in Live /\ x \in Arrays
  BY <1>1, LiveBy, LiveFacts
<1>3. DescRefs(x) = 1 /\ DataRefs(buf[x]) = 1
  BY DEF Donatable
<1>4. DescRefs(x) = Cardinality(U) + Cardinality(occ) + (IF x \in held THEN 1 ELSE 0)
  BY DEF DescRefs
<1>5. <<a, i>> \in U
  OBVIOUS
<1>6. IsFiniteSet(U)
  <2>1. ASSUME NEW c \in Live \cap Pending PROVE IsFiniteSet(slots(c))
    <3>1. c \in Arrays /\ graph.in[c] \in Seq(Arrays)
      BY InputFacts DEF Types, Pending
    <3>2. PICK l \in Nat : DOMAIN graph.in[c] = 1 .. l
      BY <3>1
    <3> DEFINE D == {k \in DOMAIN graph.in[c] : graph.in[c][k] = x}
               f == [k \in D |-> <<c, k>>]
    <3>3. IsFiniteSet(D)
      BY <3>2, FS_Interval, FS_Subset
    <3>4. f \in Surjection(D, slots(c))
      <4>1. f \in [D -> slots(c)]
        OBVIOUS
      <4>2. \A p \in slots(c) : \E k \in D : f[k] = p
        OBVIOUS
      <4> QED
        BY <4>1, <4>2 DEF Surjection
    <3> HIDE DEF f, D
    <3> QED
      BY <3>3, <3>4, FS_Surjection
  <2>2. IsFiniteSet(Live \cap Pending)
    <3>1. IsFiniteSet(Arrays) /\ Live \cap Pending \subseteq Arrays
      BY FS_Interval, EvalGraphAssumption DEF Arrays, Pending
    <3> QED
      BY <3>1, FS_Subset
  <2>3. IsFiniteSet({slots(c) : c \in Live \cap Pending})
    <3> DEFINE D == Live \cap Pending
               g == [c \in D |-> slots(c)]
    <3>1. g \in Surjection(D, {slots(c) : c \in D})
      BY DEF Surjection
    <3>2. IsFiniteSet(D)
      BY <2>2
    <3> HIDE DEF g, D, slots
    <3>3. IsFiniteSet({slots(c) : c \in D})
      BY <3>1, <3>2, FS_Surjection
    <3> QED
      BY <3>3 DEF D
  <2>4. \A T \in {slots(c) : c \in Live \cap Pending} : IsFiniteSet(T)
    BY <2>1
  <2> QED
    BY <2>3, <2>4, FS_UNION
<1>7. IsFiniteSet(occ)
  <2>1. m.outs \in Seq(Arrays)
    BY TapeFacts
  <2>2. PICK l \in Nat : DOMAIN m.outs = 1 .. l
    BY <2>1
  <2> QED
    BY <2>2, FS_Interval, FS_Subset
<1> HIDE DEF U, occ, x, slots
<1>8. /\ Cardinality(U) \in Nat /\ Cardinality(occ) \in Nat
      /\ Cardinality(U) = 0 <=> U = {}
      /\ Cardinality(occ) = 0 <=> occ = {}
  BY <1>6, <1>7, FS_CardinalityType, FS_EmptySet
<1>9. Cardinality(U) = 1 /\ Cardinality(occ) = 0 /\ x \notin held
  BY <1>3, <1>4, <1>5, <1>8
<1>10. U = {<<a, i>>} /\ occ = {}
  <2>1. PICK z : U = {z}
    BY <1>6, <1>9, FS_Singleton
  <2> QED
    BY <1>5, <1>8, <1>9, <2>1
<1>11. \A c \in Live \cap Pending : \A j \in DOMAIN graph.in[c] :
         graph.in[c][j] = x => <<c, j>> \in U
  BY DEF U, slots
<1>12. \A c \in Live \cap Pending : \A j \in DOMAIN graph.in[c] :
         graph.in[c][j] = x => c = a /\ j = i
  BY <1>10, <1>11
<1>13. x \notin ToSet(m.outs)
  BY <1>10 DEF occ, ToSet
<1>14. /\ \A y \in Live : buf[y] = buf[x] => y = x
       /\ \A s \in Streams : \A k \in DOMAIN queue[s] : buf[x] \notin queue[s][k].holds
  BY <1>2, <1>3, FreeFacts
<1> QED
  BY <1>2, <1>9, <1>12, <1>13, <1>14 DEF x

(* Which steps matter to what *)

\* Only cpu::eval places arrays in buffers; no step changes the graph.
LEMMA BufferSteps ==
  ASSUME Types, Closing, Next \/ UNCHANGED vars
  PROVE  graph' = graph /\ (EvalArray \/ buf' = buf)
<1>1. CASE User
  BY <1>1 DEF User, EvalImpl, Await, Drop, arrayVars
<1>2. CASE Main
  BY <1>2 DEF Main, NextEntry, WaitForInput, EvalArray, EvalThrows, Throttle,
       WaitForOne, OneCompleted, CheckMemory, Publish, EndEval, EvalReturns,
       Awaited, OnlyMain, arrayVars
<1>3. ASSUME NEW s \in Streams, RunStream(s) PROVE graph' = graph /\ buf' = buf
  BY <1>3 DEF RunStream, RunCompute, RunHold, ReleaseBuffers, RunFenceWait,
       RunFenceUpdate, RunEventWait, RunEventSignal, arrayVars
<1>4. CASE Quiescent \/ UNCHANGED vars
  BY <1>4 DEF Quiescent, vars, arrayVars
<1> QED
  BY <1>1, <1>2, <1>3, <1>4 DEF Next

\* Nobody waits for an array before it has been asked for.
LEMMA AwaitsStep ==
  ASSUME Types, Closing, Awaits, Next \/ UNCHANGED vars
  PROVE  Awaits'
<1>1. ASSUME NEW a \in Arrays, Await(a) PROVE Awaits'
  <2>1. CASE Available(a)
    BY <1>1, <2>1 DEF Await, Awaits
  <2>2. CASE ~Available(a)
    <3>1. /\ m' = [NoEval EXCEPT !.cur = a] /\ UNCHANGED status
          /\ status[a] = "evaluated"
      BY <1>1, <2>2 DEF Await
    <3>2. m'.cur = a
      BY <3>1 DEF NoEval
    <3> QED
      BY <3>1, <3>2 DEF Awaits, Unscheduled
  <2> QED
    BY <2>1, <2>2
<1>2. CASE \/ Main \/ \E async, outs : EvalImpl(async, outs) \/ \E a \in Arrays : Drop(a)
  <2>1. pc' # "await"
    BY <1>2 DEF Main, NextEntry, WaitForInput, EvalArray, EvalThrows, Throttle,
         WaitForOne, OneCompleted, CheckMemory, Publish, EndEval, EvalReturns,
         Awaited, EvalImpl, Drop
  <2> QED
    BY <2>1 DEF Awaits
<1>3. CASE Quiescent \/ UNCHANGED vars \/ \E s \in Streams : RunStream(s)
  <2>1. UNCHANGED <<pc, m, status>>
    BY <1>3, Working DEF Quiescent, vars, arrayVars
  <2> QED
    BY <2>1 DEF Awaits, Unscheduled
<1> QED
  BY <1>1, <1>2, <1>3 DEF Next, User

\* A step that touches only streams the graph has, and takes up no stream the
\* graph does not have.
LEMMA UsedOnlyStep ==
  ASSUME Types, Types', Closing, UsedOnly, Next \/ UNCHANGED vars
  PROVE  UsedOnly'
<1> DEFINE U == {graph.stream[x] : x \in Arrays}
<1>0. Used = U /\ Used' = U
  BY BufferSteps DEF Used
<1>1. \A a \in Entries : pc \in Running => StreamOf(a) \in U
  BY <1>0 DEF UsedOnly, StreamOf, Entries
<1>2. m.cur \in Entries
  BY TapeFacts
<1>3. \A s \in Streams : queue[s] # <<>> => s \in U
  BY <1>0 DEF UsedOnly
<1> HIDE DEF U
<1>4. ASSUME NEW outs \in Seq(Arrays), NEW async, EvalImpl(async, outs) PROVE UsedOnly'
  <2>1. PICK k \in DOMAIN outs, t \in Tapes(outs) :
          m' = [NoEval EXCEPT
                  !.async = async, !.outs = outs, !.home = graph.stream[outs[k]],
                  !.tape = Append(t, Sync),
                  !.needsFence = NeedsFence(t, outs, graph.stream[outs[k]])]
    BY <1>4 DEF EvalImpl
  <2>2. m'.home = graph.stream[outs[k]] /\ m'.open = {}
    BY <2>1 DEF NoEval
  <2>3. outs[k] \in Arrays
    OBVIOUS
  <2>4. queue' = queue
    BY <1>4 DEF EvalImpl, streamVars
  <2>5. graph.stream[outs[k]] \in U
    BY <2>3 DEF U
  <2> QED
    BY <1>0, <1>3, <2>2, <2>4, <2>5 DEF UsedOnly
<1>5. CASE NextEntry
  <2>1. /\ pc \in Running /\ m'.home = m.home /\ m.tape[1] \in Entries
        /\ m'.open = m.open \cup {StreamOf(m.tape[1])}
    BY <1>5, EntryTaken DEF Running
  <2>2. queue' = queue
    BY <1>5 DEF NextEntry, streamVars
  <2> QED
    BY <1>0, <1>1, <1>3, <2>1, <2>2 DEF UsedOnly
<1>6. CASE WaitForInput \/ EvalArray \/ Publish
  <2>1. pc \in Running /\ m'.home = m.home /\ m'.open = m.open
    BY <1>6, BodySteps, EntryPublished DEF Running
  <2>2. StreamOf(m.cur) \in U
    BY <1>1, <1>2, <2>1
  <2>3. \A s \in Streams \ {StreamOf(m.cur)} : queue'[s] = queue[s]
    <3>1. \E s \in Streams : \E ts : (Enqueue(s, ts) /\ s = StreamOf(m.cur)) \/ UNCHANGED queue
      <4>1. StreamOf(m.cur) \in Streams
        BY <1>2, StreamOfTyped
      <4> QED
        BY <1>6, <4>1 DEF WaitForInput, EvalArray, Publish, Dispatch
    <3> QED
      BY <3>1 DEF Enqueue, Types
  <2> QED
    BY <1>0, <1>3, <2>1, <2>2, <2>3 DEF UsedOnly
<1>7. CASE EndEval
  <2>1. pc' \notin Running /\ pc \in Running
    BY <1>7 DEF EndEval, Running, InBody
  <2>2. \A s \in Streams : queue'[s] = queue[s] \/ s \in m.open
    BY <1>7 DEF EndEval
  <2> QED
    BY <1>0, <1>3, <2>1, <2>2 DEF UsedOnly
<1>8. CASE \/ Throttle \/ WaitForOne \/ OneCompleted \/ CheckMemory
           \/ EvalThrows \/ EvalReturns \/ Awaited \/ \E a \in Arrays : Await(a) \/ Drop(a)
           \/ Quiescent \/ UNCHANGED vars
  <2>1. /\ queue' = queue
        /\ pc' \in Running => pc \in Running /\ m'.home = m.home /\ m'.open = m.open
    BY <1>8 DEF Throttle, WaitForOne, OneCompleted, CheckMemory, EvalThrows,
         EvalReturns, Awaited, Await, Drop, Quiescent, vars, OnlyMain, streamVars,
         Running, InBody, Types, Locals
  <2> QED
    BY <1>0, <1>3, <2>1 DEF UsedOnly
<1>9. ASSUME NEW s \in Streams, RunStream(s) PROVE UsedOnly'
  <2>1. /\ UNCHANGED <<pc, m>>
        /\ queue' = queue \/ (queue[s] # <<>> /\ PopTask(s))
    BY <1>9, Working
  <2>2. \A r \in Streams : queue'[r] # <<>> => queue[r] # <<>>
    BY <2>1, Pops
  <2> QED
    BY <1>0, <1>3, <2>1, <2>2 DEF UsedOnly
<1>10. CASE User
  BY <1>4, <1>8, <1>10, UserStarts
<1> QED
  BY <1>5, <1>6, <1>7, <1>8, <1>9, <1>10 DEF Next, Main

-----------------------------------------------------------------------------
(* What eval_cpu does *)

\* A task that keeps buffers until the computation before it has run; a task that
\* runs a's eval_cpu, its arrays placed as in p.
IsHold(t, bufs) ==
  /\ t.op = "hold" /\ t.obj = <<>> /\ t.reads = {} /\ t.writes = {}
  /\ t.holds = bufs
Computes(t, a, p) ==
  /\ t.op = "compute" /\ t.obj = <<>> /\ t.holds = {}
  /\ t.reads = {<<p[x], Val(x)>> : x \in ToSet(graph.in[a])}
  /\ t.writes = {<<p[o], o>> : o \in Outputs(a)}
NoWork(a) == a = Sync \/ graph.kind[a] = "views"

\* cpu::eval places the outputs of an array and dispatches the computation, if
\* there is one, and then a task that holds the buffers.
LEMMA EvalArrayAdds ==
  ASSUME Types, EvalArray
  PROVE  LET a == m.cur
             s == StreamOf(a)
         IN  /\ Grows /\ s \in Streams
             /\ buf' = IF a = Sync THEN buf ELSE Place(a)
             /\ UNCHANGED <<graph, status, event, held, content, closing, signaled,
                            fenceValue, m, evals, computed>>
             /\ pc = "inputs" /\ pc' = "throttle" /\ m.i > Len(InputsOf(a))
             /\ \A r \in Streams \ {s} : New(r) = {} /\ queue'[r] = queue[r]
             /\ \E k \in Nat :
                  /\ DOMAIN queue[s] = 1 .. k
                  /\ IF NoWork(a)
                       THEN /\ DOMAIN queue'[s] = 1 .. k + 1
                            /\ IsHold(queue'[s][k + 1], HeldBuffers(a, buf'))
                       ELSE /\ DOMAIN queue'[s] = 1 .. k + 2
                            /\ Computes(queue'[s][k + 1], a, buf')
                            /\ IsHold(queue'[s][k + 2], HeldBuffers(a, buf'))
<1> DEFINE a == m.cur
           s == StreamOf(a)
           place == IF a = Sync THEN buf ELSE Place(a)
           hold == Hold(HeldBuffers(a, place))
           comp == ComputeTask(a, place)
           tasks == IF a = Sync \/ graph.kind[a] = "views" THEN <<hold>>
                    ELSE <<comp, hold>>
           counted(i) == (numOps[s] + i) % DISPATCHES_PER_TASK = 0
           ts == [i \in DOMAIN tasks |-> [tasks[i] EXCEPT !.counted = counted(i)]]
<1>1. /\ Enqueue(s, ts)
      /\ buf' = place /\ pc = "inputs" /\ pc' = "throttle" /\ m.i > Len(InputsOf(a))
      /\ UNCHANGED <<graph, status, event, held, content, closing, signaled,
                     fenceValue, m, evals, computed>>
  BY DEF EvalArray, Dispatch
<1>2. s \in Streams
  BY StreamOfTyped, TapeFacts
<1>3. /\ \A c, t : t = [hold EXCEPT !.counted = c] => IsHold(t, HeldBuffers(a, place))
      /\ \A c, t : t = [comp EXCEPT !.counted = c] => Computes(t, a, place)
  BY DEF IsHold, Computes, Hold, Compute, ComputeTask, Task
<1>4. /\ NoWork(a) => tasks = <<hold>>
      /\ ~NoWork(a) => tasks = <<comp, hold>>
  BY DEF NoWork
<1> HIDE DEF hold, comp, tasks, counted
<1>5. CASE NoWork(a)
  <2>1. DOMAIN tasks = 1 .. 1 /\ tasks[1] = hold
    BY <1>4, <1>5
  <2>2. IsSeq(ts) /\ Len(ts) = 1
    BY <2>1, MappedSeq
  <2>3. ts[1] = [hold EXCEPT !.counted = counted(1)]
    BY <2>1
  <2> HIDE DEF ts, s, place
  <2>4. /\ Grows /\ \A r \in Streams \ {s} : New(r) = {}
    BY <1>1, <1>2, <2>2, TasksAdded
  <2>5. /\ \A r \in Streams \ {s} : queue'[r] = queue[r]
        /\ Len(queue[s]) \in Nat /\ DOMAIN queue[s] = 1 .. Len(queue[s])
        /\ DOMAIN queue'[s] = 1 .. Len(queue[s]) + 1
        /\ queue'[s][Len(queue[s]) + 1] = ts[1]
    <3>0. IsSeq(ts)
      BY <2>2
    <3>1. /\ \A r \in Streams : r # s => queue'[r] = queue[r]
          /\ Len(queue[s]) \in Nat /\ DOMAIN queue[s] = 1 .. Len(queue[s])
          /\ DOMAIN queue'[s] = 1 .. Len(queue[s]) + Len(ts)
          /\ \A i \in 1 .. Len(ts) : queue'[s][Len(queue[s]) + i] = ts[i]
      BY <1>1, <1>2, <3>0, Adds
    <3> QED
      BY <2>2, <3>1
  <2>6. IsHold(queue'[s][Len(queue[s]) + 1], HeldBuffers(a, place))
    BY <1>3, <2>3, <2>5
  <2> QED
    BY <1>1, <1>2, <1>5, <2>4, <2>5, <2>6 DEF s, place
<1>6. CASE ~NoWork(a)
  <2>1. DOMAIN tasks = 1 .. 2 /\ tasks[1] = comp /\ tasks[2] = hold
    BY <1>4, <1>6
  <2>2. IsSeq(ts) /\ Len(ts) = 2
    BY <2>1, MappedSeq
  <2>3. /\ ts[1] = [comp EXCEPT !.counted = counted(1)]
        /\ ts[2] = [hold EXCEPT !.counted = counted(2)]
    BY <2>1
  <2> HIDE DEF ts, s, place
  <2>4. /\ Grows /\ \A r \in Streams \ {s} : New(r) = {}
    BY <1>1, <1>2, <2>2, TasksAdded
  <2>5. /\ \A r \in Streams \ {s} : queue'[r] = queue[r]
        /\ Len(queue[s]) \in Nat /\ DOMAIN queue[s] = 1 .. Len(queue[s])
        /\ DOMAIN queue'[s] = 1 .. Len(queue[s]) + 2
        /\ queue'[s][Len(queue[s]) + 1] = ts[1]
        /\ queue'[s][Len(queue[s]) + 2] = ts[2]
    <3>0. IsSeq(ts)
      BY <2>2
    <3>1. /\ \A r \in Streams : r # s => queue'[r] = queue[r]
          /\ Len(queue[s]) \in Nat /\ DOMAIN queue[s] = 1 .. Len(queue[s])
          /\ DOMAIN queue'[s] = 1 .. Len(queue[s]) + Len(ts)
          /\ \A i \in 1 .. Len(ts) : queue'[s][Len(queue[s]) + i] = ts[i]
      BY <1>1, <1>2, <3>0, Adds
    <3> QED
      BY <2>2, <3>1
  <2>6. /\ Computes(queue'[s][Len(queue[s]) + 1], a, place)
        /\ IsHold(queue'[s][Len(queue[s]) + 2], HeldBuffers(a, place))
    BY <1>3, <2>3, <2>5
  <2> QED
    BY <1>1, <1>2, <1>6, <2>4, <2>5, <2>6 DEF s, place
<1> QED
  BY <1>5, <1>6

\* A task that does no work on buffers.
Idle(t) == t.reads = {} /\ t.writes = {} /\ t.holds = {}
           /\ t.op \in {"fenceWait", "fenceUpdate", "eventWait", "eventSignal"}

\* Every other step adds tasks that wait and signal, and no others.
LEMMA OtherAdds ==
  ASSUME Types, User \/ Main \/ Quiescent \/ UNCHANGED vars, ~EvalArray
  PROVE  Grows /\ \A s \in Streams : \A i \in New(s) : Idle(queue'[s][i])
<1>0. \A x, y : Idle(FenceWait(x, y)) /\ Idle(FenceUpdate(x, y)) /\ Idle(EventWait(x))
                /\ Idle(EventSignal(x))
  BY DEF Idle, FenceWait, FenceUpdate, EventWait, EventSignal, Task
<1>1. Grows
  BY Growth
<1>2. CASE WaitForInput
  BY <1>0, <1>2, WaitAdds
<1>3. CASE Publish
  <2> DEFINE s == StreamOf(m.cur)
  <2>1. /\ s \in Streams /\ Fenced \in Nat /\ \A r \in Streams \ {s} : New(r) = {}
        /\ \E k \in Nat :
             /\ DOMAIN queue[s] = 1 .. k /\ DOMAIN queue'[s] = 1 .. k + Fenced
             /\ \A i \in 1 .. Fenced :
                  queue'[s][k + i] = FenceUpdate(FenceOf(s), m.fenceCount[s] + i)
    BY <1>3, PublishAdds
  <2> HIDE DEF s
  <2>2. PICK k \in Nat :
             /\ DOMAIN queue[s] = 1 .. k /\ DOMAIN queue'[s] = 1 .. k + Fenced
             /\ \A i \in 1 .. Fenced :
                  queue'[s][k + i] = FenceUpdate(FenceOf(s), m.fenceCount[s] + i)
    BY <2>1
  <2>3. ASSUME NEW i \in New(s) PROVE Idle(queue'[s][i])
    <3>1. i - k \in 1 .. Fenced /\ i = k + (i - k)
      BY <2>1, <2>2 DEF New
    <3> QED
      BY <1>0, <2>2, <3>1
  <2> QED
    BY <1>1, <2>1, <2>3
<1>4. CASE EndEval
  BY <1>0, <1>4, SignalsAdded
<1>5. CASE ~(WaitForInput \/ Publish \/ EndEval)
  <2>1. UNCHANGED queue
    BY <1>5 DEF User, Main, EvalImpl, Await, Drop, NextEntry, EvalThrows, Throttle,
         WaitForOne, OneCompleted, CheckMemory, EvalReturns, Awaited, OnlyMain,
         Quiescent, vars, streamVars
  <2> QED
    BY <2>1, NothingAdded
<1> QED
  BY <1>2, <1>3, <1>4, <1>5

-----------------------------------------------------------------------------
(* Where arrays are placed *)

Placed(x) == buf[x] # NoBuf
Dispatched == {"throttle", "waitForOne", "waiting", "memory", "publish"}

\* Arrays that were scheduled are placed, the outputs of the entry in hand from
\* its dispatch on, and nothing else; a view is where its input is; inputs are
\* placed before their consumers.
Placement ==
  /\ buf \in [Arrays -> Buffers \cup {NoBuf}]
  /\ \A x \in Arrays : ~Unscheduled(x) => Placed(x)
  /\ \A x \in Arrays :
       Placed(x) /\ Unscheduled(x) => pc \in Dispatched /\ x \in Outputs(m.cur)
  /\ pc \in Dispatched => \A x \in Outputs(m.cur) \ {Sync} : Placed(x)
  /\ \A x \in Arrays : Placed(x) =>
       /\ graph.kind[x] = "views" => buf[x] = buf[graph.in[x][1]]
       /\ \A y \in ToSet(graph.in[x]) : Placed(y)

\* Tasks hold buffers that arrays were placed in.
Holds ==
  \A s \in Streams : \A i \in DOMAIN queue[s] : \A b \in queue[s][i].holds :
    \E x \in Arrays : Placed(x) /\ buf[x] = b

\* What eval_cpu needs: inputs that are placed, outputs that are not.
Placeable(a) ==
  /\ a \in Arrays /\ Unscheduled(a)
  /\ \A x \in Outputs(a) : ~Placed(x)
  /\ \A x \in ToSet(graph.in[a]) : Placed(x)

\* There are enough free buffers for the outputs of any primitive: no buffer is
\* taken by more than the arrays that have been placed.
LEMMA EnoughFree ==
  ASSUME Types, UsedOnly, Placement, Holds, NEW a, Placeable(a)
  PROVE  LET fresh == {b \in Buffers : Free(b)}
         IN  /\ IsFiniteSet(fresh) /\ IsFiniteSet(Outputs(a))
             /\ Cardinality(fresh) \in Nat /\ Cardinality(Outputs(a)) \in Nat
             /\ Cardinality(Outputs(a)) <= Cardinality(fresh)
<1> DEFINE fresh == {b \in Buffers : Free(b)}
           taken == Buffers \ fresh
           in == {x \in Arrays : Placed(x)}
           f == [x \in in |-> buf[x]]
<1>1. /\ N \in Nat /\ IsFiniteSet(Arrays) /\ Cardinality(Arrays) = N
      /\ IsFiniteSet(Buffers) /\ Cardinality(Buffers) = N
  BY FS_Interval, EvalGraphAssumption DEF Arrays, Buffers
<1>2. Outputs(a) \subseteq Arrays /\ Outputs(a) \cap in = {}
  BY GroupFacts DEF Types, Placeable
<1>3. f \in [in -> {buf[x] : x \in in}]
  OBVIOUS
<1>4. IsFiniteSet(in) /\ IsFiniteSet(Outputs(a)) /\ IsFiniteSet(fresh) /\ IsFiniteSet(taken)
  <2>1. in \subseteq Arrays /\ fresh \subseteq Buffers /\ taken \subseteq Buffers
    OBVIOUS
  <2> HIDE DEF in, fresh, taken
  <2> QED
    BY <1>1, <1>2, <2>1, FS_Subset
<1>5. taken \subseteq {buf[x] : x \in in}
  <2> SUFFICES ASSUME NEW b \in Buffers, ~Free(b) PROVE \E x \in in : buf[x] = b
    OBVIOUS
  <2>1. b # NoBuf
    BY DEF Buffers, NoBuf
  <2>2. Live \subseteq Arrays
    BY LiveFacts
  <2>3. CASE \E x \in Live : buf[x] = b
    BY <2>1, <2>2, <2>3 DEF Placed
  <2>4. CASE \E s \in Streams : \E i \in DOMAIN queue[s] : b \in queue[s][i].holds
    BY <2>4 DEF Holds
  <2> QED
    BY <2>3, <2>4, FreeFacts
<1>6. Cardinality(taken) <= Cardinality(in)
  <2>1. f \in Surjection(in, {buf[x] : x \in in})
    BY DEF Surjection
  <2> HIDE DEF f, in, taken
  <2>2. /\ IsFiniteSet({buf[x] : x \in in})
        /\ Cardinality({buf[x] : x \in in}) <= Cardinality(in)
    BY <1>4, <2>1, FS_Surjection
  <2>3. Cardinality(taken) <= Cardinality({buf[x] : x \in in})
    BY <1>5, <2>2, FS_Subset
  <2>4. /\ Cardinality(taken) \in Nat /\ Cardinality(in) \in Nat
        /\ Cardinality({buf[x] : x \in in}) \in Nat
    BY <1>4, <2>2, FS_CardinalityType
  <2> QED
    BY <2>2, <2>3, <2>4
<1>7. Cardinality(in) + Cardinality(Outputs(a)) <= N
  <2>1. in \subseteq Arrays
    OBVIOUS
  <2> HIDE DEF in
  <2>2. Cardinality(in \cup Outputs(a)) =
          Cardinality(in) + Cardinality(Outputs(a)) - Cardinality(in \cap Outputs(a))
    BY <1>4, FS_Union
  <2>3. Cardinality(in \cap Outputs(a)) = 0
    <3>1. in \cap Outputs(a) = {}
      BY <1>2
    <3> QED
      BY ONLY <3>1, FS_EmptySet
  <2>4. Cardinality(in \cup Outputs(a)) <= Cardinality(Arrays)
    BY <1>1, <1>2, <2>1, FS_Subset
  <2>5. Cardinality(in) \in Nat /\ Cardinality(Outputs(a)) \in Nat
    BY <1>4, FS_CardinalityType
  <2> QED
    BY <1>1, <2>2, <2>3, <2>4, <2>5
<1>8. Cardinality(fresh) + Cardinality(taken) = N
  <2>1. fresh \subseteq Buffers /\ fresh \cap taken = {} /\ fresh \cup taken = Buffers
    OBVIOUS
  <2> HIDE DEF fresh, taken
  <2>2. Cardinality(fresh \cup taken) =
          Cardinality(fresh) + Cardinality(taken) - Cardinality(fresh \cap taken)
    BY <1>4, FS_Union
  <2>3. Cardinality(fresh \cap taken) = 0 /\ Cardinality(fresh \cup taken) = N
    <3>1. Cardinality(fresh \cap taken) = 0
      BY ONLY <2>1, FS_EmptySet
    <3> QED
      BY <1>1, <2>1, <3>1
  <2>4. Cardinality(fresh) \in Nat /\ Cardinality(taken) \in Nat
    BY <1>4, FS_CardinalityType
  <2> QED
    BY <1>1, <2>2, <2>3, <2>4
<1>9. /\ Cardinality(fresh) \in Nat /\ Cardinality(taken) \in Nat
      /\ Cardinality(in) \in Nat /\ Cardinality(Outputs(a)) \in Nat
  BY <1>4, FS_CardinalityType
<1> HIDE DEF fresh, taken, in
<1>10. Cardinality(Outputs(a)) <= Cardinality(fresh)
  BY <1>1, <1>6, <1>7, <1>8, <1>9
<1> QED
  BY <1>4, <1>9, <1>10 DEF fresh

\* Where eval_cpu puts the outputs of a: a view where its input is, any other
\* output in a buffer of its own, which is free or that of an input that may be
\* donated.
LEMMA PlaceFacts ==
  ASSUME Types, UsedOnly, Placement, Holds, NEW a \in Live, Placeable(a)
  PROVE  /\ Place(a) = [x \in Arrays |-> Place(a)[x]]
         /\ \A x \in Arrays \ Outputs(a) : Place(a)[x] = buf[x]
         /\ graph.kind[a] = "views" =>
              \A o \in Outputs(a) : Place(a)[o] = buf[graph.in[a][1]]
         /\ graph.kind[a] # "views" =>
              \A o \in Outputs(a) :
                /\ Place(a)[o] \in Buffers
                /\ \/ Free(Place(a)[o])
                   \/ /\ graph.kind[a] = "donates"
                      /\ \E i \in DOMAIN graph.in[a] :
                           Donatable(graph.in[a][i]) /\ Place(a)[o] = buf[graph.in[a][i]]
                /\ \A p \in Outputs(a) : p # o => Place(a)[p] # Place(a)[o]
<1> DEFINE in == graph.in[a]
           donors == {i \in DOMAIN in : graph.kind[a] = "donates" /\ Donatable(in[i])}
           given == Cardinality(donors)
           fresh == {b \in Buffers : Free(b)}
           position(o) == Cardinality({x \in Outputs(a) : x <= o})
           place(o) == IF graph.kind[a] = "views" THEN buf[in[1]]
                       ELSE IF position(o) <= given THEN buf[in[Nth(donors, position(o))]]
                       ELSE Nth(fresh, position(o) - given)
           P == Place(a)
<1>1. P = [x \in Arrays |-> IF x \in Outputs(a) THEN place(x) ELSE buf[x]]
  BY DEF Place
<1>2. a \in Arrays /\ a \in Live \cap Pending /\ Outputs(a) \subseteq Arrays
      /\ in \in Seq(Arrays)
  BY GroupFacts, InputFacts DEF Placeable, Pending, Types
<1>3. donors \subseteq Nat /\ IsFiniteSet(donors)
  <2>1. PICK l \in Nat : DOMAIN in = 1 .. l
    BY <1>2
  <2>2. donors \subseteq 1 .. l
    BY <2>1
  <2>3. IsFiniteSet(1 .. l)
    BY FS_Interval
  <2> QED
    BY <2>2, <2>3, FS_Subset
<1>4. /\ IsFiniteSet(fresh) /\ IsFiniteSet(Outputs(a))
      /\ Cardinality(fresh) \in Nat /\ Cardinality(Outputs(a)) \in Nat
      /\ Cardinality(Outputs(a)) <= Cardinality(fresh)
  BY EnoughFree
<1>5. fresh \subseteq Buffers /\ fresh \subseteq Nat /\ Outputs(a) \subseteq Nat
  BY <1>2 DEF Buffers, Arrays
<1>6. /\ \A i \in donors : i \in DOMAIN in /\ graph.kind[a] = "donates" /\ Donatable(in[i])
      /\ \A b \in fresh : Free(b)
  OBVIOUS
<1>7. \A x \in Arrays : P[x] = IF x \in Outputs(a) THEN place(x) ELSE buf[x]
  BY <1>1
<1>8. P = [x \in Arrays |-> P[x]]
  BY <1>1
<1> HIDE DEF donors, fresh, P
<1>9. given \in Nat
      /\ \A k \in 1 .. given : /\ Nth(donors, k) \in donors
                               /\ Cardinality({j \in donors : j <= Nth(donors, k)}) = k
  BY <1>3, NthFacts
<1>10. \A k \in 1 .. Cardinality(fresh) :
         Nth(fresh, k) \in fresh /\ Cardinality({j \in fresh : j <= Nth(fresh, k)}) = k
  BY <1>4, <1>5, NthFacts
<1>11. /\ \A o \in Outputs(a) : position(o) \in 1 .. Cardinality(Outputs(a))
       /\ \A o, p \in Outputs(a) : o # p => position(o) # position(p)
  BY <1>4, <1>5, RankFacts
<1>12. ASSUME NEW o \in Outputs(a), graph.kind[a] # "views", position(o) <= given
       PROVE  \E i \in donors : /\ P[o] = buf[in[i]]
                                /\ Cardinality({j \in donors : j <= i}) = position(o)
  <2> DEFINE i == Nth(donors, position(o))
  <2> HIDE DEF position
  <2>1. position(o) \in 1 .. given
    BY <1>4, <1>9, <1>11, <1>12
  <2>2. i \in donors /\ Cardinality({j \in donors : j <= i}) = position(o)
    BY <1>9, <2>1
  <2>3. P[o] = buf[in[i]]
    BY <1>2, <1>7, <1>12
  <2> QED
    BY <2>2, <2>3
<1>13. ASSUME NEW o \in Outputs(a), graph.kind[a] # "views", ~(position(o) <= given)
       PROVE  /\ P[o] \in fresh
              /\ Cardinality({j \in fresh : j <= P[o]}) = position(o) - given
  <2> HIDE DEF position
  <2> DEFINE k == position(o) - given
  <2>1. k \in 1 .. Cardinality(fresh)
    BY <1>4, <1>9, <1>11, <1>13
  <2>2. P[o] = Nth(fresh, k)
    BY <1>2, <1>7, <1>13
  <2> QED
    BY <1>10, <2>1, <2>2
<1>14. ASSUME NEW i \in donors PROVE in[i] \in Arrays /\ Placed(in[i]) /\ in[i] \in Live
  <2>1. in[i] \in ToSet(in) /\ Donatable(in[i])
    BY <1>6 DEF ToSet
  <2>2. in[i] \in Live
    BY <1>2, <1>6, DonatableFacts
  <2> QED
    BY <1>2, <1>6, <2>1, <2>2 DEF Placeable
<1>15. ASSUME NEW o \in Outputs(a), graph.kind[a] # "views"
       PROVE  /\ P[o] \in Buffers
              /\ \/ Free(P[o])
                 \/ /\ graph.kind[a] = "donates"
                    /\ \E i \in DOMAIN in : Donatable(in[i]) /\ P[o] = buf[in[i]]
  <2> HIDE DEF position
  <2>1. CASE position(o) <= given
    <3>1. PICK i \in donors : P[o] = buf[in[i]]
      BY <1>12, <1>15, <2>1
    <3>2. buf[in[i]] \in Buffers
      BY <1>14 DEF Placement, Placed
    <3> QED
      BY <1>6, <3>1, <3>2
  <2>2. CASE ~(position(o) <= given)
    BY <1>5, <1>6, <1>13, <1>15, <2>2
  <2> QED
    BY <2>1, <2>2
<1>16. ASSUME NEW o \in Outputs(a), NEW p \in Outputs(a), p # o, graph.kind[a] # "views",
              P[p] = P[o]
       PROVE  FALSE
  <2>0. position(p) # position(o)
    BY <1>11, <1>16
  <2>1. \A q \in Outputs(a) : position(q) \in Nat
    BY <1>4, <1>11
  <2> HIDE DEF position
  <2>2. ASSUME NEW i \in donors, NEW q \in Outputs(a), ~(position(q) <= given), P[q] = buf[in[i]]
        PROVE  FALSE
    <3>1. Free(P[q])
      BY <1>6, <1>13, <1>16, <2>2
    <3> QED
      BY <1>14, <2>2, <3>1, FreeFacts
  <2>3. CASE position(p) <= given /\ position(o) <= given
    <3>1. PICK i \in donors : /\ P[o] = buf[in[i]]
                              /\ Cardinality({l \in donors : l <= i}) = position(o)
      BY <1>12, <1>16, <2>3
    <3>2. PICK j \in donors : /\ P[p] = buf[in[j]]
                              /\ Cardinality({l \in donors : l <= j}) = position(p)
      BY <1>12, <1>16, <2>3
    <3>3. i # j
      BY <2>0, <3>1, <3>2
    <3>4. buf[in[j]] = buf[in[i]]
      BY <1>16, <3>1, <3>2
    <3>5. i \in DOMAIN in /\ Donatable(in[i]) /\ j \in DOMAIN in /\ in[j] \in Live
      BY <1>6, <1>14
    <3>6. /\ \A y \in Live : buf[y] = buf[in[i]] => y = in[i]
          /\ \A c \in Live \cap Pending : \A k \in DOMAIN graph.in[c] :
               graph.in[c][k] = in[i] => c = a /\ k = i
      BY <1>2, <3>5, DonatableFacts
    <3> QED
      BY <1>2, <3>3, <3>4, <3>5, <3>6
  <2>4. CASE position(p) <= given /\ ~(position(o) <= given)
    BY <1>12, <1>16, <2>2, <2>4
  <2>5. CASE ~(position(p) <= given) /\ position(o) <= given
    BY <1>12, <1>16, <2>2, <2>5
  <2>6. CASE ~(position(p) <= given) /\ ~(position(o) <= given)
    <3>1. Cardinality({j \in fresh : j <= P[o]}) = position(o) - given
      BY <1>13, <1>16, <2>6
    <3>2. Cardinality({j \in fresh : j <= P[p]}) = position(p) - given
      BY <1>13, <1>16, <2>6
    <3>3. position(o) - given = position(p) - given
      BY <1>16, <3>1, <3>2
    <3> QED
      BY <1>9, <2>0, <2>1, <3>3
  <2> QED
    BY <2>3, <2>4, <2>5, <2>6
<1>17. graph.kind[a] = "views" => \A o \in Outputs(a) : P[o] = buf[in[1]]
  BY <1>2, <1>7
<1> HIDE DEF place, position, given
<1>18. \A x \in Arrays \ Outputs(a) : P[x] = buf[x]
  BY <1>7
<1> QED
  BY <1>8, <1>15, <1>16, <1>17, <1>18 DEF P

\* When eval_impl dispatches an array, it is ready: its inputs were published
\* before it, and neither it nor a sibling was.
LEMMA EntryReady ==
  ASSUME Types, Siblings, Schedule, Placement, pc = "inputs", m.cur # Sync
  PROVE  /\ Placeable(m.cur) /\ m.cur \in Live /\ m.cur \in Arrays
         /\ InputsOf(m.cur) = graph.in[m.cur]
<1>1. m.cur \in Arrays /\ m.cur \in Handles
  BY TapeFacts DEF Entries, Handles
<1>2. CurrentGood
  BY DEF Schedule, InBody
<1>3. Unscheduled(m.cur) /\ \A x \in ToSet(InputsOf(m.cur)) : ~Unscheduled(x)
  BY <1>2 DEF CurrentGood
<1>4. /\ m.cur \in Outputs(m.cur) /\ Outputs(m.cur) \subseteq Arrays
      /\ InputsOf(m.cur) = graph.in[m.cur]
  BY <1>1, GroupFacts DEF Types
<1>5. \A x \in ToSet(graph.in[m.cur]) : x \in Arrays
  BY <1>1, InputFacts DEF Types
<1>6. \A x \in Outputs(m.cur) : ~Placed(x)
  BY <1>1, <1>3, <1>4 DEF Siblings, Placement, Dispatched
<1>7. \A x \in ToSet(graph.in[m.cur]) : Placed(x)
  BY <1>3, <1>4, <1>5 DEF Placement
<1> QED
  BY <1>1, <1>3, <1>4, <1>6, <1>7, LiveBy DEF Placeable

\* What eval_cpu does to the buffers: it places the outputs of the entry, and
\* nothing that was placed before moves.
LEMMA Places ==
  ASSUME Types, UsedOnly, Siblings, Schedule, Placement, Holds, EvalArray
  PROVE  /\ buf' \in [Arrays -> Buffers \cup {NoBuf}]
         /\ \A x \in Arrays : /\ Placed(x) => buf'[x] = buf[x]
                              /\ Placed(x)' <=> Placed(x) \/ x \in Outputs(m.cur)
                              /\ x \notin Outputs(m.cur) => buf'[x] = buf[x]
                              /\ x \in Outputs(m.cur) => ~Placed(x)
         /\ \A x \in ToSet(InputsOf(m.cur)) : x \in Arrays /\ Placed(x)
         /\ m.cur # Sync => buf' = Place(m.cur)
<1>1. pc = "inputs" /\ buf' = IF m.cur = Sync THEN buf ELSE Place(m.cur)
  BY EvalArrayAdds
<1>2. CASE m.cur = Sync
  <2>1. buf' = buf /\ Outputs(m.cur) = {Sync} /\ \A x \in Arrays : x # Sync
    BY <1>1, <1>2 DEF Outputs, Arrays, Sync
  <2>2. ASSUME NEW x \in ToSet(InputsOf(m.cur)) PROVE x \in Arrays /\ Placed(x)
    <3>1. CurrentGood
      BY <1>1 DEF Schedule, InBody
    <3>2. InputsOf(m.cur) \in Seq(Arrays)
      BY TapeFacts, InputsTyped
    <3>3. ~Unscheduled(x) /\ x \in Arrays
      BY <2>2, <3>1, <3>2 DEF CurrentGood, ToSet
    <3> QED
      BY <3>3 DEF Placement
  <2> QED
    BY <1>2, <2>1, <2>2 DEF Placement, Placed
<1>3. CASE m.cur # Sync
  <2> DEFINE a == m.cur
  <2>1. /\ Placeable(a) /\ a \in Live /\ a \in Arrays /\ InputsOf(a) = graph.in[a]
    BY <1>1, <1>3, EntryReady
  <2>2. buf' = Place(a)
    BY <1>1, <1>3
  <2>3. /\ Outputs(a) \subseteq Arrays
        /\ \A o \in Outputs(a) : graph.kind[o] = graph.kind[a]
        /\ \A x \in ToSet(graph.in[a]) : x \in Arrays
        /\ graph.kind[a] = "views" => graph.in[a][1] \in ToSet(graph.in[a])
    BY <2>1, GroupFacts, InputFacts DEF Types
  <2>4. /\ Place(a) = [x \in Arrays |-> Place(a)[x]]
        /\ \A x \in Arrays \ Outputs(a) : Place(a)[x] = buf[x]
        /\ graph.kind[a] = "views" =>
              \A o \in Outputs(a) : Place(a)[o] = buf[graph.in[a][1]]
        /\ graph.kind[a] # "views" => \A o \in Outputs(a) : Place(a)[o] \in Buffers
    BY <2>1, PlaceFacts
  <2> HIDE DEF a
  <2>5. /\ \A x \in Outputs(a) : x \in Arrays /\ ~Placed(x)
        /\ \A x \in ToSet(graph.in[a]) : x \in Arrays /\ Placed(x)
    BY <2>1, <2>3 DEF Placeable
  <2>6. \A x \in Arrays : Placed(x) => buf[x] \in Buffers
    BY DEF Placement, Placed
  <2>7. \A o \in Outputs(a) : buf'[o] \in Buffers
    BY <2>2, <2>3, <2>4, <2>5, <2>6
  <2>8. NoBuf \notin Buffers
    BY DEF NoBuf, Buffers
  <2>9. buf' \in [Arrays -> Buffers \cup {NoBuf}]
    BY <2>2, <2>4, <2>7 DEF Placement
  <2> QED
    BY <1>3, <2>1, <2>2, <2>4, <2>5, <2>7, <2>8, <2>9 DEF Placed, a
<1> QED
  BY <1>2, <1>3

\* Every step keeps the placement: eval_cpu finds a buffer for every output,
\* and what it has placed is published before the next entry.
LEMMA PlacementStep ==
  ASSUME Types, Types', Closing, UsedOnly, Siblings, Schedule, Awaits, Placement, Holds,
         Next \/ UNCHANGED vars
  PROVE  Placement'
<1>0. /\ \A x \in Arrays : \A y \in ToSet(graph.in[x]) : y \in Arrays
      /\ \A x \in Arrays : graph.kind[x] = "views" => graph.in[x][1] \in ToSet(graph.in[x])
  BY InputFacts DEF Types
<1>1. CASE EvalArray
  <2> DEFINE a == m.cur
  <2>1. /\ UNCHANGED <<graph, status, m>> /\ pc = "inputs" /\ pc' = "throttle"
        /\ buf' = IF a = Sync THEN buf ELSE Place(a)
    BY <1>1, EvalArrayAdds
  <2>2. /\ buf' \in [Arrays -> Buffers \cup {NoBuf}]
        /\ \A x \in Arrays : /\ Placed(x) => buf'[x] = buf[x]
                             /\ Placed(x)' <=> Placed(x) \/ x \in Outputs(a)
        /\ \A x \in ToSet(InputsOf(a)) : x \in Arrays /\ Placed(x)
    BY <1>1, Places
  <2>3. \A x \in Outputs(a) : x = Sync \/ x \in Arrays
    BY TapeFacts, GroupFacts DEF Types, Entries, Outputs
  <2>4. ASSUME NEW x \in Arrays, Placed(x)'
        PROVE  /\ graph.kind[x] = "views" => buf'[x] = buf'[graph.in[x][1]]
               /\ \A y \in ToSet(graph.in[x]) : Placed(y)'
    <3>1. CASE Placed(x)
      BY <1>0, <2>2, <3>1 DEF Placement
    <3>2. CASE ~Placed(x)
      <4>1. x \in Outputs(a) /\ a # Sync /\ a \in Arrays
        BY <2>2, <2>4, <3>2, TapeFacts DEF Outputs, Arrays, Sync, Entries
      <4>2. Placeable(a) /\ a \in Live /\ InputsOf(a) = graph.in[a]
        BY <2>1, <4>1, EntryReady
      <4>3. graph.in[x] = graph.in[a] /\ graph.kind[x] = graph.kind[a]
        BY <4>1, GroupFacts DEF Types
      <4>4. graph.kind[a] = "views" => buf'[x] = buf[graph.in[a][1]]
        BY <2>1, <4>1, <4>2, PlaceFacts
      <4> QED
        BY <1>0, <2>2, <4>1, <4>2, <4>3, <4>4
    <3> QED
      BY <3>1, <3>2
  <2>5. Outputs(a)' = Outputs(a)
    BY <2>1 DEF Outputs
  <2> HIDE DEF a
  <2>6. \A x \in Arrays : ~Unscheduled(x) => Placed(x)'
    BY <2>2 DEF Placement
  <2>7. \A x \in Arrays : Placed(x)' /\ Unscheduled(x) => x \in Outputs(a)
    BY <2>1, <2>2 DEF Placement, Dispatched
  <2>8. \A x \in Outputs(a) \ {Sync} : Placed(x)'
    BY <2>2, <2>3
  <2>9. \A x : Unscheduled(x)' <=> Unscheduled(x)
    BY <2>1 DEF Unscheduled
  <2> QED
    BY <2>1, <2>2, <2>4, <2>5, <2>6, <2>7, <2>8, <2>9 DEF Placement, Dispatched, a
<1>2. CASE ~EvalArray
  <2>1. graph' = graph /\ buf' = buf
    BY <1>2, BufferSteps
  <2>2. \A x : Placed(x)' <=> Placed(x)
    BY <2>1 DEF Placed
  <2>3. ASSUME /\ \A x \in Arrays : ~Unscheduled(x)' => Placed(x)
               /\ \A x \in Arrays : Placed(x) /\ Unscheduled(x)' =>
                    pc' \in Dispatched /\ x \in Outputs(m.cur)'
               /\ pc' \in Dispatched => \A x \in Outputs(m.cur)' \ {Sync} : Placed(x)
        PROVE  Placement'
    BY <2>1, <2>2, <2>3 DEF Placement
  <2>4. ASSUME UNCHANGED <<status, m>>, pc' \in Dispatched <=> pc \in Dispatched
        PROVE  Placement'
    <3>1. Outputs(m.cur)' = Outputs(m.cur)
      BY <2>1, <2>4 DEF Outputs
    <3> QED
      BY <2>3, <2>4, <3>1 DEF Placement, Unscheduled
  <2>5. ASSUME pc \notin Dispatched, pc' \notin Dispatched,
               \A x \in Arrays : Unscheduled(x)' <=> Unscheduled(x)
        PROVE  Placement'
    BY <2>3, <2>5 DEF Placement
  <2>6. CASE Throttle \/ CheckMemory
    BY <2>4, <2>6 DEF Throttle, CheckMemory, OnlyMain, Dispatched, arrayVars
  <2>7. CASE WaitForOne \/ OneCompleted
    <3>1. /\ pc \in Dispatched /\ pc' \in Dispatched /\ status' = status
          /\ m'.cur = m.cur
      BY <2>7, BodySteps DEF WaitForOne, OneCompleted, Dispatched
    <3>2. Outputs(m.cur)' = Outputs(m.cur)
      BY <2>1, <3>1 DEF Outputs
    <3> QED
      BY <2>3, <3>1, <3>2 DEF Placement, Unscheduled
  <2>8. CASE Publish
    <3>1. /\ pc = "publish" /\ pc' = "next"
          /\ \A x \in Arrays :
               status'[x] = IF x \in Outputs(m.cur) THEN "evaluated" ELSE status[x]
      BY <2>8, EntryPublished DEF Publish
    <3>2. \A x \in Arrays : x # Sync
      BY DEF Arrays, Sync
    <3> QED
      BY <2>3, <3>1, <3>2 DEF Placement, Dispatched, Unscheduled
  <2>9. CASE NextEntry \/ WaitForInput \/ EvalThrows \/ EndEval \/ EvalReturns
             \/ (\E async, outs : EvalImpl(async, outs)) \/ \E a \in Arrays : Drop(a)
    <3>1. pc \notin Dispatched /\ pc' \notin Dispatched /\ status' = status
      BY <2>9 DEF NextEntry, WaitForInput, EvalThrows, EndEval, EvalReturns, EvalImpl,
           Drop, OnlyMain, arrayVars, Dispatched
    <3> QED
      BY <2>5, <3>1 DEF Unscheduled
  <2>10. ASSUME NEW a \in Arrays, ~Unscheduled(a), pc \notin Dispatched, pc' \notin Dispatched,
                status' = status \/ status' = [status EXCEPT ![a] = "available"]
         PROVE  Placement'
    <3>1. \A x \in Arrays : Unscheduled(x)' <=> Unscheduled(x)
      BY <2>10 DEF Unscheduled, Types
    <3> QED
      BY <2>5, <2>10, <3>1
  <2>11. CASE Awaited
    <3>1. /\ m.cur \in Arrays /\ ~Unscheduled(m.cur) /\ pc \notin Dispatched
          /\ pc' \notin Dispatched /\ status' = [status EXCEPT ![m.cur] = "available"]
      BY <2>11 DEF Awaited, Awaits, Dispatched
    <3> QED
      BY <2>10, <3>1
  <2>12. ASSUME NEW a \in Arrays, Await(a) PROVE Placement'
    <3>1. /\ ~Unscheduled(a) /\ pc \notin Dispatched /\ pc' \notin Dispatched
          /\ status' = status \/ status' = [status EXCEPT ![a] = "available"]
      BY <2>12 DEF Await, Dispatched, Unscheduled
    <3> QED
      BY <2>10, <3>1
  <2>13. CASE Quiescent \/ UNCHANGED vars \/ \E s \in Streams : RunStream(s)
    <3>1. UNCHANGED <<status, m, pc>>
      BY <2>13, Working DEF Quiescent, vars, arrayVars
    <3> QED
      BY <2>4, <3>1
  <2> QED
    BY <1>2, <2>6, <2>7, <2>8, <2>9, <2>11, <2>12, <2>13 DEF Next, User, Main
<1> QED
  BY <1>1, <1>2

\* Every step keeps the holds: what cpu::eval keeps was placed before.
LEMMA HoldsStep ==
  ASSUME Types, Types', Closing, UsedOnly, Siblings, Schedule, Placement, Holds,
         Next \/ UNCHANGED vars
  PROVE  Holds'
<1>1. CASE EvalArray
  <2> DEFINE a == m.cur
             s == StreamOf(a)
  <2>1. /\ Grows /\ s \in Streams /\ \A r \in Streams \ {s} : New(r) = {}
        /\ \E k \in Nat :
             /\ DOMAIN queue[s] = 1 .. k
             /\ IF NoWork(a)
                  THEN /\ DOMAIN queue'[s] = 1 .. k + 1
                       /\ IsHold(queue'[s][k + 1], HeldBuffers(a, buf'))
                  ELSE /\ DOMAIN queue'[s] = 1 .. k + 2
                       /\ Computes(queue'[s][k + 1], a, buf')
                       /\ IsHold(queue'[s][k + 2], HeldBuffers(a, buf'))
    BY <1>1, EvalArrayAdds
  <2>2. /\ \A x \in Arrays : /\ Placed(x) => buf'[x] = buf[x]
                             /\ Placed(x)' <=> Placed(x) \/ x \in Outputs(a)
        /\ \A x \in ToSet(InputsOf(a)) : x \in Arrays /\ Placed(x)
    BY <1>1, Places
  <2>3. \A x \in Outputs(a) \ {a} : x \in Arrays
    BY TapeFacts, GroupFacts DEF Types, Entries, Outputs
  <2>4. \A b \in HeldBuffers(a, buf') : \E x \in Arrays : Placed(x)' /\ buf'[x] = b
    BY <2>2, <2>3 DEF HeldBuffers
  <2> HIDE DEF a, s
  <2>5. \A i \in New(s) : \A b \in queue'[s][i].holds : \E x \in Arrays : Placed(x)' /\ buf'[x] = b
    <3>1. PICK k \in Nat :
             /\ DOMAIN queue[s] = 1 .. k
             /\ IF NoWork(a)
                  THEN /\ DOMAIN queue'[s] = 1 .. k + 1
                       /\ IsHold(queue'[s][k + 1], HeldBuffers(a, buf'))
                  ELSE /\ DOMAIN queue'[s] = 1 .. k + 2
                       /\ Computes(queue'[s][k + 1], a, buf')
                       /\ IsHold(queue'[s][k + 2], HeldBuffers(a, buf'))
      BY <2>1
    <3>2. New(s) = IF NoWork(a) THEN {k + 1} ELSE {k + 1, k + 2}
      BY <3>1 DEF New
    <3> QED
      BY <2>4, <3>1, <3>2 DEF IsHold, Computes
  <2>6. ASSUME NEW r \in Streams, NEW i \in DOMAIN queue'[r], NEW b \in queue'[r][i].holds
        PROVE  \E x \in Arrays : Placed(x)' /\ buf'[x] = b
    <3>1. CASE i \in DOMAIN queue[r]
      <4>1. queue'[r][i] = queue[r][i]
        BY <2>1, <3>1, GrowsFacts
      <4>2. PICK x \in Arrays : Placed(x) /\ buf[x] = b
        BY <2>6, <3>1, <4>1 DEF Holds
      <4> QED
        BY <2>2, <4>2
    <3>2. CASE i \in New(r)
      BY <2>1, <2>5, <2>6, <3>2
    <3> QED
      BY <2>1, <3>1, <3>2, GrowsFacts
  <2> QED
    BY <2>6 DEF Holds
<1>2. CASE (User \/ Main \/ Quiescent \/ UNCHANGED vars) /\ ~EvalArray
  <2>1. buf' = buf
    BY <1>2, BufferSteps
  <2>2. Grows /\ \A s \in Streams : \A i \in New(s) : queue'[s][i].holds = {}
    BY <1>2, OtherAdds DEF Idle
  <2>3. \A s \in Streams : \A i \in DOMAIN queue'[s] :
          (i \in DOMAIN queue[s] /\ queue'[s][i] = queue[s][i]) \/ i \in New(s)
    BY <2>2, GrowsFacts
  <2> QED
    BY <2>1, <2>2, <2>3 DEF Holds, Placed
<1>3. ASSUME NEW s \in Streams, RunStream(s), ~EvalArray PROVE Holds'
  <2>1. buf' = buf
    BY <1>3, BufferSteps
  <2>2. CASE queue' = queue
    BY <2>1, <2>2 DEF Holds, Placed
  <2>3. CASE queue[s] # <<>> /\ PopTask(s)
    <3>1. \A r \in Streams : \A i \in DOMAIN queue'[r] :
            \E j \in DOMAIN queue[r] : queue'[r][i] = queue[r][j]
      <4>1. /\ \A r \in Streams : r # s => queue'[r] = queue[r]
            /\ Len(queue[s]) \in Nat \ {0} /\ DOMAIN queue[s] = 1 .. Len(queue[s])
            /\ DOMAIN queue'[s] = 1 .. Len(queue[s]) - 1
            /\ \A i \in 1 .. Len(queue[s]) - 1 : queue'[s][i] = queue[s][i + 1]
        BY <2>3, Pops
      <4>2. \A i \in DOMAIN queue'[s] : i + 1 \in DOMAIN queue[s]
        BY <4>1
      <4> QED
        BY <4>1, <4>2
    <3> QED
      BY <2>1, <3>1 DEF Holds, Placed
  <2> QED
    BY <1>3, <2>2, <2>3, Working
<1> QED
  BY <1>1, <1>2, <1>3 DEF Next

-----------------------------------------------------------------------------
(* Types *)

\* What arrays and buffers are good for: everything above, for any behaviour.
PlacedInv ==
  /\ Siblings /\ Schedule /\ Awaits /\ UsedOnly /\ Placement /\ Holds

\* It holds before any call: only leaves are placed, each in a buffer of its own.
LEMMA PlacedInvInit == Init => PlacedInv
<1> SUFFICES ASSUME Init PROVE PlacedInv
  OBVIOUS
<1>1. Types /\ Siblings
  BY TypesInit, EventInvInit DEF EventInv
<1>2. pc = "idle" /\ \A s \in Streams : DOMAIN queue[s] = {} /\ queue[s] = <<>>
  BY DEF Init
<1>3. Schedule /\ Awaits /\ UsedOnly /\ Holds
  BY <1>2 DEF Schedule, Awaits, UsedOnly, Holds, Running, InBody
<1>4. Placement
  <2>1. /\ buf = [a \in Arrays |-> IF graph.kind[a] = "leaf" THEN a ELSE NoBuf]
        /\ status = [a \in Arrays |-> IF graph.kind[a] = "leaf" THEN "available"
                                                               ELSE "unscheduled"]
    BY DEF Init
  <2>2. \A x \in Arrays : (Placed(x) <=> graph.kind[x] = "leaf")
                          /\ (Unscheduled(x) <=> graph.kind[x] # "leaf")
    BY <2>1 DEF Placed, Unscheduled, NoBuf, Arrays
  <2>3. \A x \in Arrays : graph.kind[x] = "leaf" => ToSet(graph.in[x]) = {}
    BY <1>1, InputFacts DEF Types
  <2>4. buf \in [Arrays -> Buffers \cup {NoBuf}]
    BY <2>1 DEF Arrays, Buffers
  <2> QED
    BY <1>2, <2>2, <2>3, <2>4 DEF Placement, Dispatched
<1> QED
  BY <1>1, <1>3, <1>4 DEF PlacedInv

\* Every step keeps it.
LEMMA PlacedInvStep ==
  ASSUME FenceInv, FenceInv', PlacedInv, Next \/ UNCHANGED vars
  PROVE  PlacedInv'
BY AwaitsStep, UsedOnlyStep, SiblingsStep, ScheduleStep, PlacementStep, HoldsStep
   DEF PlacedInv, FenceInv

\* What tasks write are values of arrays, what they signal events.
TasksTyped ==
  \A s \in Streams : \A i \in DOMAIN queue[s] :
    /\ \A p \in queue[s][i].writes : p[2] \in Arrays
    /\ queue[s][i].op = "eventSignal" => queue[s][i].obj \in SyncIds

\* The parts of TypeOK that no other invariant has.
Memory ==
  /\ TasksTyped
  /\ content \in [Buffers -> Arrays \cup {Garbage}] /\ computed \subseteq Arrays
  /\ signaled \subseteq SyncIds /\ (pc = "idle" => m = NoEval)

\* The end of the loop's body only adds updates of the fence.
LEMMA PublishedOp ==
  ASSUME Types, Publish
  PROVE  \A s \in Streams : \A i \in New(s) : queue'[s][i].op = "fenceUpdate"
<1> DEFINE s == StreamOf(m.cur)
<1>1. /\ s \in Streams /\ Fenced \in Nat /\ \A r \in Streams \ {s} : New(r) = {}
      /\ \E k \in Nat :
           /\ DOMAIN queue[s] = 1 .. k /\ DOMAIN queue'[s] = 1 .. k + Fenced
           /\ \A i \in 1 .. Fenced :
                queue'[s][k + i] = FenceUpdate(FenceOf(s), m.fenceCount[s] + i)
  BY PublishAdds
<1> HIDE DEF s
<1>2. PICK k \in Nat :
           /\ DOMAIN queue[s] = 1 .. k /\ DOMAIN queue'[s] = 1 .. k + Fenced
           /\ \A i \in 1 .. Fenced :
                queue'[s][k + i] = FenceUpdate(FenceOf(s), m.fenceCount[s] + i)
  BY <1>1
<1>3. ASSUME NEW i \in New(s) PROVE queue'[s][i].op = "fenceUpdate"
  <2>1. i - k \in 1 .. Fenced /\ i = k + (i - k)
    BY <1>1, <1>2 DEF New
  <2> QED
    BY <1>2, <2>1, TaskFields
<1> QED
  BY <1>1, <1>3

\* Every step keeps them.
LEMMA MemoryStep ==
  ASSUME Types, Closing, Memory, Next \/ UNCHANGED vars
  PROVE  Memory'
<1>1. pc' = "idle" => m' = NoEval
  <2>1. CASE Main
    BY <2>1 DEF Main, NextEntry, WaitForInput, EvalArray, EvalThrows, Throttle,
         WaitForOne, OneCompleted, CheckMemory, Publish, EndEval, EvalReturns,
         Awaited, OnlyMain
  <2>2. CASE User
    BY <2>2 DEF User, EvalImpl, Await, Drop, Memory
  <2>3. CASE Quiescent \/ UNCHANGED vars \/ \E s \in Streams : RunStream(s)
    <3>1. pc' = pc /\ m' = m
      BY <2>3, Working DEF Quiescent, vars
    <3> QED
      BY <3>1 DEF Memory
  <2> QED
    BY <2>1, <2>2, <2>3 DEF Next
<1>2. CASE User \/ Main \/ Quiescent \/ UNCHANGED vars
  <2>1. UNCHANGED <<content, computed, signaled>>
    <3>1. CASE User
      BY <3>1 DEF User, EvalImpl, Await, Drop
    <3>2. CASE Main
      BY <3>2 DEF Main, NextEntry, WaitForInput, EvalArray, EvalThrows, Throttle,
         WaitForOne, OneCompleted, CheckMemory, Publish, EndEval, EvalReturns,
         Awaited, OnlyMain
    <3>3. CASE Quiescent \/ UNCHANGED vars
      BY <3>3 DEF Quiescent, vars
    <3> QED
      BY <1>2, <3>1, <3>2, <3>3
  <2>2. Grows
    BY <1>2, Growth
  <2>3. \A s \in Streams : \A i \in New(s) :
          /\ \A p \in queue'[s][i].writes : p[2] \in Arrays
          /\ queue'[s][i].op = "eventSignal" => queue'[s][i].obj \in SyncIds
    <3>1. CASE EvalArray
      <4> DEFINE a == m.cur
                 s == StreamOf(a)
      <4>1. /\ s \in Streams /\ \A r \in Streams \ {s} : New(r) = {}
            /\ \E k \in Nat :
                 /\ DOMAIN queue[s] = 1 .. k
                 /\ IF NoWork(a)
                      THEN /\ DOMAIN queue'[s] = 1 .. k + 1
                           /\ IsHold(queue'[s][k + 1], HeldBuffers(a, buf'))
                      ELSE /\ DOMAIN queue'[s] = 1 .. k + 2
                           /\ Computes(queue'[s][k + 1], a, buf')
                           /\ IsHold(queue'[s][k + 2], HeldBuffers(a, buf'))
        BY <3>1, EvalArrayAdds
      <4>2. ~NoWork(a) => Outputs(a) \subseteq Arrays
        BY TapeFacts, GroupFacts DEF Types, Entries, NoWork
      <4> HIDE DEF a, s
      <4>3. PICK k \in Nat :
                 /\ DOMAIN queue[s] = 1 .. k
                 /\ IF NoWork(a)
                      THEN /\ DOMAIN queue'[s] = 1 .. k + 1
                           /\ IsHold(queue'[s][k + 1], HeldBuffers(a, buf'))
                      ELSE /\ DOMAIN queue'[s] = 1 .. k + 2
                           /\ Computes(queue'[s][k + 1], a, buf')
                           /\ IsHold(queue'[s][k + 2], HeldBuffers(a, buf'))
        BY <4>1
      <4>4. New(s) = IF NoWork(a) THEN {k + 1} ELSE {k + 1, k + 2}
        BY <4>3 DEF New
      <4> QED
        BY <4>1, <4>2, <4>3, <4>4 DEF IsHold, Computes
    <3>2. CASE EndEval
      <4>1. \A s \in Streams : \A i \in New(s) : queue'[s][i] = EventSignal(<<evals, s>>)
        BY <3>2, SignalsAdded
      <4>2. \A s \in Streams : <<evals, s>> \in SyncIds
        BY <3>2 DEF EndEval, Types, Running, SyncIds
      <4>3. \A s \in Streams : /\ EventSignal(<<evals, s>>).writes = {}
                               /\ EventSignal(<<evals, s>>).obj = <<evals, s>>
        BY DEF EventSignal, Task
      <4> QED
        BY <4>1, <4>2, <4>3
    <3>3. CASE ~EvalArray /\ ~EndEval
      <4>1. \A s \in Streams : \A i \in New(s) : Idle(queue'[s][i])
        BY <1>2, <3>3, OtherAdds
      <4>2. \A s \in Streams : \A i \in New(s) : queue'[s][i].op # "eventSignal"
        <5>1. CASE WaitForInput
          BY <5>1, WaitAdds, TaskFields
        <5>2. CASE Publish
          BY <5>2, PublishedOp
        <5>3. CASE ~WaitForInput /\ ~Publish
          <6>1. UNCHANGED queue
            BY <1>2, <3>3, <5>3 DEF User, Main, EvalImpl, Await, Drop, NextEntry,
              EvalThrows, Throttle, WaitForOne, OneCompleted, CheckMemory, EvalReturns,
              Awaited, OnlyMain, Quiescent, vars, streamVars
          <6> QED
            BY <6>1, NothingAdded
        <5> QED
          BY <5>1, <5>2, <5>3
      <4> QED
        BY <4>1, <4>2 DEF Idle
    <3> QED
      BY <3>1, <3>2, <3>3
  <2>4. TasksTyped'
    <3>1. SyncIds' = SyncIds
      BY DEF SyncIds
    <3>2. \A s \in Streams : \A i \in DOMAIN queue'[s] :
            (i \in DOMAIN queue[s] /\ queue'[s][i] = queue[s][i]) \/ i \in New(s)
      BY <2>2, GrowsFacts
    <3> QED
      BY <2>3, <3>1, <3>2 DEF TasksTyped, Memory
  <2> QED
    BY <1>1, <2>1, <2>4 DEF Memory
<1>3. ASSUME NEW s \in Streams, RunStream(s) PROVE Memory'
  <2>1. \A r \in Streams : \A i \in DOMAIN queue'[r] :
            \E j \in DOMAIN queue[r] : queue'[r][i] = queue[r][j]
    <3>1. CASE queue' = queue
      BY <3>1
    <3>2. CASE queue[s] # <<>> /\ PopTask(s)
      <4>1. /\ \A r \in Streams : r # s => queue'[r] = queue[r]
            /\ Len(queue[s]) \in Nat \ {0} /\ DOMAIN queue[s] = 1 .. Len(queue[s])
            /\ DOMAIN queue'[s] = 1 .. Len(queue[s]) - 1
            /\ \A i \in 1 .. Len(queue[s]) - 1 : queue'[s][i] = queue[s][i + 1]
        BY <3>2, Pops
      <4>2. \A i \in DOMAIN queue'[s] : i + 1 \in DOMAIN queue[s]
        BY <4>1
      <4> QED
        BY <4>1, <4>2
    <3> QED
      BY <1>3, <3>1, <3>2, Working
  <2>2. TasksTyped'
    BY <2>1 DEF TasksTyped, Memory, SyncIds
  <2>3. queue[s] # <<>> => Head(queue[s]) = queue[s][1] /\ 1 \in DOMAIN queue[s]
    BY TailFacts DEF Types
  <2>4. CASE RunCompute(s)
    <3> DEFINE w == Head(queue[s]).writes
    <3>1. \A p \in w : p[2] \in Arrays
      BY <2>3, <2>4 DEF RunCompute, Runnable, Memory, TasksTyped
    <3>2. /\ content' = [b \in Buffers |->
                          IF \E p \in w : p[1] = b
                            THEN (CHOOSE p \in w : p[1] = b)[2] ELSE content[b]]
          /\ computed' = computed \cup {p[2] : p \in w} /\ signaled' = signaled
      BY <2>4 DEF RunCompute
    <3> HIDE DEF w
    <3>3. \A b \in Buffers : (\E p \in w : p[1] = b) => (CHOOSE p \in w : p[1] = b)[2] \in Arrays
      BY <3>1
    <3>4. content' \in [Buffers -> Arrays \cup {Garbage}]
      BY <3>2, <3>3 DEF Memory
    <3>5. computed' \subseteq Arrays
      BY <3>1, <3>2 DEF Memory
    <3> QED
      BY <1>1, <2>2, <3>2, <3>4, <3>5 DEF Memory
  <2>5. CASE ~RunCompute(s)
    <3>1. UNCHANGED <<content, computed>>
      BY <1>3, <2>5 DEF RunStream, RunHold, ReleaseBuffers, RunFenceWait,
           RunFenceUpdate, RunEventWait, RunEventSignal
    <3>2. signaled' \subseteq SyncIds
      BY <1>3, <2>3, <2>5 DEF RunStream, RunHold, ReleaseBuffers, RunFenceWait,
           RunFenceUpdate, RunEventWait, RunEventSignal, Runnable, Memory, TasksTyped
    <3> QED
      BY <1>1, <2>2, <3>1, <3>2 DEF Memory, SyncIds
  <2> QED
    BY <2>4, <2>5
<1> QED
  BY <1>2, <1>3 DEF Next

\* Every variable has its type, whatever the graph and wherever an eval_cpu
\* throws: in particular eval_cpu always finds a buffer for its outputs, the
\* counter of active tasks never goes below zero, and eval_impl leaves nothing
\* behind.
THEOREM TypeOKHolds == Spec => []TypeOK
<1>1. Init => Memory
  <2> SUFFICES ASSUME Init PROVE Memory
    OBVIOUS
  <2>1. TasksTyped
    BY DEF Init, TasksTyped
  <2>2. content \in [Buffers -> Arrays \cup {Garbage}]
    BY DEF Init, Buffers, Arrays
  <2> QED
    BY <2>1, <2>2 DEF Init, Memory
<1>2. FenceInv /\ FenceInv' /\ PlacedInv /\ [Next]_vars => PlacedInv'
  BY PlacedInvStep
<1>3. FenceInv /\ Memory /\ [Next]_vars => Memory'
  BY MemoryStep DEF FenceInv
<1>4. FenceInv /\ Counted /\ [Next]_vars => Counted'
  BY CountedStep DEF FenceInv
<1>5. FenceInv /\ PlacedInv /\ Memory /\ Counted => TypeOK
  <2> SUFFICES ASSUME FenceInv, PlacedInv, Memory, Counted PROVE TypeOK
    OBVIOUS
  <2>1. nActive \in Nat
    BY FS_CardinalityType DEF Counted
  <2> QED
    BY <2>1 DEF TypeOK, FenceInv, Types, Closing, PlacedInv, Placement, Memory, Counted
<1> QED
  BY <1>1, <1>2, <1>3, <1>4, <1>5, PlacedInvInit, CountedInit, FenceInvariant, PTL
     DEF Spec
=============================================================================
