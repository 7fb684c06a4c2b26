----------------------------- MODULE AsyncEval ------------------------------
(***************************************************************************)
(* The CPU evaluation engine: eval_impl (mlx/transforms.cpp) walks a tape  *)
(* on the user's thread and feeds the CPU streams; the streams run the     *)
(* tasks; fences order streams within one evaluation, events across        *)
(* evaluations; buffers are shared, donated and released by reference      *)
(* counts that tasks in flight take part in.                               *)
(*                                                                         *)
(* A stream is the executor SerialExecutor specifies.  One user thread     *)
(* calls eval and async_eval (they are not meant for concurrent calls).    *)
(* Every array has the size and type of every other, so only liveness and  *)
(* reference counts decide whether a buffer is donated.  The tape is any   *)
(* one that satisfies the contract of the tape-building code.  There are   *)
(* no tracers and no GPU streams.                                          *)
(***************************************************************************)
EXTENDS EvalGraph

CONSTANTS
  Graphs,              \* the graphs a behaviour may start from
  Faulty,              \* arrays whose eval_cpu throws
  DISPATCHES_PER_TASK, \* one in so many dispatches is counted as active
  MAX_ACTIVE_TASKS,
  MemoryLimit,         \* in buffers
  MaxEvals,            \* bound: calls of eval_impl
  MaxOutputs           \* bound: arrays given to one eval

ASSUME AsyncEvalAssumption ==
  /\ \A g \in Graphs : IsGraph(g)
  /\ DISPATCHES_PER_TASK \in Nat \ {0, 1} /\ MAX_ACTIVE_TASKS \in Nat \ {0}
  /\ MemoryLimit \in Nat /\ MaxEvals \in Nat /\ MaxOutputs \in Nat

VARIABLES
  graph,     \* never changes
  \* Arrays: the fields of ArrayDesc, and the handles the user holds.
  status, buf, event, held,
  \* Buffers: the value each holds.
  content,
  \* Streams: pending tasks, whether the task at the head has run and its
  \* closure is about to be destroyed, CommandEncoder::num_ops_.
  queue, closing, numOps,
  nActive,   \* Scheduler::n_active_tasks_
  \* Events that are signaled, values of fences.
  signaled, fenceValue,
  \* The user's thread: control, eval_impl's locals, calls so far.
  pc, m, evals,
  computed   \* history: values whose computation has run

arrayVars == <<status, buf, event>>
streamVars == <<queue, closing, numOps, nActive>>
vars == <<graph, arrayVars, held, content, streamVars, signaled, fenceValue,
          pc, m, evals, computed>>

Sync == 0            \* the Synchronizer array of the running eval_impl
Buffers == 1 .. N  \* no behaviour takes a second new buffer for an array
NoBuf == 0
NoEvent == <<>>
Garbage == 0         \* what a buffer holds before anything is written

\* An Event or Fence of one eval_impl call is named by the call and a stream.
SyncIds == (1 .. MaxEvals) \X Streams

\* Mutant: one fence for the whole evaluation, with a count per stream.
SharedFence(s) == <<evals, CHOOSE t \in Streams : TRUE>>

\* fences[stream]: one fence for the stream that updates it.
FenceOf(s) == <<evals, s>>

Outputs(a) == IF a = Sync THEN {Sync} ELSE OutputsIn(graph, a)
InputsOf(a) == IF a = Sync THEN m.outs ELSE graph.in[a]
StreamOf(a) == IF a = Sync THEN m.home ELSE graph.stream[a]
Val(a) == ValueOf(graph, a)
Unscheduled(a) == status[a] = "unscheduled"
Pending == {a \in Arrays : Unscheduled(a)}

\* eval_impl's locals when no call is running.
NoEval == [async |-> FALSE, outs |-> <<>>, home |-> CHOOSE s \in Streams : TRUE,
           tape |-> <<>>, cur |-> Sync, i |-> 1, needsFence |-> {},
           fenceCount |-> [s \in Streams |-> 0], open |-> {}, nOld |-> 0]

-----------------------------------------------------------------------------
(* Reference counts *)

\* The arrays some array object still refers to.
Live == Reach(graph, Pending,
              held \cup ToSet(m.tape) \cup ToSet(m.outs) \cup {m.cur})

\* array_desc_.use_count() of an evaluated array.
DescRefs(x) ==
  LET occurrences(s) == Cardinality({i \in DOMAIN s : s[i] = x})
      slots(c) == {<<c, i>> : i \in {j \in DOMAIN graph.in[c] : graph.in[c][j] = x}}
  IN  Cardinality(UNION {slots(c) : c \in Live \cap Pending})
        + occurrences(m.outs) + (IF x \in held THEN 1 ELSE 0)

\* array_desc_->data.use_count(): arrays sharing the buffer, and tasks in
\* flight that hold it.
DataRefs(b) ==
  LET holders(s) == {<<s, i>> : i \in {j \in DOMAIN queue[s] :
                                         b \in queue[s][j].holds}}
  IN  Cardinality({a \in Live : buf[a] = b})
        + Cardinality(UNION {holders(s) : s \in Streams})

Free(b) == DataRefs(b) = 0
ActiveMemory == Cardinality({b \in Buffers : ~Free(b)})

\* Mutant: only the array's own reference count is looked at.
DonatableIfDead(x) == DescRefs(x) = 1

Donatable(x) == DescRefs(x) = 1 /\ DataRefs(buf[x]) = 1

-----------------------------------------------------------------------------
(* Tasks *)

Task(op) == [op |-> op, obj |-> <<>>, n |-> 0, reads |-> {}, writes |-> {},
             holds |-> {}, counted |-> FALSE]
Compute(reads, writes) ==
  [Task("compute") EXCEPT !.reads = reads, !.writes = writes]
Hold(bufs) == [Task("hold") EXCEPT !.holds = bufs]
FenceWait(f, n) == [Task("fenceWait") EXCEPT !.obj = f, !.n = n]
FenceUpdate(f, n) == [Task("fenceUpdate") EXCEPT !.obj = f, !.n = n]
EventWait(e) == [Task("eventWait") EXCEPT !.obj = e]
EventSignal(e) == [Task("eventSignal") EXCEPT !.obj = e]

\* scheduler::enqueue, past the encoder: neither numbered nor counted.
Enqueue(s, tasks) == queue' = [queue EXCEPT ![s] = @ \o tasks]

\* CommandEncoder::dispatch of several tasks in a row on one stream.
Dispatch(s, tasks) ==
  LET counted(i) == (numOps[s] + i) % DISPATCHES_PER_TASK = 0
  IN  /\ Enqueue(s, [i \in DOMAIN tasks |->
                       [tasks[i] EXCEPT !.counted = counted(i)]])
      /\ numOps' = [numOps EXCEPT
                      ![s] = (@ + Len(tasks)) % DISPATCHES_PER_TASK]
      /\ nActive' = nActive + Cardinality({i \in DOMAIN tasks : counted(i)})

-----------------------------------------------------------------------------
(* The worker of stream s.  A closure is destroyed after it has run: only  *)
(* a hold task owns buffers, so only its destruction is a step of its own. *)

Runnable(s, op) ==
  queue[s] # <<>> /\ ~closing[s] /\ Head(queue[s]).op = op

PopTask(s) == queue' = [queue EXCEPT ![s] = Tail(@)]

\* Mutant: every task reports its completion.
NotifyAlways(s) == nActive' = nActive - 1

\* notify_task_completion, for the tasks the encoder counted.
NotifyCompletion(s) ==
  nActive' = IF Head(queue[s]).counted THEN nActive - 1 ELSE nActive

RunCompute(s) ==
  /\ Runnable(s, "compute")
  /\ LET w == Head(queue[s]).writes
     IN  /\ content' = [b \in Buffers |->
                          IF \E p \in w : p[1] = b
                            THEN (CHOOSE p \in w : p[1] = b)[2] ELSE content[b]]
         /\ computed' = computed \cup {p[2] : p \in w}
  /\ NotifyCompletion(s) /\ PopTask(s)
  /\ UNCHANGED <<graph, arrayVars, held, closing, numOps, signaled, fenceValue,
                 pc, m, evals>>

RunHold(s) ==
  /\ Runnable(s, "hold")
  /\ NotifyCompletion(s)
  /\ closing' = [closing EXCEPT ![s] = TRUE]
  /\ UNCHANGED <<graph, arrayVars, held, content, queue, numOps, signaled,
                 fenceValue, pc, m, evals, computed>>

ReleaseBuffers(s) ==
  /\ closing[s]
  /\ closing' = [closing EXCEPT ![s] = FALSE]
  /\ PopTask(s)
  /\ UNCHANGED <<graph, arrayVars, held, content, numOps, nActive, signaled,
                 fenceValue, pc, m, evals, computed>>

\* Fence::wait blocks the stream until the fence has reached the count.
RunFenceWait(s) ==
  /\ Runnable(s, "fenceWait")
  /\ fenceValue[Head(queue[s]).obj] >= Head(queue[s]).n
  /\ PopTask(s)
  /\ UNCHANGED <<graph, arrayVars, held, content, closing, numOps, nActive,
                 signaled, fenceValue, pc, m, evals, computed>>

RunFenceUpdate(s) ==
  /\ Runnable(s, "fenceUpdate")
  /\ fenceValue' = [fenceValue EXCEPT ![Head(queue[s]).obj] = Head(queue[s]).n]
  /\ PopTask(s)
  /\ UNCHANGED <<graph, arrayVars, held, content, closing, numOps, nActive,
                 signaled, pc, m, evals, computed>>

\* Event::wait(stream) blocks the stream until the event is signaled.
RunEventWait(s) ==
  /\ Runnable(s, "eventWait")
  /\ Head(queue[s]).obj \in signaled
  /\ PopTask(s)
  /\ UNCHANGED <<graph, arrayVars, held, content, closing, numOps, nActive,
                 signaled, fenceValue, pc, m, evals, computed>>

RunEventSignal(s) ==
  /\ Runnable(s, "eventSignal")
  /\ signaled' = signaled \cup {Head(queue[s]).obj}
  /\ PopTask(s)
  /\ UNCHANGED <<graph, arrayVars, held, content, closing, numOps, nActive,
                 fenceValue, pc, m, evals, computed>>

RunStream(s) ==
  \/ RunCompute(s) \/ RunHold(s) \/ ReleaseBuffers(s)
  \/ RunFenceWait(s) \/ RunFenceUpdate(s)
  \/ RunEventWait(s) \/ RunEventSignal(s)

-----------------------------------------------------------------------------
(* eval_impl: entry, with the tape *)

\* The tapes the graph walk may come up with (TapeBuilder is the walk).
Tapes(outs) ==
  {t \in BoundedSeq(Needed(graph, Pending, outs), N) :
     IsTape(graph, Pending, outs, t)}

\* Mutant: the streams of an entry and its input are not compared for the
\* Synchronizer, which has no device work of its own.
NeedsFenceInside(t, outs, home) ==
  {x \in Pending : \E a \in ToSet(t) :
     x \in ToSet(graph.in[a]) /\ graph.stream[x] # graph.stream[a]}

\* The keys of needs_fence.
NeedsFence(t, outs, home) == FencedInputs(graph, Pending, outs, home, t)

\* The stream of the first output to be scheduled becomes the Synchronizer's.
EvalImpl(async, outs) ==
  /\ pc = "idle" /\ evals < MaxEvals
  /\ ToSet(outs) \subseteq held
  /\ \E k \in DOMAIN outs, t \in Tapes(outs) :
       /\ Unscheduled(outs[k])
       /\ \A j \in 1 .. k - 1 : ~Unscheduled(outs[j])
       /\ LET home == graph.stream[outs[k]]
          IN  m' = [NoEval EXCEPT
                      !.async = async, !.outs = outs, !.home = home,
                      !.tape = Append(t, Sync),
                      !.needsFence = NeedsFence(t, outs, home)]
  /\ evals' = evals + 1
  /\ pc' = "next"
  /\ UNCHANGED <<graph, arrayVars, held, content, streamVars, signaled,
                 fenceValue, computed>>

-----------------------------------------------------------------------------
(* eval_impl: one entry of the tape *)

\* Take the next entry; in an async evaluation its outputs get the event of
\* their stream.
NextEntry ==
  /\ pc = "next" /\ m.tape # <<>>
  /\ LET a == Head(m.tape)
         s == StreamOf(a)
     IN  /\ m' = [m EXCEPT !.tape = Tail(@), !.cur = a, !.i = 1,
                           !.open = @ \cup {s}]
         /\ event' = [x \in Arrays |-> IF m.async /\ x \in Outputs(a)
                                         THEN <<evals, s>> ELSE event[x]]
  /\ pc' = "inputs"
  /\ UNCHANGED <<graph, status, buf, held, content, streamVars,
                 signaled, fenceValue, evals, computed>>

\* Mutant: waits only within the running evaluation.
WaitForFencesOnly ==
  /\ pc = "inputs" /\ m.i <= Len(InputsOf(m.cur))
  /\ LET x == InputsOf(m.cur)[m.i]
         src == graph.stream[x]
     IN  IF x \in m.needsFence
           THEN Enqueue(StreamOf(m.cur),
                        <<FenceWait(FenceOf(src), m.fenceCount[src])>>)
           ELSE UNCHANGED queue
  /\ m' = [m EXCEPT !.i = @ + 1]
  /\ UNCHANGED <<graph, arrayVars, held, content, closing, numOps, nActive,
                 signaled, fenceValue, pc, evals, computed>>

\* Make the entry's stream wait for one input: with a fence if this
\* evaluation computes it, else with its event unless that is signaled or the
\* stream is the one the event is signaled in.
WaitForInput ==
  /\ pc = "inputs" /\ m.i <= Len(InputsOf(m.cur))
  /\ LET x == InputsOf(m.cur)[m.i]
         s == StreamOf(m.cur)
         src == graph.stream[x]
     IN  IF x \in m.needsFence
           THEN /\ Enqueue(s, <<FenceWait(FenceOf(src), m.fenceCount[src])>>)
                /\ UNCHANGED event
         ELSE IF event[x] = NoEvent THEN UNCHANGED <<queue, event>>
         ELSE IF event[x] \in signaled
           THEN /\ event' = [event EXCEPT ![x] = NoEvent]
                /\ UNCHANGED queue
         ELSE /\ IF event[x][2] # s THEN Enqueue(s, <<EventWait(event[x])>>)
                                    ELSE UNCHANGED queue
              /\ UNCHANGED event
  /\ m' = [m EXCEPT !.i = @ + 1]
  /\ UNCHANGED <<graph, status, buf, held, content, closing, numOps,
                 nActive, signaled, fenceValue, pc, evals, computed>>

\* The k-th smallest member of a set of numbers.
Nth(S, k) == CHOOSE i \in S : Cardinality({j \in S : j <= i}) = k

(***************************************************************************)
(* eval_cpu: where the outputs go.  Inputs that may be donated are given   *)
(* away from the first on; what is left takes free buffers.                *)
(***************************************************************************)
Place(a) ==
  LET in == graph.in[a]
      donors == {i \in DOMAIN in : graph.kind[a] = "donates" /\ Donatable(in[i])}
      given == Cardinality(donors)
      fresh == {b \in Buffers : Free(b)}
      position(o) == Cardinality({x \in Outputs(a) : x <= o})
      place(o) == IF graph.kind[a] = "views" THEN buf[in[1]]
                  ELSE IF position(o) <= given THEN buf[in[Nth(donors, position(o))]]
                  ELSE Nth(fresh, position(o) - given)
  IN  [x \in Arrays |-> IF x \in Outputs(a) THEN place(x) ELSE buf[x]]

\* The task eval_cpu dispatches, with raw pointers into the buffers.
ComputeTask(a, place) ==
  Compute({<<place[x], Val(x)>> : x \in ToSet(graph.in[a])},
          {<<place[o], o>> : o \in Outputs(a)})

\* Mutant: the other outputs are not kept.
HeldInputs(a, place) ==
  {place[x] : x \in ToSet(InputsOf(a))} \ (IF a = Sync THEN {} ELSE {place[a]})

\* The buffers cpu::eval keeps until the computation has run.
HeldBuffers(a, place) ==
  {place[x] : x \in ToSet(InputsOf(a)) \cup (Outputs(a) \ {a})}
    \ (IF a = Sync THEN {} ELSE {place[a]})

\* cpu::eval.
EvalArray ==
  /\ pc = "inputs" /\ m.i > Len(InputsOf(m.cur)) /\ m.cur \notin Faulty
  /\ LET a == m.cur
         place == IF a = Sync THEN buf ELSE Place(a)
         hold == Hold(HeldBuffers(a, place))
     IN  /\ buf' = place
         /\ Dispatch(StreamOf(a),
                     IF a = Sync \/ graph.kind[a] = "views" THEN <<hold>>
                     ELSE <<ComputeTask(a, place), hold>>)
  /\ pc' = "throttle"
  /\ UNCHANGED <<graph, status, event, held, content, closing,
                 signaled, fenceValue, m, evals, computed>>

\* eval_cpu throws: eval_impl is unwound, whatever was enqueued stays.
EvalThrows ==
  /\ pc = "inputs" /\ m.i > Len(InputsOf(m.cur)) /\ m.cur \in Faulty
  /\ pc' = "idle" /\ m' = NoEval
  /\ UNCHANGED <<graph, arrayVars, held, content, streamVars, signaled,
                 fenceValue, evals, computed>>

-----------------------------------------------------------------------------
(* eval_impl: back-pressure *)

OverMemory == ActiveMemory > MemoryLimit /\ nActive > 0

\* All that is left unchanged while the user's thread only looks or waits.
OnlyMain == UNCHANGED <<graph, arrayVars, held, content, streamVars, signaled,
                        fenceValue, evals, computed>>

\* Mutant: one task more is let through.
ThrottleLate ==
  /\ pc = "throttle"
  /\ pc' = IF nActive > MAX_ACTIVE_TASKS + 1 \/ OverMemory
             THEN "waitForOne" ELSE "publish"
  /\ UNCHANGED m /\ OnlyMain

Throttle ==
  /\ pc = "throttle"
  /\ pc' = IF nActive > MAX_ACTIVE_TASKS \/ OverMemory
             THEN "waitForOne" ELSE "publish"
  /\ UNCHANGED m /\ OnlyMain

\* Scheduler::wait_for_one waits only if more than one task is active.
WaitForOne ==
  /\ pc = "waitForOne"
  /\ IF nActive > 1 THEN pc' = "waiting" /\ m' = [m EXCEPT !.nOld = nActive]
                    ELSE pc' = "memory" /\ UNCHANGED m
  /\ OnlyMain

OneCompleted ==
  /\ pc = "waiting" /\ nActive < m.nOld
  /\ pc' = "memory" /\ UNCHANGED m /\ OnlyMain

CheckMemory ==
  /\ pc = "memory"
  /\ pc' = IF OverMemory THEN "waitForOne" ELSE "publish"
  /\ UNCHANGED m /\ OnlyMain

-----------------------------------------------------------------------------
(* eval_impl: publishing an entry, and the end *)

\* Mutant: only the entry itself moves the fence, its siblings do not.
PublishEntryOnly ==
  /\ pc = "publish"
  /\ LET a == m.cur
         s == StreamOf(a)
         fenced == Cardinality({a} \cap m.needsFence)
     IN  /\ status' = [x \in Arrays |-> IF x \in Outputs(a) THEN "evaluated"
                                        ELSE status[x]]
         /\ Enqueue(s, [i \in 1 .. fenced |->
                          FenceUpdate(FenceOf(s), m.fenceCount[s] + i)])
         /\ m' = [m EXCEPT !.fenceCount[s] = @ + fenced, !.cur = Sync,
                           !.outs = IF a = Sync THEN <<>> ELSE @]
  /\ pc' = "next"
  /\ UNCHANGED <<graph, buf, event, held, content, closing, numOps, nActive,
                 signaled, fenceValue, evals, computed>>

\* The outputs become "evaluated" and, there being no tracers, are detached: the
\* primitive lets go of its inputs and siblings.  The stream's fence moves on
\* once for every output other streams wait for.
Publish ==
  /\ pc = "publish"
  /\ LET a == m.cur
         s == StreamOf(a)
         fenced == Cardinality(Outputs(a) \cap m.needsFence)
         update(i) == FenceUpdate(FenceOf(s), m.fenceCount[s] + i)
     IN  /\ status' = [x \in Arrays |-> IF x \in Outputs(a) THEN "evaluated"
                                        ELSE status[x]]
         /\ Enqueue(s, [i \in 1 .. fenced |-> update(i)])
         /\ m' = [m EXCEPT !.fenceCount[s] = @ + fenced, !.cur = Sync,
                           !.outs = IF a = Sync THEN <<>> ELSE @]
  /\ pc' = "next"
  /\ UNCHANGED <<graph, buf, event, held, content, closing, numOps, nActive,
                 signaled, fenceValue, evals, computed>>

\* Mutant: only the Synchronizer's event is signaled.
EndEvalHomeOnly ==
  /\ pc = "next" /\ m.tape = <<>>
  /\ Enqueue(m.home, <<EventSignal(<<evals, m.home>>)>>)
  /\ IF m.async THEN pc' = "idle" /\ m' = NoEval
                ELSE pc' = "sync" /\ m' = [NoEval EXCEPT !.home = m.home]
  /\ UNCHANGED <<graph, arrayVars, held, content, closing, numOps, nActive,
                 signaled, fenceValue, evals, computed>>

\* Every stream that was used signals its event, if there is one; eval then
\* waits for the Synchronizer's.
EndEval ==
  /\ pc = "next" /\ m.tape = <<>>
  /\ queue' = [s \in Streams |->
                 IF s \in m.open /\ (m.async \/ s = m.home)
                   THEN Append(queue[s], EventSignal(<<evals, s>>))
                   ELSE queue[s]]
  /\ IF m.async THEN pc' = "idle" /\ m' = NoEval
                ELSE pc' = "sync" /\ m' = [NoEval EXCEPT !.home = m.home]
  /\ UNCHANGED <<graph, arrayVars, held, content, closing, numOps, nActive,
                 signaled, fenceValue, evals, computed>>

EvalReturns ==
  /\ pc = "sync" /\ <<evals, m.home>> \in signaled
  /\ pc' = "idle" /\ m' = NoEval /\ OnlyMain

-----------------------------------------------------------------------------
(* The user *)

\* array::is_available().
Available(a) ==
  \/ status[a] = "available"
  \/ status[a] = "evaluated" /\ (event[a] = NoEvent \/ event[a] \in signaled)

\* array::wait(); eval of arrays that are all scheduled is one such call each.
Await(a) ==
  /\ pc = "idle" /\ a \in held /\ status[a] = "evaluated"
  /\ IF Available(a)
       THEN /\ status' = [status EXCEPT ![a] = "available"]
            /\ UNCHANGED <<pc, m>>
       ELSE /\ pc' = "await" /\ m' = [NoEval EXCEPT !.cur = a]
            /\ UNCHANGED status
  /\ UNCHANGED <<graph, buf, event, held, content, streamVars,
                 signaled, fenceValue, evals, computed>>

Awaited ==
  /\ pc = "await" /\ event[m.cur] \in signaled
  /\ event' = [event EXCEPT ![m.cur] = NoEvent]
  /\ status' = [status EXCEPT ![m.cur] = "available"]
  /\ pc' = "idle" /\ m' = NoEval
  /\ UNCHANGED <<graph, buf, held, content, streamVars, signaled,
                 fenceValue, evals, computed>>

Drop(a) ==
  /\ pc = "idle" /\ a \in held
  /\ held' = held \ {a}
  /\ UNCHANGED <<graph, arrayVars, content, streamVars, signaled, fenceValue,
                 pc, m, evals, computed>>

-----------------------------------------------------------------------------

\* The user has built the graph and holds every array of it.
Init ==
  /\ graph \in Graphs
  /\ status = [a \in Arrays |-> IF graph.kind[a] = "leaf" THEN "available"
                                                          ELSE "unscheduled"]
  /\ buf = [a \in Arrays |-> IF graph.kind[a] = "leaf" THEN a ELSE NoBuf]
  /\ event = [a \in Arrays |-> NoEvent]
  /\ held = Arrays
  /\ content = [b \in Buffers |-> IF graph.kind[b] = "leaf" THEN b ELSE Garbage]
  /\ queue = [s \in Streams |-> <<>>]
  /\ closing = [s \in Streams |-> FALSE]
  /\ numOps = [s \in Streams |-> 0]
  /\ nActive = 0
  /\ signaled = {}
  /\ fenceValue = [f \in SyncIds |-> 0]
  /\ pc = "idle" /\ m = NoEval /\ evals = 0
  /\ computed = {}

User ==
  \/ \E n \in 1 .. MaxOutputs : \E outs \in [1 .. n -> held] :
       IsInjective(outs) /\ \E async \in BOOLEAN : EvalImpl(async, outs)
  \/ \E a \in Arrays : Await(a) \/ Drop(a)

\* What the user's thread does inside a call.
Main ==
  \/ NextEntry \/ WaitForInput \/ EvalArray \/ EvalThrows
  \/ Throttle \/ WaitForOne \/ OneCompleted \/ CheckMemory
  \/ Publish \/ EndEval \/ EvalReturns \/ Awaited

\* The user may leave at any time once nothing is in flight.
Quiescent ==
  /\ pc = "idle" /\ \A s \in Streams : queue[s] = <<>>
  /\ UNCHANGED vars

Next == User \/ Main \/ (\E s \in Streams : RunStream(s)) \/ Quiescent

\* Threads that can run do; nobody has to call anything.
Fairness == WF_vars(Main) /\ \A s \in Streams : WF_vars(RunStream(s))

Spec == Init /\ [][Next]_vars /\ Fairness

-----------------------------------------------------------------------------
(* Properties *)

\* The variables have their types, and the locals of eval_impl are clear
\* whenever no call is running.
TypeOK ==
  /\ status \in [Arrays -> {"unscheduled", "evaluated", "available"}]
  /\ buf \in [Arrays -> Buffers \cup {NoBuf}]
  /\ event \in [Arrays -> SyncIds \cup {NoEvent}]
  /\ held \subseteq Arrays
  /\ content \in [Buffers -> Arrays \cup {Garbage}]
  /\ closing \in [Streams -> BOOLEAN]
  /\ \A s \in Streams : closing[s] => queue[s] # <<>>
  /\ numOps \in [Streams -> 0 .. DISPATCHES_PER_TASK - 1]
  /\ nActive \in Nat /\ evals \in 0 .. MaxEvals
  /\ signaled \subseteq SyncIds /\ fenceValue \in [SyncIds -> Nat]
  /\ pc = "idle" => m = NoEval
  /\ computed \subseteq Arrays

\* A computation about to run finds in its input buffers the values of its
\* inputs: they were computed, on whatever stream, and neither a donation nor
\* the reuse of a released buffer has overwritten them.
ReadsSettled ==
  \A s \in Streams :
    Runnable(s, "compute") =>
      \A r \in Head(queue[s]).reads : content[r[1]] = r[2]

\* As long as a computation is pending or running, every buffer it has a raw
\* pointer to is owned by somebody: unsafe_weak_copy is safe.
PendingBuffersOwned ==
  \A s \in Streams : \A i \in DOMAIN queue[s] :
    \A p \in queue[s][i].reads \cup queue[s][i].writes : ~Free(p[1])

\* What the user sees as available has been computed and is still in the
\* array's buffer.
AvailableMeansComputed ==
  pc = "idle" =>
    \A a \in Live : Available(a) => content[buf[a]] = Val(a)

\* n_active_tasks is the number of counted tasks that have not run, and the
\* back-pressure of eval_impl keeps it at most one above its limit.
BacklogBounded ==
  /\ nActive = Cardinality(UNION {{<<s, i>> :
                 i \in {j \in DOMAIN queue[s] :
                          queue[s][j].counted /\ (j = 1 => ~closing[s])}} :
                   s \in Streams})
  /\ nActive <= MAX_ACTIVE_TASKS + 1

Coming(s, op, obj, n) ==
  \E i \in DOMAIN queue[s] : /\ queue[s][i].op = op /\ queue[s][i].obj = obj
                             /\ queue[s][i].n >= n
FenceCovered(f, n) == fenceValue[f] >= n \/ Coming(f[2], "fenceUpdate", f, n)
EventCovered(e) == e \in signaled \/ Coming(e[2], "eventSignal", e, 0)

\* A stream that waits for a fence, or will, waits for an update that has run
\* or is in the queue of the fence's stream: no step eval_impl still has to
\* take is needed to wake it, so an exception half-way strands no stream.
FenceWaitsCovered ==
  \A s \in Streams : \A i \in DOMAIN queue[s] :
    queue[s][i].op = "fenceWait" => FenceCovered(queue[s][i].obj, queue[s][i].n)

\* The same for events: whoever waits for one, on a stream of a later
\* evaluation or on the user's thread, waits for a signal that is on its way.
EventWaitsCovered ==
  /\ \A s \in Streams : \A i \in DOMAIN queue[s] :
       queue[s][i].op = "eventWait" => EventCovered(queue[s][i].obj)
  /\ pc = "sync" => EventCovered(<<evals, m.home>>)
  /\ pc = "await" => EventCovered(event[m.cur])

\* Stream s can take a step: the guards of RunStream(s).
CanRun(s) ==
  /\ queue[s] # <<>>
  /\ \/ closing[s]
     \/ LET t == Head(queue[s])
        IN  \/ t.op \in {"compute", "hold", "fenceUpdate", "eventSignal"}
            \/ t.op = "fenceWait" /\ fenceValue[t.obj] >= t.n
            \/ t.op = "eventWait" /\ t.obj \in signaled

\* The user's thread is inside a call and cannot go on by itself.
MainBlocked ==
  \/ pc = "waiting" /\ nActive >= m.nOld
  \/ pc = "sync" /\ <<evals, m.home>> \notin signaled
  \/ pc = "await" /\ event[m.cur] \notin signaled

\* The streams never wait for each other in a circle, though fences and events
\* cross between them in both directions: while a task is queued, or the user's
\* thread is blocked inside a call, some stream can go on.
NoDeadlock ==
  MainBlocked \/ (\E s \in Streams : queue[s] # <<>>) => \E s \in Streams : CanRun(s)

\* eval_impl never waits on a fence it has not created: fences[...] would be a
\* null Fence.
FenceExists ==
  pc = "inputs" /\ m.i <= Len(InputsOf(m.cur)) =>
    LET x == InputsOf(m.cur)[m.i]
    IN  x \in m.needsFence => m.fenceCount[graph.stream[x]] > 0

\* The updates of a fence run in the order they were issued, so its value
\* never goes back (it is assigned, not raised to a maximum).
FencesAdvance == [][\A f \in SyncIds : fenceValue'[f] >= fenceValue[f]]_vars

\* Every call the user makes returns: neither the throttle nor a wait inside
\* or after the evaluation blocks for ever.
CallsReturn == pc # "idle" ~> pc = "idle"

\* The engine implements lazy evaluation: each value asked for is computed
\* once, after what it depends on, and eventually.
IsValue(a) == graph.kind[a] \in {"donates", "allocates"}
LazyDeps == [v \in {a \in Arrays : IsValue(a)} |->
               {x \in {Val(y) : y \in ToSet(graph.in[v])} : IsValue(x)}]
Asked == {a \in Arrays : IsValue(a) /\
            \/ ~Unscheduled(a)
            \/ \E t \in (ToSet(m.tape) \cup {m.cur}) \ {Sync} : a \in Outputs(t)}
Lazy == INSTANCE LazyEval WITH deps <- LazyDeps, asked <- Asked
ImplementsLazyEval == Lazy!Spec
=============================================================================
