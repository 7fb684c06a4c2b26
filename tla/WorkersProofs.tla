---------------------------- MODULE WorkersProofs ----------------------------
(***************************************************************************)
(* Theorems about the threads that do other threads' work, as MCWorkers    *)
(* puts them together.                                                     *)
(*   The stream thread (mlx/scheduler.h), for any number of clients, tasks *)
(* and spurious wake-ups: its safety invariants, and that it implements    *)
(* the safety part of SerialExecutor.                                      *)
(*   The loading of files: a load that succeeded in full has put the bytes *)
(* of the file into the buffer (LoadsHonest, mlx/io/load.cpp and           *)
(* mlx/backend/common/load.cpp), for any loads, any number of threads and  *)
(* any interleaving of the stream, the two pools and their short reads and *)
(* failures.  The invariant follows a batch through its life (queued,      *)
(* being read, with its result) and ties the number of futures a reader    *)
(* has asked for to the results it has seen.                               *)
(***************************************************************************)
EXTENDS MCWorkers, SequenceTheorems, TLAPS

-----------------------------------------------------------------------------
(* The stream thread *)

(***************************************************************************)
(* The strengthening.  Flow says where an accepted task is: it ran, it is  *)
(* in the worker's hands, or it is queued, in this order.  Without it      *)
(* ExitsDrained is not inductive; Exited pins down a worker that left.     *)
(***************************************************************************)
Flow ==
  /\ accepted = (ran \o task) \o q
  /\ wpc = "run" => \E t \in Tasks : task = <<t>>

Exited ==
  /\ wpc = "exit" => stop /\ q = <<>> /\ task = <<>>
  /\ dpc = "gone" => wpc = "exit"

IInv == TypeOK /\ NoLostWakeup /\ Flow /\ Exited

-----------------------------------------------------------------------------
(* Sequences of tasks *)

\* Handing the head of the queue to the worker reorders nothing.
LEMMA HeadMoves ==
  ASSUME NEW S, NEW r \in Seq(S), NEW s \in Seq(S), s # <<>>
  PROVE  /\ (r \o <<>>) \o s = (r \o <<Head(s)>>) \o Tail(s)
         /\ Head(s) \in S /\ Tail(s) \in Seq(S)
  OBVIOUS

\* The element the worker holds is the next one of the accepted sequence.
LEMMA NextAccepted ==
  ASSUME NEW S, NEW r \in Seq(S), NEW e \in S, NEW s \in Seq(S)
  PROVE  /\ Len(r) < Len((r \o <<e>>) \o s)
         /\ r \o <<e>> = Append(r, ((r \o <<e>>) \o s)[Len(r) + 1])
<1>1. Append(r, e) = r \o <<e>>
  BY AppendIsConcat
<1>2. /\ Append(r, e) \in Seq(S)
      /\ Len(Append(r, e)) = Len(r) + 1
      /\ Append(r, e)[Len(r) + 1] = e
  BY AppendProperties
<1>3. /\ Len(Append(r, e) \o s) = Len(r) + 1 + Len(s)
      /\ (Append(r, e) \o s)[Len(r) + 1] = e
  BY <1>2, ConcatProperties, LenProperties
<1> QED
  BY <1>1, <1>3, LenProperties

\* The empty sequence is neutral.
LEMMA EmptyNeutral ==
  ASSUME NEW S, NEW r \in Seq(S)
  PROVE  r \o <<>> = r /\ <<>> \o r = r
  OBVIOUS

-----------------------------------------------------------------------------
(* The invariants *)

\* The constructor leaves an empty running stream.
LEMMA InitInv == Init => IInv
<1> SUFFICES ASSUME Init PROVE IInv
  OBVIOUS
<1> USE DEF Init, NoTask
<1>1. TypeOK
  <2>1. cpc \in [Clients -> {"idle", "notify"}] /\ stop \in BOOLEAN
    OBVIOUS
  <2>2. spurious \in 0..MaxSpurious
    BY StreamThreadAssumption
  <2>3. stop <=> dpc # "live"
    OBVIOUS
  <2> QED
    BY <2>1, <2>2, <2>3, EmptySeq DEF TypeOK
<1>2. Flow
  BY EmptyNeutral, EmptySeq DEF Flow
<1> QED
  BY <1>1, <1>2 DEF IInv, NoLostWakeup, Exited

\* Every step of a client, of the worker and of the destructor preserves the
\* strengthened invariant.
LEMMA StepInv == IInv /\ [Next]_vars => IInv'
<1> SUFFICES ASSUME IInv, [Next]_vars PROVE IInv'
  OBVIOUS
<1> USE StreamThreadAssumption DEF IInv, TypeOK, NoLostWakeup, Exited, NoTask
<1>1. ASSUME NEW c \in Clients, NEW t \in Tasks, Emplace(c, t) PROVE IInv'
  <2>1. Flow'
    <3>1. PICK w \in Seq(Tasks) : w = ran \o task
      BY ConcatProperties
    <3>2. q \in Seq(Tasks)
      OBVIOUS
    <3>3. Append(w \o q, t) = w \o Append(q, t)
      BY ONLY <3>2
    <3> QED
      BY <1>1, <3>1, <3>3 DEF Emplace, Flow
  <2>2. TypeOK'
    BY <1>1 DEF Emplace
  <2>3. NoLostWakeup'
    BY <1>1 DEF Emplace
  <2>4. Exited'
    BY <1>1 DEF Emplace
  <2> QED
    BY <2>1, <2>2, <2>3, <2>4
<1>2. ASSUME NEW c \in Clients, NEW t \in Tasks, EnqueueThrows(c, t)
      PROVE IInv'
  BY <1>2 DEF EnqueueThrows, Flow
<1>3. ASSUME NEW c \in Clients, NotifyOne(c) PROVE IInv'
  BY <1>3 DEF NotifyOne, WakeWorker, Flow
<1>4. CASE Block
  BY <1>4 DEF Block, Flow
<1>5. CASE SpuriousWake
  BY <1>5 DEF SpuriousWake, Flow
<1>6. CASE Pop
  <2>1. task = <<>>
    BY <1>6 DEF Pop
  <2>2. Head(q) \in Tasks /\ Tail(q) \in Seq(Tasks)
    BY <1>6, HeadMoves DEF Pop
  <2>3. Flow'
    BY <1>6, <2>1, <2>2, HeadMoves DEF Pop, Flow
  <2> QED
    BY <1>6, <2>2, <2>3 DEF Pop
<1>7. CASE RunTask
  <2>1. ran \o task \in Seq(Tasks)
    BY ConcatProperties
  <2>2. (ran \o task) \o <<>> = ran \o task
    BY <2>1, EmptyNeutral
  <2>3. Flow'
    BY <1>7, <2>2 DEF RunTask, Flow
  <2> QED
    BY <1>7, <2>1, <2>3 DEF RunTask
<1>8. CASE Exit
  BY <1>8 DEF Exit, Flow
<1>9. CASE SetStop
  BY <1>9 DEF SetStop, Flow
<1>10. CASE NotifyStop
  BY <1>10 DEF NotifyStop, WakeWorker, Flow
<1>11. CASE Join
  BY <1>11 DEF Join, Flow
<1>12. CASE UNCHANGED vars
  BY <1>12 DEF vars, Flow
<1> QED
  BY <1>1, <1>2, <1>3, <1>4, <1>5, <1>6, <1>7, <1>8, <1>9, <1>10, <1>11,
     <1>12 DEF Next, Worker, Destroy, Terminated

LEMMA Invariance == Spec => []IInv
  BY InitInv, StepInv, PTL DEF Spec

\* The types of the queue, the flags, the program counters and the histories.
THEOREM TypeCorrect == Spec => []TypeOK
  BY Invariance, PTL DEF IInv

\* No wake-up is lost, whoever notifies and however late.
THEOREM WakeupsArrive == Spec => []NoLostWakeup
  BY Invariance, PTL DEF IInv

\* The worker leaves only when everything that was accepted has run.
THEOREM DrainsBeforeExit == Spec => []ExitsDrained
<1>1. IInv => ExitsDrained
  <2> SUFFICES ASSUME IInv, wpc = "exit" PROVE stop /\ ran = accepted
    BY DEF ExitsDrained
  <2>1. accepted = (ran \o <<>>) \o <<>> /\ stop
    BY DEF IInv, Flow, Exited
  <2> QED
    BY <2>1, EmptyNeutral DEF IInv, TypeOK
<1> QED
  BY <1>1, Invariance, PTL

-----------------------------------------------------------------------------
(* The refinement *)

LEMMA InitRefines == Init => Executor!Init
  BY DEF Init, Executor!Init

\* Emplace submits, RunTask runs the next task, Join closes; every other step
\* is internal.
LEMMA StepRefines ==
  IInv /\ IInv' /\ [Next]_vars => [Executor!Next]_Executor!exvars
<1> SUFFICES ASSUME IInv, IInv', [Next]_vars
             PROVE  [Executor!Next]_Executor!exvars
  OBVIOUS
<1> USE DEF IInv, TypeOK, Executor!exvars
<1>1. ASSUME NEW c \in Clients, NEW t \in Tasks, Emplace(c, t)
      PROVE  Executor!Submit(t)
  <2>1. \A i \in DOMAIN accepted : accepted[i] # t
    BY <1>1 DEF Emplace, Offered
  <2> QED
    BY <1>1, <2>1 DEF Emplace, Executor!Submit
<1>2. CASE RunTask
  <2>1. PICK t \in Tasks : task = <<t>>
    BY <1>2 DEF RunTask, Flow
  <2>2. accepted = (ran \o <<t>>) \o q /\ ran' = ran \o <<t>>
    BY <1>2, <2>1 DEF RunTask, Flow
  <2>3. Len(ran) < Len(accepted) /\ ran' = Append(ran, accepted[Len(ran) + 1])
    BY <2>2, NextAccepted
  <2>4. dpc # "gone" /\ UNCHANGED <<accepted, dpc>>
    BY <1>2 DEF RunTask, Exited
  <2>5. Executor!RunNext
    BY <2>3, <2>4 DEF Executor!RunNext
  <2> QED
    BY <2>5 DEF Executor!Next
<1>3. CASE Join
  <2>1. ran = accepted
    <3>1. accepted = (ran \o <<>>) \o <<>>
      BY <1>3 DEF Join, Flow, Exited
    <3> QED
      BY <3>1, EmptyNeutral
  <2>2. Executor!Close
    BY <1>3, <2>1 DEF Join, Executor!Close
  <2> QED
    BY <2>2 DEF Executor!Next
<1>4. ASSUME \/ \E c \in Clients, t \in Tasks : EnqueueThrows(c, t)
             \/ \E c \in Clients : NotifyOne(c)
             \/ Block \/ SpuriousWake \/ Pop \/ Exit
             \/ SetStop \/ NotifyStop \/ UNCHANGED vars
      PROVE  UNCHANGED <<accepted, ran, dpc = "gone">>
  BY <1>4 DEF EnqueueThrows, NotifyOne, Block, SpuriousWake, Pop, Exit, SetStop,
              NotifyStop, vars
<1> QED
  BY <1>1, <1>2, <1>3, <1>4 DEF Next, Worker, Destroy, Terminated, Executor!Next

\* The safety part of the promise: tasks run once, in the order they were
\* accepted, and the stream closes drained.
THEOREM ImplementsExecutorSafety ==
  Spec => Executor!Init /\ [][Executor!Next]_Executor!exvars
  BY Invariance, InitRefines, StepRefines, PTL DEF Spec

-----------------------------------------------------------------------------
(* The loading of files *)

L == DOMAIN Loads
B == Files!Batches
Contents == {"unread", "right", "wrong"}

\* What the variables of FileLoads range over.
FileTypes ==
  /\ waits \in Seq(L) /\ reads \in Seq(L)
  /\ load \in [L -> [at : {"lazy", "queued", "split", "rest", "get", "read", "threw"},
                     next : Nat \ {0}]]
  /\ queuedBatches \in Seq(B)
  /\ reading \subseteq B
  /\ result \in [B -> {"none", "true", "false"}]
  /\ data = [l \in L |-> data[l]]
  /\ \A l \in L : data[l] \in [Files!PartsOf(l) -> Contents]
  /\ faulty \subseteq L

\* The loop over n in read has handed batch b to the reader's pool.
HandedOver(b) ==
  \/ load[b[1]].at = "split" /\ b[2] < load[b[1]].next
  \/ load[b[1]].at \in {"rest", "get", "read", "threw"}

\* A load waits once for a thread, and is nowhere else meanwhile.
ReadsOnce ==
  /\ \A i, j \in DOMAIN reads : reads[i] = reads[j] => i = j
  /\ \A i \in DOMAIN reads : load[reads[i]].at = "queued"
  /\ \A l \in L : load[l].at \in {"lazy", "queued"} => load[l].next = 1

\* A batch is read once: it is queued, being read or has its result.
BatchesOnce ==
  /\ \A i, j \in DOMAIN queuedBatches :
       queuedBatches[i] = queuedBatches[j] => i = j
  /\ \A i \in DOMAIN queuedBatches :
       /\ queuedBatches[i] \notin reading
       /\ result[queuedBatches[i]] = "none" /\ HandedOver(queuedBatches[i])
  /\ \A b \in reading : result[b] = "none"
  /\ \A b \in B : b \in reading \/ result[b] # "none" => HandedOver(b)

\* A reader has asked for the futures before the one it is at.
AskedInOrder ==
  \A b \in B :
    /\ load[b[1]].at = "get" /\ b[2] < load[b[1]].next => result[b] = "true"
    /\ load[b[1]].at = "read" => result[b] = "true"

\* What the reads that did not fail have left in the buffer.
GoodData ==
  \A l \in L \ faulty :
    /\ load[l].at # "threw"
    /\ ~Loads[l].rest \/ load[l].at \in {"get", "read"} => data[l][0] = "right"
    /\ \A b \in B : b[1] = l /\ result[b] # "none" =>
         result[b] = "true" /\ data[l][b[2]] = "right"

\* The stream goes past a load only when its future is ready.
PassedEnded == \A l \in L : Files!Passed(l) => Files!Ended(l)

\* The inductive invariant.
FilesInv ==
  /\ FileTypes /\ ReadsOnce /\ BatchesOnce /\ AskedInOrder /\ GoodData
  /\ PassedEnded

\* A batch is a pair of a load and a number.
LEMMA BatchFacts ==
  /\ \A b \in B : b[1] \in L /\ b[2] \in 1 .. Loads[b[1]].batches
                    /\ b = <<b[1], b[2]>>
  /\ \A l \in L : \A n \in 1 .. Loads[l].batches : <<l, n>> \in B
  BY DEF B, L, Files!Batches, Files!L

\* Nothing is asked for at first, and no part of a buffer is read.
LEMMA FilesInit == Files!Init => FilesInv
<1> SUFFICES ASSUME Files!Init PROVE FilesInv
  OBVIOUS
<1> USE DEF Files!Init, Files!L, L
<1>1. FileTypes
  <2>1. load \in [L -> [at : {"lazy", "queued", "split", "rest", "get", "read", "threw"},
                     next : Nat \ {0}]]
    OBVIOUS
  <2>2. waits \in Seq(L) /\ reads \in Seq(L) /\ queuedBatches \in Seq(B)
    BY EmptySeq
  <2>3. result \in [B -> {"none", "true", "false"}]
    BY DEF B
  <2>4. data = [l \in L |-> data[l]]
    OBVIOUS
  <2>5. \A l \in L : data[l] \in [Files!PartsOf(l) -> Contents]
    BY DEF Contents
  <2> QED
    BY <2>1, <2>2, <2>3, <2>4, <2>5 DEF FileTypes
<1>2. ReadsOnce /\ PassedEnded
  BY DEF ReadsOnce, PassedEnded, Files!Passed
<1>3. BatchesOnce /\ AskedInOrder
  BY BatchFacts DEF BatchesOnce, AskedInOrder, B
<1>4. GoodData
  <2>1. \A l \in L : ~Loads[l].rest => data[l][0] = "right"
    BY LoadsAssumption DEF Files!PartsOf
  <2> QED
    BY <2>1, BatchFacts DEF GoodData, B
<1> QED
  BY <1>1, <1>2, <1>3, <1>4 DEF FilesInv

\* Sequences: what Append and Tail do to the elements.
LEMMA AppendFacts ==
  ASSUME NEW S, NEW w \in Seq(S), NEW e \in S
  PROVE  /\ Append(w, e) \in Seq(S) /\ Len(w) \in Nat
         /\ DOMAIN w = 1 .. Len(w) /\ DOMAIN Append(w, e) = 1 .. Len(w) + 1
         /\ \A i \in 1 .. Len(w) : Append(w, e)[i] = w[i] /\ w[i] \in S
         /\ Append(w, e)[Len(w) + 1] = e
  BY AppendProperties, LenProperties, ElementOfSeq

LEMMA TailFacts ==
  ASSUME NEW S, NEW w \in Seq(S), w # <<>>
  PROVE  /\ Tail(w) \in Seq(S) /\ Len(w) \in Nat \ {0}
         /\ DOMAIN w = 1 .. Len(w) /\ DOMAIN Tail(w) = 1 .. Len(w) - 1
         /\ \A i \in 1 .. Len(w) - 1 : Tail(w)[i] = w[i + 1]
         /\ Head(w) = w[1] /\ Head(w) \in S
  BY HeadTailProperties, LenProperties, EmptySeq


\* The elements of the queues are loads and batches.
LEMMA Queued ==
  ASSUME FileTypes
  PROVE  /\ \A i \in DOMAIN reads : reads[i] \in L
         /\ \A i \in DOMAIN queuedBatches :
              /\ queuedBatches[i] \in B
              /\ queuedBatches[i][1] \in L
         /\ \A b \in B : b[1] \in L
<1>1. \A i \in DOMAIN reads : reads[i] \in L
  BY LenProperties, ElementOfSeq DEF FileTypes
<1>2. \A i \in DOMAIN queuedBatches : queuedBatches[i] \in B
  BY LenProperties, ElementOfSeq DEF FileTypes
<1> QED
  BY <1>1, <1>2, BatchFacts

\* Load::eval_cpu gives the read to the pool and a wait to the stream.
LEMMA EvalLoadInv ==
  ASSUME FilesInv, NEW l \in L, Files!EvalLoad(l) PROVE FilesInv'
<1> USE DEF FilesInv
<1>1. load[l].at = "lazy" /\ load[l].next = 1
  BY DEF Files!EvalLoad, ReadsOnce
<1>2. load' = [load EXCEPT ![l].at = "queued"]
  BY DEF Files!EvalLoad
<1>3. /\ reads' = Append(reads, l) /\ waits' = Append(waits, l)
      /\ UNCHANGED <<queuedBatches, reading, result, data, faulty>>
  BY DEF Files!EvalLoad
<1>4. load' \in [L -> [at : {"lazy", "queued", "split", "rest", "get", "read",
                              "threw"}, next : Nat \ {0}]]
      /\ load'[l].at = "queued" /\ load'[l].next = 1
      /\ \A k \in L : k # l => load'[k] = load[k]
  BY <1>1, <1>2 DEF FileTypes
<1>5. FileTypes'
  BY <1>3, <1>4, AppendProperties DEF FileTypes
<1>6. ReadsOnce'
  <2>1. /\ DOMAIN reads' = 1 .. Len(reads) + 1 /\ DOMAIN reads = 1 .. Len(reads)
        /\ Len(reads) \in Nat
        /\ \A i \in 1 .. Len(reads) : reads'[i] = reads[i]
        /\ reads'[Len(reads) + 1] = l
    BY <1>3, AppendFacts DEF FileTypes
  <2>2. \A i \in DOMAIN reads : reads[i] \in L /\ reads[i] # l
    BY <1>1, Queued DEF ReadsOnce
  <2>3. \A i \in DOMAIN reads' : load'[reads'[i]].at = "queued"
    BY <1>4, <2>1, <2>2 DEF ReadsOnce
  <2>4. \A i, j \in DOMAIN reads' : reads'[i] = reads'[j] => i = j
    BY <2>1, <2>2 DEF ReadsOnce
  <2>5. \A k \in L : load'[k].at \in {"lazy", "queued"} => load'[k].next = 1
    BY <1>4 DEF ReadsOnce
  <2> QED
    BY <2>3, <2>4, <2>5 DEF ReadsOnce
<1>7. \A b \in B : HandedOver(b) => b[1] # l /\ HandedOver(b)'
  BY <1>1, <1>4, Queued DEF HandedOver
<1>8. BatchesOnce'
  BY <1>3, <1>7, Queued DEF BatchesOnce
<1>9. AskedInOrder' /\ GoodData'
  <2>1. AskedInOrder'
    BY <1>3, <1>4, Queued DEF AskedInOrder
  <2>2. GoodData'
    BY <1>1, <1>3, <1>4, Queued DEF GoodData
  <2> QED
    BY <2>1, <2>2
<1>10. PassedEnded'
  <2>1. \A k \in L : Files!Passed(k)' => k # l /\ Files!Passed(k)
    <3>1. /\ DOMAIN waits' = 1 .. Len(waits) + 1 /\ DOMAIN waits = 1 .. Len(waits)
          /\ Len(waits) \in Nat
          /\ \A i \in 1 .. Len(waits) : waits'[i] = waits[i]
          /\ waits'[Len(waits) + 1] = l
      BY <1>3, AppendFacts DEF FileTypes
    <3> QED
      BY <1>4, <3>1 DEF Files!Passed
  <2> QED
    BY <1>4, <2>1 DEF PassedEnded, Files!Ended
<1> QED
  BY <1>5, <1>6, <1>8, <1>9, <1>10

\* The stream waits for the future of the read at its head.
LEMMA StreamPassesInv ==
  ASSUME FilesInv, Files!StreamPasses PROVE FilesInv'
<1> USE DEF FilesInv, Files!StreamPasses
<1>1. FileTypes'
  BY HeadTailProperties DEF FileTypes
<1>2. ReadsOnce' /\ BatchesOnce' /\ AskedInOrder' /\ GoodData'
  BY DEF ReadsOnce, BatchesOnce, HandedOver, AskedInOrder, GoodData
<1>3. PassedEnded'
  <2>1. /\ DOMAIN waits = 1 .. Len(waits) /\ DOMAIN waits' = 1 .. Len(waits) - 1
        /\ Len(waits) \in Nat \ {0}
        /\ \A i \in 1 .. Len(waits) - 1 : waits'[i] = waits[i + 1]
        /\ Head(waits) = waits[1]
    BY TailFacts DEF FileTypes
  <2>2. \A k \in L : Files!Passed(k)' => Files!Passed(k) \/ k = Head(waits)
    <3> SUFFICES ASSUME NEW k \in L, Files!Passed(k)', k # waits[1],
                        NEW i \in DOMAIN waits, waits[i] = k
                 PROVE  FALSE
      BY <2>1 DEF Files!Passed
    <3>1. i # 1 /\ i - 1 \in DOMAIN waits' /\ waits'[i - 1] = k
      BY <2>1
    <3> QED
      BY <3>1 DEF Files!Passed
  <2> QED
    BY <2>2 DEF PassedEnded, Files!Ended
<1> QED
  BY <1>1, <1>2, <1>3

\* A thread of the pool starts a read.
LEMMA TakeReadInv ==
  ASSUME FilesInv, Files!TakeRead PROVE FilesInv'
<1> USE DEF FilesInv
<1> DEFINE l == Head(reads)
<1>1. /\ reads # <<>> /\ reads' = Tail(reads)
      /\ UNCHANGED <<waits, queuedBatches, reading, result, data, faulty>>
  BY DEF Files!TakeRead
<1>2. l \in L /\ l = reads[1] /\ load[l].at = "queued" /\ load[l].next = 1
  BY <1>1, TailFacts DEF ReadsOnce, FileTypes
<1>3. load' = [load EXCEPT ![l].at = "split"]
  BY <1>2 DEF Files!TakeRead
<1> HIDE DEF l
<1>4. load' \in [L -> [at : {"lazy", "queued", "split", "rest", "get", "read",
                              "threw"}, next : Nat \ {0}]]
      /\ load'[l].at = "split" /\ load'[l].next = 1
      /\ \A k \in L : k # l => load'[k] = load[k]
  BY <1>2, <1>3 DEF FileTypes
<1>5. FileTypes'
  BY <1>1, <1>4, HeadTailProperties DEF FileTypes
<1>6. ReadsOnce'
  <2>1. /\ DOMAIN reads = 1 .. Len(reads) /\ DOMAIN reads' = 1 .. Len(reads) - 1
        /\ Len(reads) \in Nat \ {0}
        /\ \A i \in 1 .. Len(reads) - 1 : reads'[i] = reads[i + 1]
    BY <1>1, TailFacts DEF FileTypes
  <2>2. \A i \in DOMAIN reads' : i + 1 \in DOMAIN reads /\ reads[i + 1] \in L
                                  /\ reads[i + 1] # l
    BY <1>2, <2>1, Queued DEF ReadsOnce
  <2>3. \A i \in DOMAIN reads' : load'[reads'[i]].at = "queued"
    BY <1>4, <2>1, <2>2 DEF ReadsOnce
  <2>4. \A i, j \in DOMAIN reads' : reads'[i] = reads'[j] => i = j
    BY <2>1, <2>2 DEF ReadsOnce
  <2>5. \A k \in L : load'[k].at \in {"lazy", "queued"} => load'[k].next = 1
    BY <1>4 DEF ReadsOnce
  <2> QED
    BY <2>3, <2>4, <2>5 DEF ReadsOnce
<1>7. \A b \in B : HandedOver(b) => b[1] # l /\ HandedOver(b)'
  BY <1>2, <1>4, Queued DEF HandedOver
<1>8. BatchesOnce'
  BY <1>1, <1>7, Queued DEF BatchesOnce
<1>9. AskedInOrder' /\ GoodData'
  BY <1>1, <1>2, <1>4, Queued DEF AskedInOrder, GoodData
<1>10. PassedEnded'
  <2>1. ~Files!Ended(l)
    BY <1>2 DEF Files!Ended
  <2>2. \A k \in L : Files!Passed(k)' => k # l /\ Files!Passed(k)
    BY <1>1, <1>2, <1>4, <2>1 DEF PassedEnded, Files!Passed
  <2> QED
    BY <1>4, <2>2 DEF PassedEnded, Files!Ended
<1> QED
  BY <1>5, <1>6, <1>8, <1>9, <1>10

\* ParallelFileReader::read hands its next batch to the other pool.
LEMMA EnqueueBatchInv ==
  ASSUME FilesInv, NEW l \in L, Files!EnqueueBatch(l) PROVE FilesInv'
<1> USE DEF FilesInv
<1> DEFINE n == load[l].next
           b == <<l, n>>
<1>1. /\ load[l].at = "split" /\ n \in Nat \ {0}
      /\ UNCHANGED <<waits, reads, reading, result, data, faulty>>
  BY DEF Files!EnqueueBatch, FileTypes
<1>2. CASE n <= Loads[l].batches
  <2>1. queuedBatches' = Append(queuedBatches, b)
        /\ load' = [load EXCEPT ![l] = [at |-> "split", next |-> n + 1]]
    BY <1>2 DEF Files!EnqueueBatch, Files!Goto
  <2>2. n + 1 \in Nat \ {0}
    BY <1>1
  <2>3. b \in B
    BY <1>1, <1>2, BatchFacts, LoadsAssumption DEF L
  <2>4. ~HandedOver(b)
    BY <1>1 DEF HandedOver
  <2>5. load' \in [L -> [at : {"lazy", "queued", "split", "rest", "get", "read",
                                "threw"}, next : Nat \ {0}]]
        /\ load'[l].at = "split" /\ load'[l].next = n + 1
        /\ \A k \in L : k # l => load'[k] = load[k]
    BY <2>1, <2>2 DEF FileTypes
  <2>6. FileTypes'
    BY <1>1, <2>1, <2>3, <2>5, AppendProperties DEF FileTypes
  <2>7. ReadsOnce' /\ PassedEnded'
    BY <1>1, <2>1, <2>5 DEF ReadsOnce, PassedEnded, Files!Passed, Files!Ended, FileTypes
  <2>8. \A c \in B : HandedOver(c)' <=> HandedOver(c) \/ c = b
    <3> TAKE c \in B
    <3>1. CASE c[1] # l
      BY <2>5, <3>1, BatchFacts DEF HandedOver
    <3>2. CASE c[1] = l
      <4>1. c = b <=> c[2] = n
        BY <3>2, BatchFacts
      <4>2. c[2] \in Nat
        BY BatchFacts, LoadsAssumption DEF L
      <4> QED
        BY <1>1, <2>5, <3>2, <4>1, <4>2 DEF HandedOver
    <3> QED
      BY <3>1, <3>2
  <2>9. BatchesOnce'
    <3>1. b \notin reading /\ result[b] = "none"
          /\ \A i \in DOMAIN queuedBatches : queuedBatches[i] # b
      BY <2>3, <2>4 DEF BatchesOnce
    <3>2. \A i \in DOMAIN queuedBatches : queuedBatches[i] \in B
      BY LenProperties, ElementOfSeq DEF FileTypes
    <3>3. /\ DOMAIN queuedBatches' = DOMAIN queuedBatches \cup {Len(queuedBatches) + 1}
          /\ \A i \in DOMAIN queuedBatches : queuedBatches'[i] = queuedBatches[i]
          /\ queuedBatches'[Len(queuedBatches) + 1] = b
      <4> QED
        BY <2>1, <2>3, AppendFacts DEF FileTypes
    <3> QED
      BY <1>1, <2>3, <2>8, <3>1, <3>2, <3>3 DEF BatchesOnce
  <2>10. AskedInOrder' /\ GoodData'
    BY <1>1, <2>1, <2>5, BatchFacts DEF AskedInOrder, GoodData
  <2> QED
    BY <2>6, <2>7, <2>9, <2>10
<1>3. CASE ~(n <= Loads[l].batches)
  <2> DEFINE at == IF Loads[l].rest THEN "rest" ELSE "get"
  <2>1. queuedBatches' = queuedBatches
        /\ load' = [load EXCEPT ![l] = [at |-> at, next |-> 1]]
    BY <1>3 DEF Files!EnqueueBatch, Files!Goto
  <2>2. at \in {"rest", "get"} /\ (at = "get" => ~Loads[l].rest)
    BY LoadsAssumption DEF L
  <2> HIDE DEF at
  <2>3. load' \in [L -> [at : {"lazy", "queued", "split", "rest", "get", "read",
                                "threw"}, next : Nat \ {0}]]
        /\ load'[l].at = at /\ load'[l].next = 1
        /\ \A k \in L : k # l => load'[k] = load[k]
    BY <2>1, <2>2 DEF FileTypes
  <2>4. FileTypes'
    BY <1>1, <2>1, <2>3 DEF FileTypes
  <2>5. ReadsOnce' /\ PassedEnded'
    BY <1>1, <2>1, <2>2, <2>3 DEF ReadsOnce, PassedEnded, Files!Passed, Files!Ended,
                                  FileTypes
  <2>6. \A c \in B : HandedOver(c) => HandedOver(c)'
    BY <1>1, <2>2, <2>3, BatchFacts DEF HandedOver
  <2>7. BatchesOnce'
    BY <1>1, <2>1, <2>6, LenProperties, ElementOfSeq DEF BatchesOnce, FileTypes
  <2>8. AskedInOrder'
    BY <1>1, <2>1, <2>2, <2>3, BatchFacts DEF AskedInOrder
  <2>9. GoodData'
    BY <1>1, <2>1, <2>2, <2>3, BatchFacts DEF GoodData
  <2> QED
    BY <2>4, <2>5, <2>7, <2>8, <2>9
<1> QED
  BY <1>2, <1>3

\* Without a failure or a short read the outcome is right.
LEMMA OutcomeFacts ==
  ASSUME FileTypes, NEW l \in L, NEW o \in Files!Outcomes(l), Files!Blame(l, o)
  PROVE  /\ o \in {"right", "failed", "wrong"}
         /\ faulty' \subseteq L /\ faulty \subseteq faulty'
         /\ l \notin faulty' => o = "right"
         /\ \A old \in Contents : Files!Content(old, o) \in Contents
         /\ \A old : Files!Content(old, "right") = "right"
  BY DEF Files!Outcomes, Files!Blame, FileTypes, Files!Content, Contents

\* One part of the buffer of l is read.
LEMMA DataMoves ==
  ASSUME FileTypes, NEW l \in L, NEW p \in Files!PartsOf(l), NEW c \in Contents,
         data' = [data EXCEPT ![l][p] = c]
  PROVE  /\ data' = [k \in L |-> data'[k]]
         /\ \A k \in L : data'[k] \in [Files!PartsOf(k) -> Contents]
         /\ data'[l][p] = c
         /\ \A k \in L : \A x \in Files!PartsOf(k) :
              k # l \/ x # p => data'[k][x] = data[k][x]
<1>1. DOMAIN data = L
  BY DEF FileTypes
<1>2. data' = [k \in L |-> IF k = l THEN [data[l] EXCEPT ![p] = c] ELSE data[k]]
  BY <1>1
<1>3. \A k \in L : data'[k] = IF k = l THEN [data[l] EXCEPT ![p] = c] ELSE data[k]
  BY <1>2
<1>4. data[l] \in [Files!PartsOf(l) -> Contents]
  BY DEF FileTypes
<1>5. /\ [data[l] EXCEPT ![p] = c] \in [Files!PartsOf(l) -> Contents]
      /\ [data[l] EXCEPT ![p] = c][p] = c
      /\ \A x \in Files!PartsOf(l) : x # p => [data[l] EXCEPT ![p] = c][x] = data[l][x]
  BY <1>4
<1>6. data' = [k \in L |-> data'[k]]
  BY <1>2
<1>7. \A k \in L : data'[k] \in [Files!PartsOf(k) -> Contents]
  BY <1>3, <1>5 DEF FileTypes
<1> QED
  BY <1>3, <1>5, <1>6, <1>7

\* ParallelFileReader::read reads what is left over by itself.
LEMMA ReadRestInv ==
  ASSUME FilesInv, NEW l \in L, Files!ReadRest(l) PROVE FilesInv'
<1> USE DEF FilesInv
<1>1. PICK o \in Files!Outcomes(l) :
        /\ Files!Blame(l, o)
        /\ data' = [data EXCEPT ![l][0] = Files!Content(data[l][0], o)]
        /\ load' = [load EXCEPT ![l] = [at |-> IF o = "failed" THEN "threw" ELSE "get",
                                        next |-> 1]]
  BY DEF Files!ReadRest, Files!Goto
<1>2. /\ load[l].at = "rest"
      /\ UNCHANGED <<waits, reads, queuedBatches, reading, result>>
  BY DEF Files!ReadRest
<1>3. /\ faulty' \subseteq L /\ faulty \subseteq faulty'
      /\ l \notin faulty' => o = "right"
  BY <1>1, OutcomeFacts
<1>4. 0 \in Files!PartsOf(l) /\ data[l][0] \in Contents
  BY LoadsAssumption DEF FileTypes, Files!PartsOf, L
<1>5. /\ data' = [k \in L |-> data'[k]]
      /\ \A k \in L : data'[k] \in [Files!PartsOf(k) -> Contents]
      /\ data'[l][0] = Files!Content(data[l][0], o)
      /\ \A k \in L : \A x \in Files!PartsOf(k) :
           k # l \/ x # 0 => data'[k][x] = data[k][x]
  BY <1>1, <1>4, OutcomeFacts, DataMoves
<1>6. PICK at \in {"threw", "get"} :
        /\ load' = [load EXCEPT ![l] = [at |-> at, next |-> 1]]
        /\ l \notin faulty' => at = "get"
  BY <1>1, <1>3
<1>7. /\ load' \in [L -> [at : {"lazy", "queued", "split", "rest", "get", "read",
                                 "threw"}, next : Nat \ {0}]]
      /\ load'[l].at = at /\ load'[l].next = 1
      /\ \A k \in L : k # l => load'[k] = load[k]
  BY <1>6 DEF FileTypes
<1>8. FileTypes'
  BY <1>2, <1>3, <1>5, <1>7 DEF FileTypes
<1>9. ReadsOnce'
  BY <1>2, <1>6, <1>7, Queued DEF ReadsOnce
<1>10. \A b \in B : HandedOver(b) => HandedOver(b)'
  BY <1>2, <1>6, <1>7, Queued DEF HandedOver
<1>11. BatchesOnce'
  BY <1>2, <1>10, Queued DEF BatchesOnce
<1>12. AskedInOrder'
  BY <1>2, <1>6, <1>7, BatchFacts DEF AskedInOrder
<1>13. GoodData'
  <2> SUFFICES ASSUME NEW k \in L \ faulty'
               PROVE  /\ load'[k].at # "threw"
                      /\ ~Loads[k].rest \/ load'[k].at \in {"get", "read"} =>
                           data'[k][0] = "right"
                      /\ \A b \in B : b[1] = k /\ result[b] # "none" =>
                           result[b] = "true" /\ data'[k][b[2]] = "right"
    BY <1>2 DEF GoodData
  <2>1. 0 \in Files!PartsOf(k)
    BY LoadsAssumption DEF Files!PartsOf, L
  <2>2. \A b \in B : b[1] = k => b[2] \in Files!PartsOf(k) /\ b[2] # 0
    BY BatchFacts, LoadsAssumption DEF Files!PartsOf, L
  <2>3. \A b \in B : b[1] = k => data'[k][b[2]] = data[k][b[2]]
    BY <1>5, <2>2
  <2>4. CASE k # l
    BY <1>3, <1>5, <1>7, <2>1, <2>3, <2>4 DEF GoodData
  <2>5. CASE k = l
    <3>1. data'[k][0] = "right" /\ load'[k].at # "threw"
      BY <1>1, <1>3, <1>5, <1>6, <1>7, <2>5, OutcomeFacts
    <3> QED
      BY <1>3, <2>3, <3>1 DEF GoodData
  <2> QED
    BY <2>4, <2>5
<1>14. PassedEnded'
  BY <1>2, <1>6, <1>7 DEF PassedEnded, Files!Passed, Files!Ended
<1> QED
  BY <1>8, <1>9, <1>11, <1>12, <1>13, <1>14

\* ParallelFileReader::read waits for its next future, or rethrows.
LEMMA GetFutureInv ==
  ASSUME FilesInv, NEW l \in L, Files!GetFuture(l) PROVE FilesInv'
<1> USE DEF FilesInv
<1> DEFINE n == load[l].next
           b == <<l, n>>
<1>1. /\ load[l].at = "get" /\ n \in Nat \ {0}
      /\ UNCHANGED <<waits, reads, queuedBatches, reading, result, data, faulty>>
  BY DEF Files!GetFuture, FileTypes
<1>2. Loads[l].batches \in Nat
  BY LoadsAssumption DEF L
<1>3. PICK at \in {"read", "get", "threw"}, k \in Nat \ {0} :
        /\ load' = [load EXCEPT ![l] = [at |-> at, next |-> k]]
        /\ at = "read" => n > Loads[l].batches
        /\ at = "get" => k = n + 1 /\ b \in B /\ result[b] = "true"
        /\ at = "threw" => b \in B /\ result[b] = "false"
  <2>1. CASE n > Loads[l].batches
    BY <2>1 DEF Files!GetFuture, Files!Goto
  <2>2. CASE ~(n > Loads[l].batches)
    <3>1. b \in B
      BY <1>1, <1>2, <2>2, BatchFacts
    <3>2. result[b] \in {"true", "false"}
      BY <2>2, <3>1 DEF Files!GetFuture, FileTypes
    <3>3. CASE result[b] = "true"
      BY <1>1, <2>2, <3>1, <3>3 DEF Files!GetFuture, Files!Goto
    <3>4. CASE result[b] = "false"
      BY <2>2, <3>1, <3>4 DEF Files!GetFuture, Files!Goto
    <3> QED
      BY <3>2, <3>3, <3>4
  <2> QED
    BY <2>1, <2>2
<1>4. /\ load' \in [L -> [at : {"lazy", "queued", "split", "rest", "get", "read",
                                 "threw"}, next : Nat \ {0}]]
      /\ load'[l].at = at /\ load'[l].next = k
      /\ \A x \in L : x # l => load'[x] = load[x]
  BY <1>3 DEF FileTypes
<1>5. FileTypes'
  BY <1>1, <1>4 DEF FileTypes
<1>6. ReadsOnce'
  BY <1>1, <1>3, <1>4, Queued DEF ReadsOnce
<1>7. \A c \in B : HandedOver(c) => HandedOver(c)'
  BY <1>1, <1>3, <1>4, Queued DEF HandedOver
<1>8. BatchesOnce'
  BY <1>1, <1>7, Queued DEF BatchesOnce
<1>9. AskedInOrder'
  <2>1. ASSUME NEW c \in B, c[1] = l, at = "read" \/ (at = "get" /\ c[2] < k)
        PROVE  result[c] = "true"
    <3>1. c[2] \in 1 .. Loads[l].batches /\ c = <<l, c[2]>>
      BY <2>1, BatchFacts
    <3>2. CASE c[2] < n
      BY <1>1, <2>1, <3>2 DEF AskedInOrder
    <3>3. CASE ~(c[2] < n)
      <4>1. at = "get" /\ c[2] = n
        BY <1>1, <1>2, <1>3, <2>1, <3>1, <3>3
      <4> QED
        BY <1>3, <3>1, <4>1
    <3> QED
      BY <3>2, <3>3
  <2>2. ASSUME NEW c \in B,
               \/ load'[c[1]].at = "get" /\ c[2] < load'[c[1]].next
               \/ load'[c[1]].at = "read"
        PROVE  result'[c] = "true"
    <3>1. CASE c[1] = l
      <4>1. load'[c[1]].at = at /\ load'[c[1]].next = k
        BY <1>4, <3>1
      <4>2. at = "read" \/ (at = "get" /\ c[2] < k)
        BY <2>2, <4>1
      <4>3. result[c] = "true"
        BY <2>1, <3>1, <4>2
      <4> QED
        BY <1>1, <4>3
    <3>2. CASE c[1] # l
      <4>1. load'[c[1]] = load[c[1]]
        BY <1>4, <3>2, BatchFacts
      <4> QED
        BY <1>1, <2>2, <4>1 DEF AskedInOrder
    <3> QED
      BY <3>1, <3>2
  <2> QED
    BY <2>2 DEF AskedInOrder
<1>10. GoodData'
  <2>1. l \notin faulty => at # "threw"
    BY <1>3 DEF GoodData
  <2> QED
    BY <1>1, <1>3, <1>4, <2>1 DEF GoodData
<1>11. PassedEnded'
  BY <1>1, <1>4 DEF PassedEnded, Files!Passed, Files!Ended
<1> QED
  BY <1>5, <1>6, <1>8, <1>9, <1>10, <1>11

\* A thread of the reader's pool takes a batch.
LEMMA TakeBatchInv ==
  ASSUME FilesInv, Files!TakeBatch PROVE FilesInv'
<1> USE DEF FilesInv
<1>1. /\ queuedBatches # <<>> /\ queuedBatches' = Tail(queuedBatches)
      /\ reading' = reading \cup {Head(queuedBatches)}
      /\ UNCHANGED <<waits, reads, load, result, data, faulty>>
  BY DEF Files!TakeBatch
<1>2. /\ DOMAIN queuedBatches = 1 .. Len(queuedBatches)
      /\ DOMAIN queuedBatches' = 1 .. Len(queuedBatches) - 1
      /\ Len(queuedBatches) \in Nat \ {0}
      /\ \A i \in 1 .. Len(queuedBatches) - 1 :
           queuedBatches'[i] = queuedBatches[i + 1]
      /\ Head(queuedBatches) = queuedBatches[1]
      /\ queuedBatches' \in Seq(B) /\ queuedBatches[1] \in B
  BY <1>1, TailFacts DEF FileTypes
<1>3. FileTypes'
  BY <1>1, <1>2 DEF FileTypes
<1>4. ReadsOnce' /\ AskedInOrder' /\ GoodData' /\ PassedEnded'
  BY <1>1 DEF ReadsOnce, AskedInOrder, GoodData, PassedEnded, Files!Passed, Files!Ended
<1>5. \A c \in B : HandedOver(c)' <=> HandedOver(c)
  BY <1>1 DEF HandedOver
<1>6. \A i \in DOMAIN queuedBatches' :
        /\ i + 1 \in DOMAIN queuedBatches /\ queuedBatches'[i] = queuedBatches[i + 1]
        /\ queuedBatches[i + 1] \in B /\ queuedBatches[i + 1] # queuedBatches[1]
  BY <1>2, Queued DEF BatchesOnce
<1>7. BatchesOnce'
  <2>1. \A i, j \in DOMAIN queuedBatches' :
          queuedBatches'[i] = queuedBatches'[j] => i = j
    BY <1>2, <1>6 DEF BatchesOnce
  <2>2. \A i \in DOMAIN queuedBatches' :
          /\ queuedBatches'[i] \notin reading'
          /\ result'[queuedBatches'[i]] = "none" /\ HandedOver(queuedBatches[i])'
    <3> TAKE i \in DOMAIN queuedBatches'
    <3>1. PICK c \in B : c = queuedBatches[i + 1]
      BY <1>6
    <3>2. c \notin reading /\ result[c] = "none" /\ HandedOver(c)
      BY <1>6, <3>1 DEF BatchesOnce
    <3>3. queuedBatches'[i] = c /\ c # queuedBatches[1]
      BY <1>6, <3>1
    <3> QED
      BY <1>1, <1>2, <3>2, <3>3 DEF HandedOver
  <2>3. 1 \in DOMAIN queuedBatches
    BY <1>2
  <2>4. \A c \in reading' : result'[c] = "none"
    BY <1>1, <1>2, <2>3 DEF BatchesOnce
  <2>5. \A c \in B : c \in reading' \/ result'[c] # "none" => HandedOver(c)'
    BY <1>1, <1>2, <1>5, <2>3 DEF BatchesOnce
  <2> QED
    BY <2>1, <2>2, <2>4, <2>5 DEF BatchesOnce
<1> QED
  BY <1>3, <1>4, <1>7

\* The same thread has read it, in full, in part or not at all.
LEMMA ReadBatchInv ==
  ASSUME FilesInv, NEW b \in B, Files!ReadBatch(b) PROVE FilesInv'
<1> USE DEF FilesInv
<1> DEFINE l == b[1]
<1>1. PICK o \in Files!Outcomes(l) :
        /\ Files!Blame(l, o)
        /\ data' = [data EXCEPT ![l][b[2]] = Files!Content(data[l][b[2]], o)]
        /\ result' = [result EXCEPT ![b] = IF o = "failed" THEN "false" ELSE "true"]
  BY DEF Files!ReadBatch
<1>2. /\ b \in reading /\ reading' = reading \ {b}
      /\ UNCHANGED <<waits, reads, load, queuedBatches>>
  BY DEF Files!ReadBatch
<1>3. l \in L /\ b[2] \in 1 .. Loads[l].batches /\ b[2] \in Files!PartsOf(l) /\ b[2] # 0
  BY BatchFacts, LoadsAssumption DEF Files!PartsOf, L
<1>4. /\ faulty' \subseteq L /\ faulty \subseteq faulty'
      /\ l \notin faulty' => o = "right"
  BY <1>1, <1>3, OutcomeFacts
<1>5. data[l][b[2]] \in Contents
  BY <1>3 DEF FileTypes
<1>6. /\ data' = [k \in L |-> data'[k]]
      /\ \A k \in L : data'[k] \in [Files!PartsOf(k) -> Contents]
      /\ data'[l][b[2]] = Files!Content(data[l][b[2]], o)
      /\ \A k \in L : \A x \in Files!PartsOf(k) :
           k # l \/ x # b[2] => data'[k][x] = data[k][x]
  <2>1. Files!Content(data[l][b[2]], o) \in Contents
    BY <1>1, <1>3, <1>5, OutcomeFacts
  <2> QED
    BY <1>1, <1>3, <2>1, DataMoves
<1>7. /\ result' \in [B -> {"none", "true", "false"}]
      /\ result'[b] \in {"true", "false"} /\ (o = "right" => result'[b] = "true")
      /\ \A c \in B : c # b => result'[c] = result[c]
  BY <1>1 DEF FileTypes
<1>8. FileTypes'
  BY <1>2, <1>4, <1>6, <1>7 DEF FileTypes
<1>9. ReadsOnce' /\ PassedEnded'
  BY <1>2 DEF ReadsOnce, PassedEnded, Files!Passed, Files!Ended
<1>10. result[b] = "none" /\ HandedOver(b)
  BY <1>2 DEF BatchesOnce
<1>11. BatchesOnce'
  <2>1. \A c \in B : HandedOver(c)' <=> HandedOver(c)
    BY <1>2 DEF HandedOver
  <2>2. \A i \in DOMAIN queuedBatches : queuedBatches[i] \in B /\ queuedBatches[i] # b
    BY <1>2, Queued DEF BatchesOnce
  <2> QED
    BY <1>2, <1>7, <1>10, <2>1, <2>2 DEF BatchesOnce, FileTypes, HandedOver
<1>12. AskedInOrder'
  BY <1>2, <1>7, <1>10, BatchFacts DEF AskedInOrder
<1>13. GoodData'
  <2> SUFFICES ASSUME NEW k \in L \ faulty'
               PROVE  /\ load[k].at # "threw"
                      /\ ~Loads[k].rest \/ load[k].at \in {"get", "read"} =>
                           data'[k][0] = "right"
                      /\ \A c \in B : c[1] = k /\ result'[c] # "none" =>
                           result'[c] = "true" /\ data'[k][c[2]] = "right"
    BY <1>2 DEF GoodData
  <2>1. 0 \in Files!PartsOf(k) /\ data'[k][0] = data[k][0]
    BY <1>3, <1>6, LoadsAssumption DEF Files!PartsOf, L
  <2>2. ASSUME NEW c \in B, c[1] = k, result'[c] # "none"
        PROVE  result'[c] = "true" /\ data'[k][c[2]] = "right"
    <3>1. c[2] \in Files!PartsOf(k)
      BY <2>2, BatchFacts, LoadsAssumption DEF Files!PartsOf, L
    <3>2. CASE c = b
      BY <1>4, <1>6, <1>7, <1>1, <1>3, <2>2, <3>2, OutcomeFacts
    <3>3. CASE c # b
      <4>1. k # l \/ c[2] # b[2]
        BY <2>2, <3>3, BatchFacts
      <4> QED
        BY <1>4, <1>6, <1>7, <2>2, <3>1, <3>3, <4>1 DEF GoodData
    <3> QED
      BY <3>2, <3>3
  <2> QED
    BY <1>4, <2>1, <2>2 DEF GoodData
<1> QED
  BY <1>8, <1>9, <1>11, <1>12, <1>13

\* Every step of the stream and of the threads of both pools, and every step
\* of the parts of the system that share nothing with them.
LEMMA FilesStep == FilesInv /\ [AllNext]_allVars => FilesInv'
<1> SUFFICES ASSUME FilesInv, [AllNext]_allVars PROVE FilesInv'
  OBVIOUS
<1>1. CASE UNCHANGED filesVars
  BY <1>1 DEF filesVars, FilesInv, FileTypes, ReadsOnce, BatchesOnce, HandedOver,
              AskedInOrder, GoodData, PassedEnded, Files!Passed, Files!Ended
<1>2. CASE Files!Next
  <2>1. ASSUME NEW l \in L, Files!EvalLoad(l) PROVE FilesInv'
    BY <2>1, EvalLoadInv
  <2>2. ASSUME NEW l \in L, Files!EnqueueBatch(l) PROVE FilesInv'
    BY <2>2, EnqueueBatchInv
  <2>3. ASSUME NEW l \in L, Files!ReadRest(l) PROVE FilesInv'
    BY <2>3, ReadRestInv
  <2>4. ASSUME NEW l \in L, Files!GetFuture(l) PROVE FilesInv'
    BY <2>4, GetFutureInv
  <2>5. ASSUME NEW b \in B, Files!ReadBatch(b) PROVE FilesInv'
    BY <2>5, ReadBatchInv
  <2> QED
    BY <1>2, <2>1, <2>2, <2>3, <2>4, <2>5, StreamPassesInv, TakeReadInv, TakeBatchInv
    DEF Files!Next, Files!Threads, Files!Reader, Files!L, L, B
<1> QED
  BY <1>1, <1>2 DEF AllNext, OnlyStream, OnlyPool, OnlyFiles, OnlyCuda, Stopped, allVars

\* Past a load whose reads succeed in full, the buffer has the file's bytes and
\* no thread is about to write to it, for any loads and any size of the pools.
THEOREM LoadsHonestHolds == AllSpec => []LoadsHonest
<1>1. AllInit => FilesInv
  BY FilesInit DEF AllInit
<1>2. FilesInv => LoadsHonest
  <2> SUFFICES ASSUME FilesInv, NEW l \in L \ faulty, Files!Passed(l)
               PROVE  /\ \A p \in Files!PartsOf(l) : data[l][p] = "right"
                      /\ l \notin {b[1] : b \in reading}
    BY DEF LoadsHonest, Files!Honest, Files!L, L
  <2>1. load[l].at = "read"
    BY DEF FilesInv, PassedEnded, Files!Ended, GoodData
  <2>2. data[l][0] = "right"
    BY <2>1 DEF FilesInv, GoodData
  <2>3. \A b \in B : b[1] = l => result[b] = "true" /\ data[l][b[2]] = "right"
    BY <2>1 DEF FilesInv, AskedInOrder, GoodData
  <2>4. \A n \in 1 .. Loads[l].batches : data[l][n] = "right"
    BY <2>3, BatchFacts
  <2>5. \A b \in reading : b[1] # l
    BY <2>3 DEF FilesInv, FileTypes, BatchesOnce
  <2> QED
    BY <2>2, <2>4, <2>5, LoadsAssumption DEF Files!PartsOf, L
<1> QED
  BY <1>1, <1>2, FilesStep, PTL DEF AllSpec
=============================================================================
