------------------------------ MODULE FileLoads ------------------------------
(***************************************************************************)
(* Loading arrays from files: Load::eval_cpu (backend/common/load.cpp)     *)
(* hands a read to io::thread_pool() and makes its stream wait for the     *)
(* future; ParallelFileReader::read (io/load.cpp) hands all but the last   *)
(* part of the read to a pool of its own and waits for those futures.      *)
(*                                                                         *)
(* A pool is a queue and a number of threads: module ThreadPool is how it  *)
(* comes to that.  Of the bytes, a part of the buffer is unread, right or  *)
(* wrong.                                                                  *)
(***************************************************************************)
EXTENDS Integers, Sequences, FiniteSets

CONSTANTS
  Loads,        \* load -> [batches |-> n, rest |-> whether bytes remain]
  PoolSize,     \* threads of either pool
  MaxFaults     \* bound: reads that fail or fall short

VARIABLES
  waits,        \* the tasks of the stream that wait for a load's future
  reads,        \* the queue of io::thread_pool
  load,         \* [at, next]: where in read, the batch it is at
  batches,      \* the queue of the reader's pool
  reading,      \* batches its threads are at
  result,       \* the future of a batch: "none", "true" or "false"
  data,         \* what a part of the buffer holds, 0 for the rest
  faulty        \* history: loads with a read that failed or fell short

vars == <<waits, reads, load, batches, reading, result, data, faulty>>

L == DOMAIN Loads
PartsOf(l) == 0 .. Loads[l].batches
Batches == UNION {{l} \X (1 .. Loads[l].batches) : l \in L}

Init ==
  /\ waits = <<>> /\ reads = <<>> /\ batches = <<>> /\ reading = {}
  /\ load = [l \in L |-> [at |-> "lazy", next |-> 1]]
  /\ result = [b \in Batches |-> "none"]
  /\ data = [l \in L |-> [p \in PartsOf(l) |->
               IF p = 0 /\ ~Loads[l].rest THEN "right" ELSE "unread"]]
  /\ faulty = {}

\* Future ready: a value or an exception, which wait() does not rethrow.
Ended(l) == load[l].at \in {"read", "threw"}
Running == {l \in L : load[l].at \in {"split", "rest", "get"}}

\* What pread can make of a read: everything; nothing; or less than was asked
\* for, and then the loop reads the same offset again into what is missing.
Outcomes(l) ==
  IF Cardinality(faulty) < MaxFaults \/ l \in faulty
  THEN {"right", "failed", "wrong"} ELSE {"right"}
Blame(l, outcome) ==
  faulty' = IF outcome = "right" THEN faulty ELSE faulty \cup {l}
Content(old, outcome) == IF outcome = "failed" THEN old ELSE outcome

-----------------------------------------------------------------------------
(* Load::eval_cpu, and the stream *)

EvalLoad(l) ==
  /\ load[l].at = "lazy"
  /\ load' = [load EXCEPT ![l].at = "queued"]
  /\ reads' = Append(reads, l) /\ waits' = Append(waits, l)
  /\ UNCHANGED <<batches, reading, result, data, faulty>>

StreamPasses ==
  /\ waits # <<>> /\ Ended(Head(waits))
  /\ waits' = Tail(waits)
  /\ UNCHANGED <<reads, load, batches, reading, result, data, faulty>>

-----------------------------------------------------------------------------
(* ParallelFileReader::read, on a thread of io::thread_pool *)

TakeRead ==
  /\ reads # <<>> /\ Cardinality(Running) < PoolSize
  /\ load' = [load EXCEPT ![Head(reads)].at = "split"]
  /\ reads' = Tail(reads)
  /\ UNCHANGED <<waits, batches, reading, result, data, faulty>>

Goto(l, at, next) == load' = [load EXCEPT ![l] = [at |-> at, next |-> next]]

\* The loop over n.
EnqueueBatch(l) ==
  /\ load[l].at = "split"
  /\ IF load[l].next <= Loads[l].batches
     THEN /\ batches' = Append(batches, <<l, load[l].next>>)
          /\ Goto(l, "split", load[l].next + 1)
     ELSE Goto(l, IF Loads[l].rest THEN "rest" ELSE "get", 1) /\ UNCHANGED batches
  /\ UNCHANGED <<waits, reads, reading, result, data, faulty>>

\* A failure leaves the function while batches are queued or being read.
ReadRest(l) ==
  /\ load[l].at = "rest"
  /\ \E o \in Outcomes(l) :
       /\ Blame(l, o) /\ data' = [data EXCEPT ![l][0] = Content(@, o)]
       /\ Goto(l, IF o = "failed" THEN "threw" ELSE "get", 1)
  /\ UNCHANGED <<waits, reads, batches, reading, result>>

\* Mutant: the last future is not asked for.
GetFutureButLast(l) ==
  /\ load[l].at = "get"
  /\ IF load[l].next >= Loads[l].batches THEN Goto(l, "read", 1)
     ELSE /\ result[<<l, load[l].next>>] # "none"
          /\ IF result[<<l, load[l].next>>] = "true"
             THEN Goto(l, "get", load[l].next + 1) ELSE Goto(l, "threw", 1)
  /\ UNCHANGED <<waits, reads, batches, reading, result, data, faulty>>

\* The futures in order; after the last one the bytes are swapped, if at all.
GetFuture(l) ==
  /\ load[l].at = "get"
  /\ IF load[l].next > Loads[l].batches THEN Goto(l, "read", 1)
     ELSE /\ result[<<l, load[l].next>>] # "none"
          /\ IF result[<<l, load[l].next>>] = "true"
             THEN Goto(l, "get", load[l].next + 1) ELSE Goto(l, "threw", 1)
  /\ UNCHANGED <<waits, reads, batches, reading, result, data, faulty>>

-----------------------------------------------------------------------------
(* readfn, on a thread of ParallelFileReader::thread_pool *)

\* Mutant: the batches on io::thread_pool too.
ThreadForBatchOfOnePool == Cardinality(reading) + Cardinality(Running) < PoolSize

ThreadForBatch == Cardinality(reading) < PoolSize

TakeBatch ==
  /\ batches # <<>> /\ ThreadForBatch
  /\ reading' = reading \cup {Head(batches)} /\ batches' = Tail(batches)
  /\ UNCHANGED <<waits, reads, load, result, data, faulty>>

ReadBatch(b) ==
  /\ b \in reading /\ reading' = reading \ {b}
  /\ \E o \in Outcomes(b[1]) :
       /\ Blame(b[1], o)
       /\ data' = [data EXCEPT ![b[1]][b[2]] = Content(@, o)]
       /\ result' = [result EXCEPT ![b] = IF o = "failed" THEN "false" ELSE "true"]
  /\ UNCHANGED <<waits, reads, load, batches>>

Reader == \E l \in L : EnqueueBatch(l) \/ ReadRest(l) \/ GetFuture(l)
Threads == TakeRead \/ Reader \/ TakeBatch \/ \E b \in Batches : ReadBatch(b)

Next == (\E l \in L : EvalLoad(l)) \/ StreamPasses \/ Threads

-----------------------------------------------------------------------------
(* Properties *)

\* The stream has gone past the load.
Passed(l) == load[l].at # "lazy" /\ l \notin {waits[n] : n \in DOMAIN waits}

\* Where no read failed or fell short, what the stream goes on to use is the
\* file's, and no thread writes to the buffer any more.
Honest ==
  \A l \in L \ faulty : Passed(l) =>
    /\ \A p \in PartsOf(l) : data[l][p] = "right"
    /\ l \notin {b[1] : b \in reading}

AllPassed == \A l \in L : Passed(l)
=============================================================================
