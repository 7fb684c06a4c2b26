----------------------------- MODULE MCWorkers ------------------------------
(***************************************************************************)
(* The threads that do other threads' work: the stream thread of the CPU   *)
(* backend (the module extended), the thread pool, the two pools behind    *)
(* the loading of files, and the worker of a CUDA stream with the encoder  *)
(* that feeds it.  They share nothing; the first state chooses one, and    *)
(* the variables of the others keep their initial values.                  *)
(*                                                                         *)
(* Stream thread: two clients, three tasks, two spurious wake-ups: enough  *)
(* for a notify delayed past the worker's next test, past a second enqueue *)
(* and past the destructor's own notify.                                   *)
(***************************************************************************)
EXTENDS StreamThread, TLC

CONSTANTS c1, c2, t1, t2, t3
MCClients == {c1, c2}
MCTasks == {t1, t2, t3}

CONSTANTS
  Parts,
  Workers, Sizes, MaxResizes,
  Loads, PoolSize, MaxFaults,
  Buffers, BatchSizes, MaxNodes, MaxKernels, MaxCommits

ASSUME LoadsAssumption ==
  \A l \in DOMAIN Loads : Loads[l].batches \in Nat /\ Loads[l].rest \in BOOLEAN

\* Two reads that occupy both threads of the pool with batches to wait for,
\* one with bytes left over, and one shorter than a batch.
MCLoads == 1 :> [batches |-> 2, rest |-> TRUE]
        @@ 2 :> [batches |-> 1, rest |-> FALSE]
        @@ 3 :> [batches |-> 0, rest |-> TRUE]

VARIABLES
  part,
  workers, poolTasks, poolStop, owner, resizes, notify, poolRefused, poolRan,
  waits, reads, load, queuedBatches, reading, result, data, faulty,
  live, temporaries, graph, encoded, flying, finished, pending, batches,
  committed, signals, signaled, workerStop, workerTasks, workerPc, upc

Pool == INSTANCE ThreadPool WITH
  tasks <- poolTasks, stop <- poolStop, refused <- poolRefused, ran <- poolRan
Files == INSTANCE FileLoads WITH batches <- queuedBatches
Cuda == INSTANCE CudaCommands WITH
  stop <- workerStop, tasks <- workerTasks, wpc <- workerPc

poolVars ==
  <<workers, poolTasks, poolStop, owner, resizes, notify, poolRefused, poolRan>>
filesVars ==
  <<waits, reads, load, queuedBatches, reading, result, data, faulty>>
cudaVars ==
  <<live, temporaries, graph, encoded, flying, finished, pending, batches,
    committed, signals, signaled, workerStop, workerTasks, workerPc, upc>>
allVars == <<part, vars, poolVars, filesVars, cudaVars>>

OnlyStream == UNCHANGED <<part, poolVars, filesVars, cudaVars>>
OnlyPool == UNCHANGED <<part, vars, filesVars, cudaVars>>
OnlyFiles == UNCHANGED <<part, vars, poolVars, cudaVars>>
OnlyCuda == UNCHANGED <<part, vars, poolVars, filesVars>>

AllInit ==
  /\ part \in Parts
  /\ Init /\ Pool!Init /\ Files!Init /\ Cuda!Init
  /\ part # "pool" => Pool!Size = CHOOSE n \in Sizes : TRUE

\* A part that has come to its end stays there.
Stopped ==
  /\ \/ part = "pool" /\ owner.at = "destroyed" /\ notify = {}
     \/ part = "files" /\ Files!AllPassed
     \/ part = "cuda" /\ upc = "gone"
  /\ UNCHANGED allVars

AllNext ==
  \/ part = "stream" /\ Next /\ OnlyStream
  \/ part = "pool" /\ Pool!Next /\ OnlyPool
  \/ part = "files" /\ Files!Next /\ OnlyFiles
  \/ part = "cuda" /\ Cuda!Next /\ OnlyCuda
  \/ Stopped

(***************************************************************************)
(* Threads that can run do, the GPU finishes what it was given and calls   *)
(* the host functions behind it, and a destructor or resize that was       *)
(* entered goes on.  Nobody has to enqueue, encode, evaluate or destroy.   *)
(***************************************************************************)
StreamFairness ==
  /\ WF_allVars(part = "stream" /\ Worker /\ OnlyStream)
  /\ \A c \in Clients : WF_allVars(part = "stream" /\ NotifyOne(c) /\ OnlyStream)
  /\ WF_allVars(part = "stream" /\ NotifyStop /\ OnlyStream)
  /\ WF_allVars(part = "stream" /\ Join /\ OnlyStream)
PoolFairness ==
  /\ WF_allVars(part = "pool" /\ Pool!Owner /\ OnlyPool)
  /\ \A w \in Workers : WF_allVars(part = "pool" /\ Pool!Worker(w) /\ OnlyPool)
  /\ \A t \in Tasks : WF_allVars(part = "pool" /\ Pool!NotifyOne(t) /\ OnlyPool)
FilesFairness ==
  /\ WF_allVars(part = "files" /\ Files!StreamPasses /\ OnlyFiles)
  /\ WF_allVars(part = "files" /\ Files!Threads /\ OnlyFiles)
CudaFairness ==
  /\ WF_allVars(part = "cuda" /\ Cuda!Gpu /\ OnlyCuda)
  /\ WF_allVars(part = "cuda" /\ Cuda!Worker /\ OnlyCuda)
  /\ WF_allVars(part = "cuda" /\ Cuda!StreamDrained /\ OnlyCuda)
  /\ WF_allVars(part = "cuda" /\ Cuda!Joined /\ OnlyCuda)

AllSpec ==
  /\ AllInit /\ [][AllNext]_allVars
  /\ StreamFairness /\ PoolFairness /\ FilesFairness /\ CudaFairness

-----------------------------------------------------------------------------
(* Properties *)

\* Whoever waits for these threads is not left waiting: a task a pool has
\* accepted runs, also across resize; resize and the pool's destructor return;
\* a stream gets past every load, failed ones included, however the reads
\* share the threads of the two pools; synchronize and the destructor of a
\* CUDA stream return.
WorkersReturn ==
  /\ \A t \in Tasks : part = "pool" /\ Pool!Waiting(t) ~> ~Pool!Waiting(t)
  /\ part = "pool" /\ Pool!OwnerBusy ~> ~Pool!OwnerBusy
  /\ \A l \in DOMAIN Loads : load[l].at = "queued" ~> Files!Passed(l)
  /\ upc \in {"drain", "wait", "join"} ~> Cuda!Returned

\* Past the load of a file whose reads all succeed in full, every part of the
\* buffer has the file's bytes and nothing is about to write to it.
LoadsHonest == Files!Honest
=============================================================================
