----------------------------- MODULE CudaCommands -----------------------------
(***************************************************************************)
(* One CUDA stream: CommandEncoder (backend/cuda/device.cpp) collects      *)
(* kernels in a graph with the dependencies it derives from the arrays,    *)
(* launches the graph, and hands completion handlers to its Worker         *)
(* (worker.cpp), a thread that runs them once a host function, behind an   *)
(* event behind the graph, has signalled their batch.                      *)
(*                                                                         *)
(* Kernels are numbered in the order they are encoded; the stream runs     *)
(* graphs one after the other, so what has finished is a prefix.           *)
(***************************************************************************)
EXTENDS Integers, Sequences, FiniteSets, SequencesExt

CONSTANTS
  Buffers,
  BatchSizes,   \* kernels a batched matmul or a concatenation encodes at once
  MaxNodes,     \* default_max_nodes_per_graph
  MaxKernels,   \* bound: kernels of the program, a batch counted once
  MaxCommits    \* bound: batches of handlers

VARIABLES
  live,         \* buffers of arrays the graph or the user still refers to
  temporaries,  \* temporaries_
  graph,        \* graph_ and what describes it
  encoded,      \* number of kernels encoded
  flying,       \* launched graphs: the last kernel of each
  finished,     \* number of kernels finished
  pending,      \* pending_tasks_
  batches,      \* worker_tasks_: committed and not taken
  committed,    \* committed_batch_
  signals,      \* host functions to come: finished kernels each waits for
  signaled,     \* signaled_batch_
  stop,
  tasks,        \* what the worker has taken and still has to run
  wpc,          \* the worker: "test", "wait", "run", "exited"
  upc           \* the user's thread: "encode", "drain", "wait", "join", "gone"

vars == <<live, temporaries, graph, encoded, flying, finished, pending, batches,
          committed, signals, signaled, stop, tasks, wpc, upc>>
workerVars == <<pending, batches, committed, signaled, stop, tasks, wpc>>

\* A kernel or a batch of them, or (no reads and writes) an empty node.
EmptyGraph ==
  [nodes |-> <<>>, edges |-> {}, writer |-> [b \in Buffers |-> 0], count |-> 0]

Init ==
  /\ live = {CHOOSE b \in Buffers : TRUE}
  /\ temporaries = {}
  /\ graph = EmptyGraph
  /\ encoded = 0 /\ flying = <<>> /\ finished = 0
  /\ pending = <<>> /\ batches = [k \in {} |-> <<>>] /\ committed = 0
  /\ signals = <<>> /\ signaled = 0 /\ stop = FALSE
  /\ tasks = <<>> /\ wpc = "test" /\ upc = "encode"

Holds(ts) == UNION {ts[n].frees : n \in DOMAIN ts}

\* Buffers that wait in a handler, or will, for the kernels to finish.
Retained ==
  temporaries \cup Holds(pending) \cup Holds(tasks)
    \cup UNION {Holds(batches[k]) : k \in DOMAIN batches}

\* Which free buffer malloc returns: of those the graph cannot tell apart,
\* the least.
Fresh(b) ==
  /\ b \notin live \cup Retained
  /\ \A c \in Buffers \ (live \cup Retained) :
       c < b => graph.writer[c] # graph.writer[b]

Donatable(b) == b \in live \ Retained

-----------------------------------------------------------------------------
(* insert_graph_dependencies *)

\* node_count_ is a char.
Char(n) == ((n + 128) % 256) - 128

\* The nodes the arrays a kernel reads or writes depend on.
Deps(g, B) == {g.writer[b] : b \in B} \ {0}

SetWriter(g, B, node) ==
  [b \in Buffers |-> IF b \in B THEN node ELSE g.writer[b]]

\* A kernel of its own.
AddNode(g, k) ==
  LET node == Len(g.nodes) + 1
  IN  [nodes  |-> Append(g.nodes, k),
       edges  |-> g.edges \cup (Deps(g, k.reads \cup k.writes) \X {node}),
       writer |-> SetWriter(g, k.writes, node),
       count  |-> Char(g.count + 1)]

\* n kernels of a concurrent context, all alike, and the empty node its
\* destructor adds behind them, which stands for them from then on.
AddConcurrent(g, k, n) ==
  LET node == Len(g.nodes) + 1
      empty == node + 1
  IN  [nodes  |-> g.nodes \o <<k, [reads |-> {}, writes |-> {}]>>,
       edges  |-> g.edges \cup (Deps(g, k.reads \cup k.writes) \X {node})
                    \cup {<<node, empty>>},
       writer |-> SetWriter(g, k.writes, empty),
       count  |-> Char(g.count + n + 1)]

-----------------------------------------------------------------------------
(* CommandEncoder::commit and Worker::commit *)

\* Launch the graph if it has nodes, then hand the tasks to the worker and
\* have it signalled when the stream has come that far.
Commit(g, last, temps, ts) ==
  LET all == IF temps = {} THEN ts
             ELSE Append(ts, [frees |-> temps, after |-> last, promise |-> FALSE])
      launched == IF g.count > 0 THEN Append(flying, last) ELSE flying
      reached == IF launched = <<>> THEN finished ELSE Last(launched)
  IN  /\ temporaries' = {}
      /\ flying' = launched
      /\ graph' = IF g.count > 0 THEN EmptyGraph ELSE g
      /\ pending' = <<>>
      /\ IF all = <<>>
         THEN UNCHANGED <<batches, committed, signals>>
         ELSE /\ committed < MaxCommits
              /\ committed' = committed + 1
              /\ batches' = [k \in DOMAIN batches \cup {committed'} |->
                               IF k = committed' THEN all ELSE batches[k]]
              /\ signals' = Append(signals, reached)

-----------------------------------------------------------------------------
(* The operations of a program *)

Kernel(r, w) == [reads |-> r, writes |-> w]

\* Inputs, but for the one that was donated to.
KeptAlive(ins, out) == ins \ {out}

\* gpu::eval: after the kernels, keep buffers alive and maybe_commit.
Eval(g, ins, tmps, out, n) ==
  LET temps == temporaries \cup tmps \cup KeptAlive(ins, out)
  IN  /\ upc = "encode" /\ encoded + n <= MaxKernels
      /\ encoded' = encoded + n
      /\ \E gone \in SUBSET (ins \ {out}) : live' = (live \ gone) \cup {out}
      /\ IF g.count >= MaxNodes
         THEN Commit(g, encoded', temps, pending)
         ELSE /\ graph' = g /\ temporaries' = temps
              /\ UNCHANGED <<flying, pending, batches, committed, signals>>
      /\ UNCHANGED <<finished, signaled, stop, tasks, wpc, upc>>

Compute(ins, out) ==
  /\ Fresh(out) \/ (out \in ins /\ Donatable(out))
  /\ Eval(AddNode(graph, Kernel(ins, {out})), ins, {}, out, 1)

\* SliceUpdate: copy the source or write into it, then write the update.
SliceUpdate(x, update, out) ==
  /\ x # update
  /\ Fresh(out) \/ (out = x /\ Donatable(x))
  /\ LET copied == IF out = x THEN graph ELSE AddNode(graph, Kernel({x}, {out}))
     IN  Eval(AddNode(copied, Kernel({update}, {out})), {x, update}, {}, out,
              IF out = x THEN 1 ELSE 2)

\* DynamicSlice: the offset is a temporary, possibly in the indices' buffer.
DynamicSlice(x, indices, offset, out) ==
  /\ x # indices /\ offset # out /\ Fresh(out)
  /\ Fresh(offset) \/ (offset = indices /\ Donatable(indices))
  /\ Eval(AddNode(AddNode(graph, Kernel({indices}, {offset})),
                  Kernel({x, offset}, {out})),
          {x, indices}, {offset}, out, 2)

\* CublasGemm::run_batched, concatenate_gpu.
Batched(ins, out, n) ==
  /\ Fresh(out)
  /\ Eval(AddConcurrent(graph, Kernel(ins, {out}), n), ins, {}, out, 1)

\* The outputs of an evaluation are the inputs of a Synchronizer, evaluated
\* without a kernel: after it an output can go away.
Synchronizer(out) ==
  /\ out \in live \ Retained
  /\ upc = "encode"
  /\ live' = live \ {out}
  /\ temporaries' = temporaries \cup {out}
  /\ UNCHANGED <<graph, encoded, flying, finished, signals, workerVars, upc>>

\* gpu::finalize, and events and fences, which commit before they record.
Finalize ==
  /\ upc = "encode" /\ (graph.nodes # <<>> \/ temporaries # {} \/ pending # <<>>)
  /\ Commit(graph, encoded, temporaries, pending)
  /\ UNCHANGED <<live, encoded, finished, signaled, stop, tasks, wpc, upc>>

\* CommandEncoder::synchronize: cudaStreamSynchronize, a task with a promise,
\* commit, and wait for the promise.
Synchronize ==
  /\ upc = "encode" /\ upc' = "drain" /\ committed < MaxCommits
  /\ UNCHANGED <<live, temporaries, graph, encoded, flying, finished, signals,
                 workerVars>>
StreamDrained ==
  /\ upc = "drain" /\ flying = <<>> /\ upc' = "wait"
  /\ Commit(graph, encoded, temporaries,
            Append(pending, [frees |-> {}, after |-> encoded, promise |-> TRUE]))
  /\ UNCHANGED <<live, encoded, finished, signaled, stop, tasks, wpc>>

-----------------------------------------------------------------------------
(* The GPU *)

GraphFinishes ==
  /\ flying # <<>>
  /\ finished' = Head(flying) /\ flying' = Tail(flying)
  /\ UNCHANGED <<live, temporaries, graph, encoded, signals, workerVars, upc>>

\* Worker::signal, called by the signal stream once the event has passed.
Signal ==
  /\ signals # <<>> /\ Head(signals) <= finished
  /\ signals' = Tail(signals) /\ signaled' = signaled + 1
  /\ UNCHANGED <<live, temporaries, graph, encoded, flying, finished, pending,
                 batches, committed, stop, tasks, wpc, upc>>

-----------------------------------------------------------------------------
(* Worker::thread_fn *)

userVars == <<live, temporaries, graph, encoded, flying, finished, pending,
              committed, signals, signaled, stop>>

TestStop ==
  /\ wpc = "test" /\ wpc' = IF stop THEN "exited" ELSE "wait"
  /\ UNCHANGED <<userVars, batches, tasks, upc>>

\* Mutant: whatever has been committed.
CommittedBatches == DOMAIN batches

\* current_batch starts at 0 on every round: after the first signal the wait
\* is over at once, with whatever has been signalled to take.
SignaledBatches == {k \in DOMAIN batches : k <= signaled}
TakenTasks ==
  LET taken[k \in 0 .. committed] ==
        IF k = 0 THEN <<>>
        ELSE IF k \in SignaledBatches THEN taken[k - 1] \o batches[k]
        ELSE taken[k - 1]
  IN  taken[committed]

TakeTasks ==
  /\ wpc = "wait" /\ (signaled > 0 \/ stop) /\ wpc' = "run"
  /\ tasks' = TakenTasks
  /\ batches' = [k \in DOMAIN batches \ SignaledBatches |-> batches[k]]
  /\ UNCHANGED <<userVars, upc>>

RunTask ==
  /\ wpc = "run"
  /\ IF tasks = <<>>
     THEN wpc' = "test" /\ UNCHANGED <<tasks, upc>>
     ELSE /\ tasks' = Tail(tasks)
          /\ upc' = IF Head(tasks).promise THEN "encode" ELSE upc
          /\ UNCHANGED wpc
  /\ UNCHANGED <<userVars, batches>>

\* Worker::~Worker; batches not taken are dropped with the map.
Destroy ==
  /\ upc = "encode" /\ upc' = "join" /\ stop' = TRUE
  /\ UNCHANGED <<live, temporaries, graph, encoded, flying, finished, pending,
                 batches, committed, signals, signaled, tasks, wpc>>
Joined ==
  /\ upc = "join" /\ wpc = "exited" /\ upc' = "gone"
  /\ UNCHANGED <<live, temporaries, graph, encoded, flying, finished, signals,
                 workerVars>>

Worker == TestStop \/ TakeTasks \/ RunTask
Gpu == GraphFinishes \/ Signal

Next ==
  \/ \E ins \in (SUBSET live) \ {{}}, out \in Buffers :
       Compute(ins, out) \/ \E n \in BatchSizes : Batched(ins, out, n)
  \/ \E x, y \in live, tmp, out \in Buffers :
       SliceUpdate(x, y, out) \/ DynamicSlice(x, y, tmp, out)
  \/ \E b \in Buffers : Synchronizer(b)
  \/ Finalize \/ Synchronize \/ StreamDrained \/ Destroy \/ Joined
  \/ Gpu
  \/ Worker

Spec == Init /\ [][Next]_vars

-----------------------------------------------------------------------------
(* Properties *)

\* In a graph, of two kernels one of which writes what the other uses, there
\* is a path from the one encoded first to the other.
Ordered ==
  LET before[j \in DOMAIN graph.nodes] ==
        LET direct == {e[1] : e \in {f \in graph.edges : f[2] = j}}
        IN  direct \cup UNION {before[i] : i \in direct}
  IN  \A j \in DOMAIN graph.nodes : \A i \in 1 .. j - 1 :
        LET k == graph.nodes[i]
            l == graph.nodes[j]
        IN  (k.writes \cap (l.reads \cup l.writes)) \cup (k.reads \cap l.writes) # {}
              => i \in before[j]

\* A handler in the hands of the worker was added after kernels that have all
\* finished.
HandlersAfter == \A n \in DOMAIN tasks : tasks[n].after <= finished

\* The user does not wait for ever.
Returned == upc \in {"encode", "gone"}
=============================================================================
