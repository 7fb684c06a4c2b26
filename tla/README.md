# A TLA+ development of MLX's lazy evaluation engine

MLX builds graphs of arrays lazily; nothing runs until `eval` or `async_eval`.
Evaluation then walks the graph on the caller's thread, feeds tasks to *streams*
(one worker thread per CPU stream, a command queue per GPU stream), orders the
streams among themselves with *fences* and *events*, and shares, donates and
releases buffers by reference counts that tasks in flight take part in. That is
the part of the program that is easy to get wrong and hard to test, and it is what
this directory models first; around it stand the parts that share
its threads, its memory and its graphs: allocators, command encoders, worker threads,
the ring of processes, compiled functions, and the transformations `vmap`, `jvp` and `vjp`.

The repository holds the C++ core (`mlx/`), its CPU, Metal and CUDA backends,
distributed backends, a Python binding and a Node binding (`node/`, which also
vendors a copy of `mlx/`). All line numbers below are of files under `src/`.

## 1. Inventory

| Part | Source | State it keeps | Operations | What makes it correct | Modelled |
|---|---|---|---|---|---|
| Stream worker | `mlx/scheduler.h` 13-64 | queue, mutex, condition variable, stop flag | enqueue, thread loop, destructor | tasks run once, in order; no lost wake-up; the destructor drains and returns | yes |
| Scheduler | `mlx/scheduler.{h,cpp}` | streams, worker threads, `n_active_tasks_` | new_stream, enqueue, notify_*, wait_for_one, synchronize | the counter equals the counted tasks in flight; back-pressure ends | partly |
| Evaluation engine | `mlx/transforms.cpp` 52-319, `mlx/array.{h,cpp}` | status, event, data, inputs, siblings of every array | eval, async_eval, wait, is_available, detach | values computed once, after what they depend on; available means computed | partly |
| Tape construction | `mlx/transforms.cpp` 82-190 | degrees, stack, tape | depth-first count, bounded breadth-first listing | every primitive needed once, inputs first; a fence exactly where streams cross | partly |
| CPU encoder, `cpu::eval` | `mlx/backend/cpu/{encoder.h,eval.cpp}` | operation count, temporaries | dispatch | buffers outlive the tasks that point into them | yes |
| Event, Fence (CPU) | `mlx/backend/no_gpu/{event,fence}.cpp` | value, count | wait, signal, update | values only grow; whoever waits is woken | yes |
| Allocators, buffer cache | `mlx/backend/*/allocator.cpp`, `mlx/backend/common/buffer_cache.h`, `mlx/backend/metal/resident.cpp` | active, peak, cached bytes; LRU list; limits | malloc, free, clear_cache, set limits | counters equal what is allocated; limits respected | yes |
| Metal encoder, events, fences | `mlx/backend/metal/{device,eval,event,fence}.cpp` | command buffers, outputs of the encoder, fences | dispatch, barrier, commit, end_encoding | no hazard between dispatches without a barrier or fence | partly |
| CUDA encoder, worker | `mlx/backend/cuda/{device,worker,eval}.cpp` | graph under construction; pending, committed and signaled batches | add nodes, commit, signal, thread loop | dependent kernels are ordered; handlers run after their batch | partly |
| CUDA events and fences | `mlx/backend/cuda/{fence.cpp,event.cu}` | driver events, atomics | wait, signal | calls of the driver | no |
| Thread pool | `mlx/threadpool.h` | tasks, workers, stop | enqueue, resize, destructor | an accepted task runs; a resize loses nothing | yes |
| File reader, load | `mlx/io/load.{h,cpp}`, `mlx/backend/common/load.cpp` | futures, two pools | read in parts, wait | all parts read; nobody waits for ever | partly |
| Ring backend | `mlx/distributed/ring/ring.cpp` | sockets, send and receive queues, rank | connection setup, socket threads, collectives | no deadlock while connecting; all ranks end with the same reduction | mostly |
| MPI, NCCL, front end | `mlx/distributed/` | the chosen group | init, collectives | calls of libraries | no |
| Compile | `mlx/compile.cpp` | cache of traced functions, the tape | lookup, trace, simplify, fuse, replay | a compiled function returns what the function returns | mostly |
| Transformations | `mlx/transforms.cpp` 321-, `transforms_impl.h` | tracing flags, tape, maps from arrays to what they became | vjp, jvp, vmap, value_and_grad | vmap is the function on each example, the others its derivative | mostly |
| Operations and primitives | `mlx/ops.cpp`, `mlx/primitives.cpp` | - | what they compute; vmap, jvp, vjp of each | their rules agree with what they compute | partly |
| Random, IO formats, export | `mlx/random.cpp`, `mlx/export.cpp` ... | - | keys, parsing | sequential | no |
| Kernels | `mlx/backend/*/kernels` ... | - | - | numerical | no |
| Node binding | `node/src` | handles, streams | calls of the core from one thread, streaming readers | object lifetimes | no |
| Python binding, nn, optimizers, launcher | `python/` | - | - | layers over the core | no |

How they interact: the user's thread calls `eval_impl`, which calls
`Primitive::eval_cpu` for each array; that allocates or takes over buffers and
dispatches closures through the encoder into `StreamThread::enqueue`.
`Fence::wait/update` and `Event::wait/signal` enqueue closures of their own, past
the encoder and its count. Workers run the closures, notify the scheduler of
one in ten of them, and destroy them, which may release the last reference to a
buffer. The user's thread meanwhile reads `n_active_tasks_`, the active memory, the
values of events and the reference counts. On a GPU stream the encoder takes the
workers' place: it decides which kernels may overlap, and completion handlers
release the buffers, which go to the cache of the allocator and from there to the
next array. Collectives run on a CPU stream and block it until the socket threads have
fulfilled their promises. A compiled function replays a rewritten graph, which
`eval_impl` then walks like any other. A transformation walks the graph a function
left behind and builds a new one by the rules of its primitives.

Hard behaviours, each listed with its line in `PROJECT.json` under `hazards`:
notifications after the unlock or without the mutex; fences and events that make streams
wait for each other; donation decided from reference counts that workers change; raw
pointers in closures; back-pressure on a counter that counts one task in ten;
exceptions half-way through an evaluation or a trace; graph walks that dereference an
iterator without a test; allocator counters in windows without the lock; kernels that
overlap unless the encoder orders them; handlers against the GPU that they follow; pools
whose tasks wait for tasks of another pool; shutdown of socket threads; connection order
around a ring; buffers reused round by round in a pipelined reduction; rewriting of a
graph while maps of its users are kept beside it; rules that renumber axes around a batch axis
which may be anywhere, and rules given tangents or arguments for some of the inputs only.

## 2. Modules

| Module | Models | Kind |
|---|---|---|
| `SerialExecutor` | what a stream promises: accepted tasks run once, in order | abstract specification |
| `StreamThread` | `StreamThread` of `mlx/scheduler.h` | detailed, implements `SerialExecutor` |
| `EvalGraph` | arrays, inputs, siblings; what is needed, what a tape is | pure operators |
| `LazyEval` | what lazy evaluation promises | abstract specification |
| `AsyncEval` | `eval_impl`, CPU streams, fences, events, buffers | detailed, implements `LazyEval` |
| `AsyncEvalProofs` | theorems about `AsyncEval`: types, fences, the tape, the counter of active tasks, events | proofs |
| `AsyncEvalOrderProofs` | theorems about the order in which its streams compute: values in buffers, their ownership, the refinement of `LazyEval`, no deadlock | proofs |
| `TapeBuilder` | the two graph passes of `eval_impl` | detailed, ends in what `EvalGraph!IsTape` says |
| `TapeProofs` | theorems about `TapeBuilder` | proofs |
| `CompileGraph` | the passes of `mlx/compile.cpp` over a traced graph | pure operators (recursive) |
| `Compile` | calls of a compiled function, its cache | state machine over `CompileGraph` |
| `ArrayOps` | the operations of `mlx/ops.cpp` on small arrays | pure operators |
| `PrimitiveRules` | the primitives and their `vmap`, `jvp` and `vjp` | pure operators |
| `Transforms` | `vmap`, `jvp`, `vjp`, `value_and_grad` | state machine over `PrimitiveRules` |
| `BufferCache` | `BufferCache<T>` | pure operators |
| `MetalAllocator`, `CudaAllocator`, `CommonAllocator` | the allocator of each backend, used by several threads | state machines, two over `BufferCache` |
| `MetalCommands` | one Metal stream: barriers, encoders, fences, handlers | state machine |
| `CudaCommands` | one CUDA stream: graphs, batches of handlers, the worker thread | state machine |
| `AllocatorProofs` | theorems about `BufferCache` and the three allocators, as `MCDevices` runs them | proofs |
| `DevicesProofs` | theorems about `MetalCommands` and `CudaCommands`, as `MCDevices` runs them | proofs |
| `ThreadPool` | `ThreadPool` | state machine |
| `FileLoads` | loads of arrays over two thread pools | state machine |
| `WorkersProofs` | theorems about `StreamThread` and `FileLoads`, as `MCWorkers` runs them | proofs |
| `RingSetup` | the constructor of `RingGroup` on every rank | state machine |
| `RingSocket` | the `SocketThread`s at both ends of a connection | state machine |
| `RingCollective` | `all_reduce`, `all_gather` on every rank | state machine |
| `RingProofs` | theorems about `RingSocket`, as `MCRing` runs it | proofs |
| `Induction` | lemmas: induction over a set, functions defined by recursion, counting, sums over finite sets, paths | proofs |
| `MCAsyncEval` | graphs for `AsyncEval` | model checking |
| `MCWorkers` | `StreamThread`, `ThreadPool`, `FileLoads`, `CudaCommands` | model checking |
| `MCAllocators`, `MCDevices` | the allocators; they and `MetalCommands`, `CudaCommands` | model checking |
| `MCRing` | the three ring modules | model checking |
| `MCRequests` | functions to transform | model checking |
| `MCTapeBuilder`, `MCPasses` | graphs for `TapeBuilder`; they, programs for `Compile` and `Transforms` | model checking |

The levels fit together: `StreamThread` shows that a stream is a serial
executor, and `AsyncEval` has one FIFO queue per stream for that reason.
`TapeBuilder` shows that the walk ends in a tape satisfying `IsTape` and
`FencedInputs`, and `AsyncEval` starts each evaluation from *any* such tape.
`ThreadPool` shows that an accepted task runs, and `FileLoads` has pools that are a queue and a
number of threads. `RingSocket` shows when a promise is fulfilled, and `RingCollective` waits
for transfers that move one element at a time.

`MCWorkers`, `MCDevices`, `MCRing` and `MCPasses` put parts side by side that share no state:
the first state chooses one, a step is a step of that part, and the
variables of the others keep their initial values. One run then checks each of its parts as if
it were alone. `Stopped` is a stuttering step of a part that has come to its end or that nobody has to
use, so that deadlock can still be checked in the others.

### StreamThread

`q`, `stop` are the members; `wpc`, `task` the worker's position and the closure it
moved out; `cpc` says which clients stand between the unlock and `notify_one`
(line 62); `dpc` is the destructor. A critical section is one step because
nothing is visible to others before the unlock. `Block` and `SpuriousWake` are
`cond.wait`; a notification reaches only a worker that is blocked. The
environment may call enqueue and the destructor in any order except that nothing
is called on an object that is gone.

### AsyncEval

| State | Code |
|---|---|
| `graph` | `ArrayDesc::inputs`, `siblings`, `primitive` (kind and stream) |
| `status`, `event`, `buf` | `ArrayDesc::status`, `event`, `data` |
| `held` | array objects the user has |
| `content` | which value each buffer holds |
| `queue`, `closing` | the queue of each stream; a task that ran and whose closure is about to be destroyed |
| `numOps`, `nActive` | `CommandEncoder::num_ops_`, `Scheduler::n_active_tasks_` |
| `signaled`, `fenceValue` | `EventCounter::value`, `FenceImpl::value` |
| `pc`, `m` | where the user's thread is, and the locals of `eval_impl` (`m.fenceCount` is `FenceImpl::count`) |
| `evals` | calls so far; fences and events are named by call and stream |
| `computed` | history: values whose computation ran |

Actions follow the loop of `eval_impl` line by line: `NextEntry` (192-212),
`WaitForInput` (214-228, once per input), `EvalArray` (230-234 with `cpu::eval`),
`Throttle`, `WaitForOne`, `OneCompleted`, `CheckMemory` (236-251), `Publish` (253-273),
`EndEval` (276-287), `EvalReturns`. `Await` and `Awaited` are `array::wait`, `Drop` is the
destruction of a handle. The workers' actions are one per kind of closure:
`RunCompute`, `RunHold` and `ReleaseBuffers` (the closure that only keeps
buffers, and its destruction), `RunFenceWait`, `RunFenceUpdate`, `RunEventWait`,
`RunEventSignal`.

Abstractions: all arrays have the same size and type, so that whether an input is
donated depends on reference counts only; a buffer's content is the name of the
value in it; a task carries the buffers it has raw pointers to (`reads`, `writes`)
and the buffers it owns (`holds`). `DISPATCHES_PER_TASK` (10 in the code) and
`MAX_ACTIVE_TASKS` (10) are constants of the model. A reference count is computed from who
refers to what (`DescRefs`, `DataRefs`), never stored.

### TapeBuilder

`dfs` is the stack both passes share, `degree` the map `cache`, `tape` and `i` the
deque and the loop counter; `at` is the array being expanded and its position, which in
the code are the local `a` and `j`. The synchronizer is array 0.

### The graph passes of compile

A heap `h` (`CompileGraph`) is the set of arrays a trace left, as the passes see and change them:
operation, inputs, siblings, shape, stream, the `ParentsMap` and the tapes of the fused kernels. The
passes are one operator each: `compile_dfs`, the merge of scalars, the removal of no-ops, the merge of equal
siblings and parents (`MergeOne`), the split of a broadcast at the edge of a section, the section that is fused
(`FuseEntry`), `compile_replace`. An array's value is the term it computes (`FunctionValues`), so
that two heaps can be compared without numbers.

`Compile` has one action per pass, and those of a call: `find` in the cache (`LookUp`), the trace, which may throw or
capture an array from outside, the replay, and `erase`. The cache entry is added before the
trace, as in the code, so that a failed trace leaves an incomplete entry behind.
`Refused` lists the cases in which the passes are known to throw (section 3).

### Allocators

`memory` is what the lock guards together with the buffers the device has given out; `pc` is what a thread does
outside the lock: a malloc that missed the cache and is about to call the device, a free that
releases a buffer. Everything under the lock is one step. `BufferCache` keeps both indexes of the
code, the multimap and the doubly linked list, each changed by the code's own assignments, so
that they can disagree. Sizes wrap at `WordSize`. `peak_memory_` is only reported and is left
out.

### Command encoders

`MetalCommands`: `stream` is `DeviceStream` with its open encoder (inputs, outputs, the sets of the
barrier, the concurrent context), `kernels` are kernels encoded and not finished, each with its encoder and its
phase between barriers: which of them may run next is decided from barriers and fences alone. `Ordered`
compares that with the conflicts of the buffers they use. Buffers released by a handler can be allocated again, so a
missing fence and a missing hold are both conflicts.
`CudaCommands`: `graph` is the graph under construction, with the maps from buffers to nodes; `batches`,
`committed`, `signals`, `signaled` are the worker's. Arrays are their buffers in both.

### Thread pool and loads

`ThreadPool` has each `notify_one`, `notify_all` and `join` of `enqueue`, `resize` and the destructor as a step of its own. `FileLoads`
has the stream's waiting tasks, the read on `io::thread_pool`, its batches on the reader's
pool, and what each part of the buffer holds.

### Ring

`RingSetup` is the interleaving of all constructors; a connection is in the backlog of a listening socket
before it is accepted. `RingSocket` has the worker's position between its unlocked calls, `errno` with the value an earlier
call left there, and the destructor, which does not take the mutex. `RingCollective` gives rank
`r` the value 4^r in every element, so that a digit of a result tells how often a rank is in it; the plan
is computed by the code's arithmetic, segments and packets included.

### Transformations

`f` is the traced function, `trace` its arrays, `walk` the tape with the set of arrays that depend on
what is mapped or differentiated (`needs_vmap`, `calc_grad`), `found` is `tmap`, `tan_map` or `cotan_map`.
A step is one entry of the tape, backwards for `vjp`, or one output. `VmapRule`, `JvpRule` and `VjpRule` of
`PrimitiveRules` are the virtual methods: each is written with the operations the method calls, so a rule that passes a wrong
axis gets what the operation returns for it. `Transforms` calls them as the code does, through whatever the primitive
implements: the constant `method` is the record `Methods` of functions.

Arrays have shapes, and their elements are numbers modulo a prime with a derivative beside them (`ArrayOps`). A
function evaluated on such numbers yields its derivative along a direction exactly, from what the
primitives compute and without any of their rules: `GradientsAreExact` compares the two. `jvp` must
give that derivative, and the product of the cotangents with it must be the product of `vjp`'s result with the
direction. `VmapIsExact` compares with the function evaluated on every example. Division is exact in such a field;
`exp`, `log`, `sin` and their like are any functions with the right relation between value and derivative, so a rule that holds
by a further identity of real functions would need one of its own. Two numbers agree by chance in one case of ten thousand.

Both properties are equivalences: they hold in every case except those `VmapWrong`, `JvpWrong` and `VjpWrong`
name, and fail in each of those, so the lists below say no more than the code does.

## 3. Runs

| Run | Module | Distinct states | Shows |
|---|---|---|---|
| `stream_thread` | `MCWorkers` | 85 000 | no lost wake-up, drained before exit, implements `SerialExecutor`, destructor returns; pool, loads and CUDA worker leave nobody waiting; a load without error left the file's bytes |
| `async_eval` | `MCAsyncEval` | 1 983 886 | safety of the engine: settled reads, owned buffers, available means computed, bounded backlog, fences exist and advance, events waited for are on their way, no deadlock among streams |
| `async_eval_live` | `MCAsyncEval` | 81 180 | calls return; implements `LazyEval` with its liveness |
| `async_eval_faults` | `MCAsyncEval` | 634 793 | with a primitive that throws: no stream is left waiting for a fence |
| `tape_builder` | `MCPasses` | 629 661 | the walk yields an admissible tape and exactly the fences needed, and ends; a compiled function returns what the function returns; `vmap`, `jvp`, `vjp` and `value_and_grad` are exact but for named cases |
| `allocators` | `MCDevices` | 1 830 000 | cache, statistics, residency set and limits of the allocators; kernels in conflict are ordered, handlers run after kernels |
| `ring` | `MCRing` | 1 081 931 | connecting ends, promises are honest, collectives return and are right, no element is written while a send has still to read it (`SendsStable`) |
| `async_eval_throws` | `MCAsyncEval` | violation | finding 1 below |
| `async_eval_hangs` | `MCAsyncEval` | violation | finding 2 |
| `cuda_active_memory` | `MCAllocators` | violation | finding 3 |
| `metal_donated_offset` | `MetalCommands` | violation | finding 4 |
| `cuda_node_count` | `CudaCommands` | violation | finding 5 |

Bounds and why they are enough:

- `stream_thread`: two clients and three tasks, so that a notification of one client can
  be used up by the task of another, and a task arrives while another runs; two
  spurious wake-ups (`MaxSpurious`). The pool has up to two threads and is resized twice, between one and
  two, with tasks enqueued before, during and after; three loads, two of which fill both threads of
  their pool with reads that wait for batches; a CUDA stream with two kernels or batches, a graph
  of one node and two commits, so that a commit happens for want of room and on request.
- `async_eval`: two streams, two calls (`MaxEvals`), one or two outputs each
  (`MaxOutputs`), four arrays. The graphs (`MCAsyncEval`) are one where a value
  crosses to another stream and back, one with a view, one with two readers on two streams, one
  with a primitive of two outputs. Two calls let an asynchronous evaluation meet the
  next one; drops and waits in between let buffers be reused. With
  `DISPATCHES_PER_TASK = 2`, `MAX_ACTIVE_TASKS = 1`, `MemoryLimit = 3` both forms of back-pressure
  are taken. The two streams are not symmetric (graphs name them).
- `async_eval_live`: three arrays, of which the last is a view or a donation on either
  stream: liveness needs the cycle of two calls rather than larger graphs.
- `tape_builder`, the walk: every graph of one leaf and three other arrays with one or two inputs
  each, every pair of neighbours as siblings, every set of arrays evaluated before, every one or two outputs,
  widths 1 and 2. `MLX_BFS_MAX_WIDTH=0` is left out: the loop does not end then. Compiled functions: every program of
  two or three operations from four small alphabets (scalars and no-ops; equal subgraphs with a primitive of
  two outputs; fusable operations next to a reduction, a broadcast or another stream; sections as large as may be),
  with `max_compile_depth = 3` and `max_compile_arrays = 4`, so that both limits are met; two calls, one failing
  trace, every mode on the simple programs. Transformations: every modelled primitive by itself with every axis or set of
  axes that differs for its rule, every two of the shape primitives, reductions and scans in a row, and about sixty functions that use an
  array twice, return one twice or not at all, stop gradients, or take arrays from outside; each with every choice of
  batch axes of its arguments (`BatchSize = 4`), all arguments or the first
  to differentiate. Three axes at most, so that one can lie in front of, between and behind two others.
- `allocators`: two threads, so that one is in the unlocked window of the other; three sizes, one below, one at
  and one above what the cache may reuse; two values of each limit, one of which is zero; `WordSize` far above all
  sums but within reach of one that goes below zero. Three buffers and three kernels for the encoders (see `MCDevices`).
- `ring`: three ranks with two addresses (a circle of ranks that all accept needs more than two; two is
  covered by the jobs), one failing call, three attempts; messages of two, one and no bytes one way and of one byte the other, over a connection that
  holds one (a task of no bytes is what the flags have to get right); arrays of 1, 4 and 7 elements: less than one per rank, one packet per segment, several packets with a rest.

`CHECK_DEADLOCK FALSE` is said in `async_eval_faults` and `async_eval_hangs`, where the
user's thread can be stuck in `wait` by the fault of finding 2, and for the allocators and encoders, whose
programs are bounded: when all ids, kernels or commits are used up, nobody calls any more.

Fairness: every thread that can run does so (`WF` of the worker of each stream, of the
user's thread inside a call, of a client between unlock and notify, of a destructor or resize once
entered, of each thread of a pool, of the rank inside a constructor or a collective), the GPU finishes what it was given
and calls the host functions behind it, TCP delivers. Nobody has to call anything, no spurious wake-up has to happen
and nothing has to fail. Operating
system threads justify this; there is no priority or polling loop in the modelled code
except `wait_for_one` with one active task (scheduler.h:129), where `eval_impl` spins and
the workers it waits for run on other threads.

### Findings

1. **An evaluated array can be reported available before it is computed**
   (`async_eval_throws`). If `eval_cpu` of a later array throws inside a synchronous `eval`,
   arrays published before it are `evaluated` without an event, and `is_available`
   (array.cpp:106) answers true while their tasks are still queued; array.h:373 says an available
   array's computation is complete.
2. **Waiting after a failed `async_eval` can hang** (`async_eval_hangs`). The events attached
   to arrays already scheduled are signaled only by the loop at transforms.cpp:277, which an
   exception skips; `array::wait` (array.h:382) then never returns.
3. **CUDA's active memory drifts** (`cuda_active_memory`). `malloc` adds the size asked for even when
   a larger buffer came from the cache, `free` subtracts the buffer's size (cuda/allocator.cpp:129, 146).
4. **A donated index array loses its fence on Metal** (`metal_donated_offset`). `compute_dynamic_offset` puts the
   offset into the buffer of the indices and declares it a temporary; `end_encoding` erases temporaries from the inputs it
   looks up fences for, although the indices may come from an encoder that has not finished.
5. **A large concurrent context is not launched on CUDA** (`cuda_node_count`). `node_count_` is a `char`; 130 nodes make it
   negative where `char` is signed, `commit` launches nothing, and the handlers behind it run.

The same exception breaks a third property, about which the repository says nothing and
which is therefore no run: `PendingBuffersOwned`. The task that keeps buffers alive leaves
out the array's own output (`backend/cpu/eval.cpp` 31-34), which normally a consumer, the
Synchronizer or the user keeps alive. If evaluation stops half-way and the user then drops the
array, its buffer is released while the computation is still queued. To see it, add the invariant
to `AsyncEvalFaults.cfg`.

### What else the models have to allow

These are behaviours of the code about which the repository says nothing, or which only its callers
rule out. Each is in the model, and the property named is stated so as to allow it and nothing more.

- *Ring.* `~SocketThread` sets `stop_` and notifies without the mutex: a worker between its test and its sleep
  misses it and the destructor joins for ever (`WakeupsLostOnlyByDestructor`). A worker that gives up after errors leaves
  the promises in its lists unset. `errno` is read after calls that did not set it, so a closed connection can be
  taken for one that has no data yet, and the worker spins (`PromisesHonest` allows all of these).
- *Allocators.* A Metal `malloc` throws when the number of resources equals the limit, although one more was
  given back; each thread in the window may exceed the limit by one (`ResourcesBounded`). A CUDA `malloc` that runs out of memory
  returns a buffer without data. A failed `std::malloc` is counted as active for good (`BuffersAccounted`).
- *CUDA worker.* After the first signal its condition stays true and the thread polls. Batches committed but not
  signaled when it is destroyed are dropped (`WorkersReturn` asks for the return, not for the handlers).
- *Loads.* A short read ends a load like a complete one; an exception of a read is in a future nobody asks; after one read
  failed, batches still queued go on writing to the buffer (`LoadsHonest` is about loads whose reads all succeed).
- *Compile.* The replay throws where `Refused` says: an output of the function that is one of several equal scalars;
  an output that is the later of two equal `DivMod`s when only one of its outputs is used; a broadcast split at a section that
  already has as many inputs as it may have. An entry is marked as filled before the function is traced: after a trace that threw,
  a function without inputs returns nothing on the next call, and after "uncaptured inputs" the next call throws from
  `at` (`CompiledOutput`).
- *vmap.* `ExpandDims` with several axes places them against the batch axis of the input, which earlier ones have moved;
  `Sort` and `ArgSort` keep a negative axis, which then counts the batch axis; `NotEqual` returns the axes of its inputs for that of its output;
  `Scatter` puts a slice size of one in front of the others whatever the place of the source's batch axis, and looks for that of the updates
  where it was before an axis was added; `DynamicSliceUpdate` with an update that is not mapped updates the first example
  only; `Slice` and `SliceUpdate` are normalized again by every rule, by which a reversed axis of one element (whose stride was set
  to 1) becomes empty; an output returned twice along another axis is moved twice. `Pad`, and a dynamic slice whose start is mapped, throw.
- *jvp.* `AddMM` leaves out alpha and beta; `LogSumExp` does not sum; `Power` takes the first tangent for both arguments; `Select`,
  `SliceUpdate`, `DynamicSliceUpdate` and `ArcTan2` take an argument's number for its place among the tangents and read beyond them.
  Reductions, `CumProd` and `Scatter` throw, and so do gathers and scatters with a tangent for their indices.
- *vjp.* `Sort` gathers where it should scatter (its vjp is its jvp); `Full` multiplies by the value it fills with; `Pad` reads the widths of
  axis j at place j when other axes are padded; `Scatter` gathers whole slices for updates that cover a part; arguments out of order
  get zeros, as each is compared with the next number only; an output returned twice loses its second cotangent. `VmapIsExact` and
  `GradientsAreExact` demand these cases to differ and all others to be right.
- *Transformations, outside the model.* `DivMod::vmap` returns one axis for two outputs, `FFT::vmap` of a real transform halves every
  transformed axis instead of the last, `Partition::vmap` and `ArgPartition::vmap` pass the axis as `kth`; the rules of `Broadcast`, `Transpose` and `Reshape` for `vmap`
  change the shared primitive; an axis equal to the number of dimensions passes the test of `vmap_trace` (line 710).
- *Compile, outside the model.* The entry is a reference into a vector that a nested `find` for the same function may
  grow; the cache has no mutex; `merge_one` inserts into an `unordered_map` while iterators into it are live;
  two fused kernels whose tapes have the same types of operations, whatever their parameters, count as equivalent.

## 4. Proofs

Everything here is proved for every value of the constants, from the `ASSUME`s of the
modules alone: `EvalGraphAssumption`, `AsyncEvalAssumption` (the graphs are graphs; the bounds are natural
numbers and may be as large as one likes), `TapeBuilderAssumption` (the outputs of an evaluation are arrays,
and either all outputs of a primitive were evaluated before or none), `LoadsAssumption` (a load has a number of full batches,
and has bytes left over or not), `DevicesAssumption` (there are finitely many buffers, at least one, and room for a node in a graph), `ConstantsOK` of `MCAllocators` (finitely many
threads; requests are positive, sizes, limits and bounds natural numbers), and the lengths of the ring's messages in `MCRing`. The graphs,
streams, clients, tasks, loads and messages are arbitrary.

**`WorkersProofs`** has the theorems about threads that run other threads' tasks. Those about the stream
thread take any set of clients and tasks. The inductive invariant is
`IInv == TypeOK /\ NoLostWakeup /\ Flow /\ Exited`. `Flow` says that the accepted tasks are
those that ran, then the one in the worker's hands, then the queue; the refinement and
`ExitsDrained` need it, since without it nothing relates what was accepted to what ran.
`Exited` says that a worker that left has an empty queue, stop set and no task in hand, and that
the destructor is done only after that. From the invariant follow the safety properties of the
runs and `ImplementsExecutorSafety` (initial states map to initial states, every step to
a step of `SerialExecutor` or a stutter).

The theorem about loads takes any loads and sizes of the two pools, and proves `LoadsHonest`: a load that
reported no error left the bytes of the file in every part of its buffer. The invariant `FilesInv` says who
holds each batch (nobody yet, the queue, a thread, or it has ended), that no
batch and no read is held twice, and that the read on the stream waits for every batch it has asked for
before it ends.

**`AsyncEvalProofs`** and **`AsyncEvalOrderProofs`** take any set of graphs, any number of streams, calls and outputs, and
any set of arrays that throw; where nothing may throw, the theorem says so (`Faulty = {}`). Five of their
theorems hold whatever throws and rest on four inductive invariants.

- `FenceInv`, for `FencesAdvanceHolds` and `FenceWaitsCoveredHolds`. That a fence's value only grows
  is not inductive: the value is assigned from the task at the head of a queue, so one has to know
  what may be queued. Pending updates belong to the stream of their fence
  and exceed its value (`Updates`), those of one fence stand in increasing order (`Ordered`), and the
  count `eval_impl` keeps is at least the value and is *covered*: reached already or by an update in
  the queue (`Counts`). A wait is issued for the count of that moment, so it is covered when it is
  queued (`Waits`), and `FenceStaysCovered` shows that no step uncovers anything: an update
  leaves its queue only by raising the fence. `Closing` (a closure waiting to be destroyed is one
  that only holds buffers) makes sure that no other task leaves a queue without having run.
- `TapeOrdered`, for `FenceExistsHolds`: while the tape is consumed, an input that needs a fence
  either has a published producer or one earlier on the tape, the entry in hand included. It
  starts from `IsTape`, which `tape_builder` checks of the graph walk, and at `Publish` uses that outputs of one
  primitive are siblings of each other and share its stream (`IsGraph`).
- `Counted /\ Limited`, for `BacklogBoundedHolds`. The counter lives apart from what it counts, so
  `Counted` says that it is the number of counted tasks that are queued or running, and that a task the
  main thread has not enqueued is not counted twice. `Limited` says how the limit is kept from
  the throttle to the entry that raises the counter again: between the two the main thread has
  waited until the counter is below the value it saw, or seen that at most one task is active.
- `PlacedInv /\ Memory`, for `TypeOKHolds`. Nearly all of `TypeOK` is shallow; that `buf` stays within the buffers is
  not, for `eval_cpu` takes a free buffer without asking whether there is one. There is (`EnoughFree`): a buffer that
  is not free is shared by an array that is live or held by a task, every such array has been *placed*, and the outputs about to be placed
  are not, so that free buffers are at least as many. What is live is defined by a path from a handle; `Placement` and
  `Schedule` say how the arrays that are placed and the tape that is left fit together.

The other six, all but the first of them in `AsyncEvalOrderProofs`, are about runs in which nothing throws. The
hypothesis is needed: an exception leaves events behind that nobody signals, which is what
the run `async_eval_hangs` shows, and arrays that count as available though their computation is pending, which
is `async_eval_throws`; it breaks `PendingBuffersOwned` too (section 3).

`EventWaitsCoveredHolds`: The inductive invariant is `EventInv`. An array's event is that of its
stream, and its signal has run, is queued, or is what the running `eval_impl` ends with because the
stream is among its open streams (`EventsGood`). The delicate case is the last one: a
wait issued in the middle of an evaluation must not be for the evaluation's own event, which is
not queued yet. It is not, because such an input is on another stream and so has a fence
(`CrossFenced`), which in turn needs that the outputs of one primitive are unscheduled together
(`Siblings`). `Callers` adds that the Synchronizer opens its stream before the tape runs
out, so that `eval` is woken.

`NoDeadlockHolds` (the property writes out the guards of the actions, since ENABLED is beyond the prover): that every
wait is covered does not exclude a circle, in which each of two streams waits for an update
behind the other's wait. The invariant `Ranked` excludes it: there is a ranking of all queued tasks that never falls along a
queue and gives what a wait is waiting for a lower rank than the wait. The order in which the tasks were enqueued is one, which
is why the model needs no history: a step that enqueues gives its tasks a rank above all others, and it never
enqueues a wait together with what ends waits (`GrowthRanked`, `NewTasks`). Of the streams that have tasks, the one whose head has the
lowest rank can run (`LowestRuns`), and whatever the user's thread is blocked on, some stream has a task (`BlockedOnTask`; for
`wait_for_one` that needs `Counted`, and `WaitsForOthers`, that it counts on more than one active task).

`ReadsSettledHolds`, `PendingBuffersOwnedHolds` and `AvailableMeansComputedHolds` have one invariant, `Safe`. What makes them hard is that
they speak of a task at the head of a queue, while the reason it finds what it needs is in what the streams may and may not have
run by then. So the invariant speaks of *cuts*: a cut says how many tasks of each queue have
run at some later time, and is `Consistent` if no wait has ended before what it waits for. `Prior(w, v)` says that every
consistent cut that has computed v has computed w; `Sees(s, v)`, that whatever is enqueued on stream s from now on runs behind v;
`Guards(k, v)`, that whoever waits for a fence or an event, or for a buffer to be released, does. Steps of the workers shrink the queues
and cannot break any of these (`CutBack`), so that only enqueuing has to be looked at.

- `Base` has the invariants above and what they leave open: events are signaled once (`SignalsOnce`), no value is computed twice
  (`Once`), a computation is that of an array with the task that holds its buffers behind it (`Tasks`).
- `Behind` orders values. What is behind an array is behind its value (`AfterPlaced`): more work on its stream, a wait for its fence once it has
  been published, a wait for its event. The entry in hand has seen the inputs it has looked at (`Waited`),
  and will see the others (`Fed`); an array without an event has its value, or the running `eval` will wait for it (`Quiet`). A
  computation comes after those of its inputs (`ReadsPrior`).
- `Buffered` says what that order protects. Of all that is or will be computed in the buffer of a live array, its value comes last (`LiveCurrent`); between a
  computation and the last that reads its value nothing else is computed there (`ReadsKept`); a buffer with a pending computation is held by a
  task behind it, or belongs to an array an entry of the tape has still to consume (`Owned`), which is what `unsafe_weak_copy` relies
  on. Donation meets these at `EvalArray`: a donor has one reference, so nothing but the entry in hand will ever refer to it
  (`DonorsDoomed`), and who read it did so before. A fresh buffer is free, so no task holds it, and what was computed in it
  is behind.

`ImplementsLazyEvalSafety`: initial states map to initial states of `LazyEval`, and every step to a step of it or a stutter. A call of
`eval_impl` asks for what its tape lists, which is closed under what a value depends on (`EvalAsks`); a stream that computes an entry
computes values that were asked for, had not been computed, and whose dependencies had (`StreamComputes`, from `ReadsPrior` and `ComputedInv`). That every
value asked for is computed in the end is liveness and stays with `async_eval_live`.

**`TapeProofs`** takes any graph, any outputs, any set of arrays evaluated before and any width of the
search. `UsesFoundHolds`, `TapeIsOrderedHolds` and `FencesExactHolds` say that the two passes of
`eval_impl` count the uses of every group of siblings right, end in a tape that satisfies `IsTape`, and mark as
needing a fence exactly what another stream reads. The inductive invariant is `TapeInv`, one half
for each pass.

- `FirstPass`: the stack of the depth-first walk holds no group twice, what has been seen is reached
  from the outputs, and the degree of a group is the number of *met* uses: a use is a pair of a
  group and a place in the list of its inputs, and the stack holds back those it has not come to. The walk counts per primitive and cuts at siblings, the reference
  counts uses; `VisitMeets` shows for each visit that the two rise together. At the end
  `AllMet` gives that every use of what is reached has been met.
- `SecondPass`: the degree of a group is the number of *open* uses, by readers not on the tape yet; a group enters the
  queue when none is open, and nothing is entered twice (`Listing`, `Expanding`, `Tallied`). That the
  tape is complete when the queue runs empty needs that the graph has no cycle:
  `NoAscent` says that in whatever is left out some group would be read by no other one in it. `ReachedFacts` gives
  what is reached as the least set that holds the outputs and is closed under inputs.

**`RingProofs`** takes any messages and replies and any capacity of the connection. `PromisesHonestHolds`: when a
promise of a send or receive is fulfilled, its bytes have moved, whatever errors there were and however the lists
grew while the worker was outside the lock. The inductive invariant is `RingInv`: the tasks in a list are the last
ones enqueued, in order, what is left of them and what has moved add up to the messages enqueued so far, and a flag
says that the task in front has no byte left. Where a message ends is the sum of the lengths up to it, a
recursive function, whose equations come from `Induction`. `WakeupsLostOnlyByDestructorHolds` has an
invariant of its own, `SleepInv`: whoever sleeps over work has a client that is about to notify, while the
destructor sets its flag without the mutex, so that its notification can be lost, and only its own.

**`AllocatorProofs`** takes any number of threads, any requests, limits and numbers the driver may give to buffers, any
page size, word size and number of blocks in the CUDA pool. It proves the allocators' invariants of the run `allocators`,
`CacheTrimmed`, and `AllocatesUnderLimit` under the hypothesis `BytesFit`: what a Metal `malloc` requires is less than `size_t` counts
to, and what a CUDA cache holds less than half of that, as both code paths take differences of `size_t` and one reads them as `int64_t`. Every state
of the run satisfies it. On CUDA `active_memory_` drifts and may have wrapped below zero, so that the property there is about the
sign of the difference to the limit, as the code tests it, and the proof is arithmetic modulo `WordSize`: to take away at least a positive
difference and less than half the word leaves none that is positive (`NoMorePositive`). The argument has three layers.

- The cache. `WellFormed` says that there is *one* sequence that both link tables spell, forwards and backwards, with
  the buffers of the multimap; the run's `CacheConsistent`, which walks the links from both ends, follows (`WalkIs`). Without that
  sequence nothing is inductive: to know that `remove_from_list` leaves a list one has to know where
  in it the holder stands, and the four cases of the code are four places of it (`UnlinkKeeps`). Every operation keeps
  `WellFormed`: `LinkKeeps`, `TakeOutKeeps`, `RecycleKeeps`, and `ReleaseKeeps`, whose loop is a recursive function with an
  invariant over its rounds (`RoundKeeps`).
- The memory under the lock. `MetalMemoryOK` and `CudaMemoryOK` are about a memory, the set a caller holds and
  the set in the threads' hands: the three sets (held, cached, in hand) are disjoint and make up
  what the device has given out; the counters are their sums; the residency set is what is device memory in them; blocks are in use or on
  the stack, which holds none twice. Each helper of the code (`Counted`, `Released`, `Erase`,
  `Resized`, `CudaFree`) has a lemma that says how it moves the sets.
- The threads. `MetalThreads` and `CudaThreads` say that no two threads have the same buffer in hand, which is
  what the window between the two locked sections puts at risk. `MetalBounded` counts the threads in the window of `malloc`
  with the resources, since a bound on the resources alone is not kept by the step that adds one: each of the other
  threads may have passed the test already.

Without a GPU there is no lock, so that the counter can be behind what lives in both directions: `CommonSums` says that the active bytes
and those of the calls about to be counted are what lives, what failed allocations left behind and what
is about to be discounted. A sum over the threads is a fold of the community modules, and that it changes by one summand
when one thread moves is `SumMoves`, from the lemmas on sums in `Induction`.

**`DevicesProofs`** takes any buffers, kernels and batches. `HandlersAfterKernels`, about the CUDA worker, holds if `NodeCountFits`:
no graph can come to more nodes than a `char` counts. The hypothesis is needed, as the run `cuda_node_count` shows. The
inductive invariant is `HandlersInv`: graphs in flight end in the order of their kernels, a graph
that counts no node has no kernel to launch (`Launches`), and a batch not taken yet has its signal before or behind it and waits
for no later kernel than that signal does (`Signals`). What the worker takes is a recursive function of the batches (`TakenFacts`).

`ConflictsOrdered` holds on both devices if `NodeCountFits` and no array of indices is donated (`~DonateIndices`). The run
`metal_donated_offset` shows that the second hypothesis is needed. The first is too: where the count wraps, a commit
releases the temporaries of kernels it has not launched, and a later kernel may write what they read.

- Metal, `MetalOrder`. `Coded` is about the kernels and the tables of the encoders: kernels stand in the
  order of their encoders (`Homes`); the open encoder knows what its kernels read and wrote, and what they wrote
  since the last barrier (`Current`); a live buffer leads, through the table of outputs, to everyone who changed it (`Tracked`); and two
  kernels that conflict are ordered by a phase, by a fence the open encoder will wait for, or by
  the fences of encoders that have ended (`Sequenced`). That `end_encoding` takes temporaries out of what it waits for
  and what it publishes is what makes the rest necessary: `Kept` says that what a kernel uses is live or kept by a completion handler
  behind it, so that a temporary cannot be a buffer that an earlier encoder still
  uses, and `Booked` that command buffers end in order, with all that their encoders wait for. Within one operation
  these hold with exceptions (the output not yet live, the inputs not yet kept): the further parameters of the
  conjuncts name them, and the lemmas on each call of the encoder say how it moves them.
- CUDA, `CudaOrder`: from whoever wrote a buffer a path leads to the node that stands for it in the table, also through the empty
  node that joins a concurrent context; and what the nodes of a graph only read is kept by the temporaries until the commit.
  The encoder has no edges from readers to a later writer, so that order after a read rests on the second part alone.

The model compares with recursive functions over the encoders and the nodes (what is waited for directly or
indirectly). The proofs work with the least set closed under it, `Reaching`, which needs no induction to extend
(`ReachingAdd`, `ReachingDrop`). `ClosureExists` of `Induction` shows that the equation of the recursive function has a
solution, and `ClosureReaches` that every solution contains what is reached, whichever one the `CHOOSE` behind the definition takes.

**`Induction`** makes up for the provers' inability to instantiate an induction theorem that takes an operator.
`NatSetInduction` and its like quantify over a *set* of numbers in place of a predicate, and `RecursionExists` shows
that a function on `0 .. n` given by its first value and a step exists, so that the `CHOOSE` behind
a recursive definition can be unfolded. `SumExists` and `SumAdds` do the same for sums over a finite set, which may be
taken in any order. `Reaching` and its lemmas are about paths in a graph. They rest on nothing but the library's facts about finite sets.

Only model-checked, on the instances of section 3:

- `CollectiveCorrect` and `SendsStable` of the ring, and all of `ThreadPool` and `RingSetup`;
- `CompiledOutput`, `CompiledParents`, `VmapIsExact` and `GradientsAreExact`: they compare with
  RECURSIVE operators, of which the prover knows nothing;
- liveness (`CallsReturn`, `ImplementsLazyEval`, `DestructorReturns`, `WorkersReturn`, `WalksEnd`, `RingReturns`, and that of `ImplementsExecutor`), since fairness and `ENABLED` are beyond the prover.

## 5. Not modelled, and the plan

Left out of modules that exist: tracers, GPU streams, several user threads, arrays of
different sizes, failure of an allocation and primitives that run without a dispatch of
their own in `AsyncEval`; the destruction of the scheduler; several streams of one device, the counts of scheduler
tasks and libraries in the encoders; graph executables and their cache in `CudaCommands`; the split of one collective over
several pairs of sockets, `send` and `recv`; entries that are shapeless and several threads in `Compile`; data types, nested
transformations, the tracing flags, `custom_function` and `checkpoint` in `Transforms`; the primitives `PrimitiveRules` does not list.
`PROJECT.json` names what is missing under each component.

Not modelled at all: GPU kernels, floating point, file formats, bindings, MPI, NCCL and CUDA's events and fences, which
are calls of libraries or of the driver.

Plan, most important first:

1. `Scheduler` with several user threads over `SerialExecutor`: the counter, `wait_for_one`, `synchronize`.
2. Nested transformations and the tracing flags, `custom_function`; the remaining primitives.
3. `new_stream` growing vectors that `enqueue` of another thread reads (scheduler.h:82).
4. The node binding's streaming readers.

Theorems still wanted: the same without exceptions excluded, where the code allows it (no circle of fences, after a
synchronous evaluation has failed); `CollectiveCorrect` and `SendsStable` of the ring; `NoLostWakeup` of `ThreadPool`.
