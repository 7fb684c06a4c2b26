---------------------------- MODULE MetalCommands ----------------------------
(***************************************************************************)
(* One Metal stream (backend/metal/device.cpp, eval.cpp, fence.cpp).       *)
(*                                                                         *)
(* The hazard tracking of Metal is off: kernels of an encoder run          *)
(* concurrently but for the barriers CommandEncoder inserts, encoders but  *)
(* for the fences Device::end_encoding waits on, and a buffer is reused    *)
(* as soon as nothing holds it.  The user's thread encodes, the GPU        *)
(* finishes command buffers, and a thread of Metal runs their completion   *)
(* handlers one by one.                                                    *)
(*                                                                         *)
(* Arrays are their buffers.  An operation is a short list of kernels:     *)
(*   compute      one kernel, its output perhaps in a donated input        *)
(*   copy         an input copied to a temporary first (utils.h)           *)
(*   concatenate  one kernel for each input, in a concurrent context       *)
(*   offset       compute_dynamic_offset, then the slice that uses it      *)
(*   donated      the same, the offset in the buffer of the indices        *)
(***************************************************************************)
EXTENDS Integers, Sequences, FiniteSets, SequencesExt

CONSTANTS
  Buffers,      \* what the allocator hands out
  DonateIndices, \* whether compute_dynamic_offset may donate its input
  MaxKernels    \* bound: kernels of the program

VARIABLES
  live,         \* buffers of arrays the graph or the user still refers to
  stream,       \* DeviceStream, its encoder and open command buffer
  flying,       \* committed command buffers, oldest first
  handlers,     \* completion handlers due
  kernels       \* encoded kernels that have not finished, by their number

vars == <<live, stream, flying, handlers, kernels>>

\* Encoders are numbered; the number is also the fence's.
NoEncoder ==
  [id |-> 0, inputs |-> {}, outputs |-> {}, prev |-> {}, next |-> {},
   concurrent |-> {}, phase |-> 0, needsBarrier |-> FALSE]

Init ==
  /\ live = {CHOOSE b \in Buffers : TRUE}
  /\ stream = [encoder |-> NoEncoder, temporaries |-> {},
               outputs |-> [b \in Buffers |-> 0], handlers |-> <<>>,
               encoders |-> {}, waits |-> <<>>, issued |-> 0]
  /\ flying = <<>>
  /\ handlers = <<>>
  /\ kernels = [n \in {} |-> NoEncoder]

Frees(hs) == UNION {hs[n].frees : n \in DOMAIN hs}

\* Buffers that completion handlers, due or to be added, hold a reference to,
\* and those that operations of another stream hold until the fence lets them.
Retained ==
  (UNION {kernels[n].signals : n \in DOMAIN kernels})
    \cup stream.temporaries \cup Frees(stream.handlers) \cup Frees(handlers)
    \cup UNION {Frees(flying[c].handlers) : c \in DOMAIN flying}

Free == Buffers \ (live \cup Retained)

Donatable(b) == b \in live \ Retained

-----------------------------------------------------------------------------
(* CommandEncoder: encoders to encoders *)

SetInputs(e, B) ==
  [e EXCEPT !.inputs = @ \cup B,
            !.needsBarrier = @ \/ B \cap e.prev # {}]

RegisterOutputs(e, B, concurrent) ==
  [e EXCEPT !.outputs = @ \cup B,
            !.concurrent = IF concurrent THEN @ \cup B ELSE @,
            !.next = IF concurrent THEN @ ELSE @ \cup B]

SetOutputs(e, B, concurrent) == RegisterOutputs(SetInputs(e, B), B, concurrent)

Barrier(e) == [e EXCEPT !.phase = @ + 1]

MaybeInsertBarrier(e) ==
  IF e.needsBarrier
  THEN [Barrier(e) EXCEPT !.needsBarrier = FALSE, !.prev = e.next, !.next = {}]
  ELSE [e EXCEPT !.prev = @ \cup e.next, !.next = {}]

EndConcurrent(e) == [e EXCEPT !.prev = @ \cup e.concurrent, !.concurrent = {}]

\* A new fence: numbers nothing refers to any more are used again.
NewFence(s) ==
  LET fences == DOMAIN s.waits \cup Range(s.outputs)
                  \cup {handlers[n].fence : n \in DOMAIN handlers}
  IN  Min((1 .. Cardinality(fences) + 1) \ fences)

GetCommandEncoder(s) ==
  IF s.encoder.id # 0 THEN s
  ELSE [s EXCEPT !.encoder = [NoEncoder EXCEPT !.id = NewFence(s)]]

\* Kernel k is the n-th that is encoded.
Encode(ks, n, k) == [i \in DOMAIN ks \cup {n} |-> IF i = n THEN k ELSE ks[i]]

\* Set the arrays of a kernel and dispatch it: the stream and the kernels
\* encoded so far.  context numbers the concurrent context, 0 outside one.
Dispatch(run, kernel, context) ==
  LET s == GetCommandEncoder(run.stream)
      e == MaybeInsertBarrier(SetOutputs(SetInputs(s.encoder, kernel.reads),
                                         kernel.writes, context # 0))
  IN  [stream  |-> [s EXCEPT !.encoder = e, !.issued = @ + 1],
       kernels |-> Encode(run.kernels, s.issued + 1,
                          [reads |-> kernel.reads, writes |-> kernel.writes,
                           opens |-> {}, signals |-> {}, context |-> context,
                           encoder |-> e.id, phase |-> e.phase])]

-----------------------------------------------------------------------------
(* Device *)

\* Waiting on a fence that was updated already is not waiting.
EndEncoding(s) ==
  LET e == s.encoder
      ins == e.inputs \ s.temporaries
      outs == e.outputs \ s.temporaries
  IN  IF e.id = 0 THEN s
      ELSE [s EXCEPT
              !.waits = [x \in DOMAIN @ \cup {e.id} |->
                           IF x = e.id THEN {s.outputs[b] : b \in ins} \cap DOMAIN @
                           ELSE @[x]],
              !.outputs = [b \in Buffers |-> IF b \in outs THEN e.id ELSE @[b]],
              !.handlers = Append(@, [frees |-> s.temporaries, fence |-> e.id,
                                      outputs |-> outs]),
              !.encoders = @ \cup {e.id},
              !.temporaries = {},
              !.encoder = NoEncoder]

\* Handlers in a row that only keep buffers alive count as one.
AddCompletedHandler(s, B) ==
  LET n == Len(s.handlers)
  IN  IF B = {} THEN s
      ELSE IF n > 0 /\ s.handlers[n].fence = 0
           THEN [s EXCEPT !.handlers[n].frees = @ \cup B]
           ELSE [s EXCEPT !.handlers =
                   Append(@, [frees |-> B, fence |-> 0, outputs |-> {}])]

\* commit_command_buffer: what stays of the stream, what flies.
Emptied(s) ==
  [s EXCEPT !.handlers = <<>>, !.encoders = {}]
Committed(s) == Append(flying, [handlers |-> s.handlers, encoders |-> s.encoders])

Commit(s) == stream' = Emptied(s) /\ flying' = Committed(s)

-----------------------------------------------------------------------------
(* The operations a program is made of *)

\* Which free buffer malloc returns: of those nothing tells apart, the least.
Fresh(b) ==
  LET past(c) == <<stream.outputs[c], c \in stream.encoder.inputs,
                   c \in stream.encoder.outputs, c \in stream.encoder.prev,
                   c \in stream.encoder.next>>
  IN  b \in Free /\ \A c \in Free : c < b => past(c) # past(b)

Kernel(r, w) == [reads |-> r, writes |-> w]

\* Inputs and siblings, but for the output when it was donated to.
KeptAlive(ins, out) == ins \ {out}

\* The end of gpu::eval: keep B alive, and commit when the command buffer has
\* too many operations or too large arrays, which depends on both.
Finish(s, B, needsCommit) ==
  IF needsCommit
  THEN Commit(AddCompletedHandler(EndEncoding(s), B))
  ELSE stream' = AddCompletedHandler(s, B) /\ UNCHANGED flying

\* gpu::eval of an operation that encodes plan and has temporaries tmps;
\* afterwards the last array on some of the inputs may go away.
Eval(plan, context, tmps, ins, out) ==
  LET run == FoldLeft(LAMBDA r, k : Dispatch(r, k, context),
                      [stream |-> stream, kernels |-> kernels], plan)
      encoded == [run.stream EXCEPT !.encoder = EndConcurrent(@),
                                    !.temporaries = @ \cup tmps]
  IN  /\ kernels' = run.kernels
      /\ \E gone \in SUBSET (ins \ {out}) : live' = (live \ gone) \cup {out}
      /\ \E needsCommit \in BOOLEAN :
           Finish(encoded, KeptAlive(ins, out), needsCommit)
      /\ UNCHANGED handlers

Room(n) == stream.issued + n <= MaxKernels

\* An operation of one kernel, its output perhaps in an input's buffer.
Compute(ins, out) ==
  /\ Room(1)
  /\ Fresh(out) \/ (out \in ins /\ Donatable(out))
  /\ Eval(<<Kernel(ins, {out})>>, 0, {}, ins, out)

\* One that wants x contiguous and copies it first.
ComputeOnCopy(x, others, tmp, out) ==
  /\ Room(2) /\ Fresh(tmp) /\ tmp # out
  /\ Fresh(out) \/ (out \in others /\ Donatable(out))
  /\ Eval(<<Kernel({x}, {tmp}), Kernel(others \cup {tmp}, {out})>>, 0, {tmp},
          others \cup {x}, out)

\* One kernel for each input, in a concurrent context that is numbered.
Concatenate(ins, out) ==
  /\ Room(Cardinality(ins)) /\ Fresh(out)
  /\ Eval(SetToSeq({Kernel({b}, {out}) : b \in ins}),
          Max({kernels[n].context : n \in DOMAIN kernels} \cup {0}) + 1,
          {}, ins, out)

\* DynamicSlice: compute_dynamic_offset, in a new temporary or in the buffer
\* of the indices, then a copy that uses the offset.
DynamicSlice(x, indices, offset, out) ==
  /\ Room(2) /\ x # indices /\ offset # out /\ Fresh(out)
  /\ Fresh(offset) \/ (DonateIndices /\ offset = indices /\ Donatable(indices))
  /\ Eval(<<Kernel({indices}, {offset}), Kernel({x, offset}, {out})>>, 0,
          {offset}, {x, indices}, out)

\* The outputs of an evaluation are the inputs of a Synchronizer, which has no
\* kernel but is evaluated like any primitive: so an output can go away.
Synchronizer(out) ==
  /\ out \in live \ Retained
  /\ live' = live \ {out}
  /\ Finish(stream, {out}, FALSE)
  /\ UNCHANGED <<handlers, kernels>>

\* Fence::wait in its fast form, before the first use of x, which another
\* stream makes: the kernel that spins counts as the writer of x.
FenceWait(x) ==
  LET s == GetCommandEncoder(stream)
      e == MaybeInsertBarrier(RegisterOutputs(s.encoder, {x}, FALSE))
  IN  /\ Fresh(x) /\ Room(1)
      /\ live' = live \cup {x}
      /\ stream' = [s EXCEPT !.encoder = e, !.issued = @ + 1]
      /\ kernels' = Encode(kernels, s.issued + 1,
                           [reads |-> {}, writes |-> {}, opens |-> {x}, signals |-> {},
                            context |-> 0, encoder |-> e.id, phase |-> e.phase])
      /\ UNCHANGED <<flying, handlers>>

\* Fence::update in its fast form: make x visible, a barrier, set the value.
\* The last kernel reads nothing of x but tells the other stream it is there.
FenceUpdate(x) ==
  LET visible == Dispatch([stream |-> stream, kernels |-> kernels],
                          Kernel({x}, {}), 0)
      s == [visible.stream EXCEPT !.encoder = MaybeInsertBarrier(Barrier(@)),
                                  !.issued = @ + 1]
  IN  /\ x \in live /\ Room(2)
      /\ stream' = s
      /\ kernels' = Encode(visible.kernels, s.issued,
                           [reads |-> {x}, writes |-> {}, opens |-> {},
                            signals |-> {x}, context |-> 0,
                            encoder |-> s.encoder.id, phase |-> s.encoder.phase])
      /\ UNCHANGED <<live, flying, handlers>>

\* Events and slow fences are signalled and awaited between encoders.
EventWaitOrSignal ==
  /\ stream.encoder.id # 0
  /\ stream' = EndEncoding(stream)
  /\ UNCHANGED <<live, flying, handlers, kernels>>

\* gpu::finalize; gpu::synchronize then waits for the GPU.
Finalize ==
  /\ stream.encoder.id # 0 \/ stream.handlers # <<>>
  /\ Commit(EndEncoding(stream))
  /\ UNCHANGED <<live, handlers, kernels>>

-----------------------------------------------------------------------------
(* The GPU and its completion handlers *)

\* A queue starts command buffers in order; encoders wait for their fences.
Complete ==
  /\ flying # <<>>
  /\ LET done == Head(flying).encoders
         open == DOMAIN stream.waits \ done
         left == {n \in DOMAIN kernels : kernels[n].encoder \notin done}
     IN  /\ kernels' = [n \in left |-> kernels[n]]
         /\ stream' = [stream EXCEPT !.waits = [e \in open |-> @[e] \ done]]
  /\ handlers' = handlers \o Head(flying).handlers
  /\ flying' = Tail(flying)
  /\ UNCHANGED live

\* Mutant: also those a later encoder has written since.
ErasedAll(outputs, h) ==
  [b \in Buffers |-> IF b \in h.outputs THEN 0 ELSE outputs[b]]

\* The handler end_encoding added forgets its outputs, but for those a later
\* encoder has written since.
Erased(outputs, h) ==
  [b \in Buffers |->
     IF b \in h.outputs /\ outputs[b] = h.fence THEN 0 ELSE outputs[b]]

Handler ==
  /\ handlers # <<>>
  /\ handlers' = Tail(handlers)
  /\ stream' = [stream EXCEPT !.outputs = Erased(@, Head(handlers))]
  /\ UNCHANGED <<live, flying, kernels>>

Next ==
  \/ \E ins \in (SUBSET live) \ {{}}, out \in Buffers :
       Compute(ins, out) \/ Concatenate(ins, out)
  \/ \E x \in live, others \in SUBSET live, tmp, out \in Buffers :
       x \notin others /\ ComputeOnCopy(x, others, tmp, out)
  \/ \E x, indices \in live, offset, out \in Buffers :
       DynamicSlice(x, indices, offset, out)
  \/ \E b \in Buffers : FenceWait(b) \/ FenceUpdate(b) \/ Synchronizer(b)
  \/ EventWaitOrSignal
  \/ Finalize
  \/ Complete
  \/ Handler

Spec == Init /\ [][Next]_vars

-----------------------------------------------------------------------------
(* Properties *)

\* The encoders an ended encoder runs after.
Fenced ==
  LET after[e \in DOMAIN stream.waits] ==
        stream.waits[e] \cup UNION {after[f] : f \in stream.waits[e]}
  IN  after

Conflict(k, l) ==
  /\ k.context = 0 \/ k.context # l.context
  /\ \/ (k.writes \cup k.opens) \cap (l.reads \cup l.writes) # {}
     \/ k.reads \cap l.writes # {}

Before(k, l, after) ==
  \/ k.encoder = l.encoder /\ k.phase < l.phase
  \/ k.encoder \in after[l.encoder]

\* Of two kernels that have not finished, the one encoded first runs first
\* when one writes what the other uses.
Ordered ==
  LET after == Fenced
  IN  \A i, j \in DOMAIN kernels :
        /\ i < j /\ Conflict(kernels[i], kernels[j])
        /\ kernels[i].encoder = kernels[j].encoder \/ kernels[j].encoder # stream.encoder.id
        => Before(kernels[i], kernels[j], after)
=============================================================================
