------------------------------- MODULE Compile ------------------------------
(***************************************************************************)
(* Calls of a compiled function (detail::compile and CompilerCache in      *)
(* mlx/compile.cpp).  The first call with a key traces the function, lists *)
(* and rewrites the graph, and keeps it in a cache entry; every call ends  *)
(* in a replay of an entry.  The rewriting itself is CompileGraph.         *)
(*                                                                         *)
(* One thread calls.  The key stands for what find compares besides the    *)
(* number of inputs: stream, shapeless, constants, shapes and types.       *)
(***************************************************************************)
EXTENDS CompileGraph

CONSTANTS
  Programs,   \* what a function traces to: its heap h and outputs outs
  Modes,      \* of CompileMode: "enabled", "no_simplify", "no_fuse"
  Keys,
  MaxCalls, MaxThrows

VARIABLES
  program, mode,   \* the function and compile_mode; never change
  cache,           \* the entries of the function
  pc,              \* "idle", or the next pass of the call that compiles
  at,              \* the entry of the call
  fusing,          \* compile_fuse: the next place and what FuseEntry hands on
  calls, throws,
  result           \* of the last call

vars == <<program, mode, cache, pc, at, fusing, calls, throws, result>>

Inputs == SelectSeq(Interval(1, Len(program.h.op)), LAMBDA a : program.h.op[a] = "input")
NoResult == [kind |-> "none"]
Returned(values) == [kind |-> "returned", values |-> values]
Threw(error) == [kind |-> "threw", error |-> error]
NotFusing == [i |-> 0]

Start ==
  /\ cache = <<>> /\ pc = "idle" /\ at = 0 /\ fusing = NotFusing
  /\ calls = 0 /\ throws = 0 /\ result = NoResult

Init == program \in Programs /\ mode \in Modes /\ Start

Entry == cache[at]
NewEntry(key) == [key |-> key, inputs |-> <<>>, outs |-> <<>>, tape |-> <<>>,
                  h |-> [op |-> <<>>], complete |-> FALSE]

\* An entry whose trace threw has no inputs to compare with.
Matches(entry, key) == entry.key = key /\ Len(entry.inputs) = Len(Inputs)

Replayed(entry) ==
  LET r == Replay(entry.h, entry.tape, entry.inputs, entry.outs)
  IN  IF r.ok THEN Returned(r.values) ELSE Threw("at")

CanCall == pc = "idle" /\ calls < MaxCalls
CallStarts == calls' = calls + 1 /\ UNCHANGED <<program, mode, throws>>

\* A call with tracers runs the function itself.
CallTracing ==
  /\ CanCall /\ CallStarts
  /\ result' = Returned(FunctionValues(program.h, program.outs))
  /\ UNCHANGED <<cache, pc, at, fusing>>

\* An entry matches: it is not empty, whatever became of it, and is replayed.
CallReplays(key) ==
  /\ CanCall /\ CallStarts
  /\ \E k \in DOMAIN cache :
       /\ Matches(cache[k], key)
       /\ \A j \in 1 .. k - 1 : ~Matches(cache[j], key)
       /\ at' = k
       /\ result' = Replayed(cache[k])
  /\ UNCHANGED <<cache, pc, fusing>>

\* None matches: a new entry, no longer empty as soon as the call goes on.
CallCompiles(key) ==
  /\ CanCall /\ CallStarts
  /\ \A k \in DOMAIN cache : ~Matches(cache[k], key)
  /\ cache' = Append(cache, NewEntry(key))
  /\ at' = Len(cache) + 1
  /\ pc' = "trace" /\ result' = NoResult
  /\ UNCHANGED fusing

-----------------------------------------------------------------------------
(* The passes over the entry of the call *)

Update(fields) == cache' = [cache EXCEPT ![at] = fields @@ @]
Goto(next) == pc' = next /\ UNCHANGED <<program, mode, at, calls, throws, result>>
EndWith(r) == /\ result' = r /\ pc' = "idle"
              /\ UNCHANGED <<program, mode, at, calls>>

Trace ==
  /\ pc = "trace"
  /\ Update([h |-> program.h, inputs |-> Inputs, outs |-> program.outs])
  /\ Goto("walk")
  /\ UNCHANGED fusing

\* The function throws: the entry stays as it is.
FunctionThrows ==
  /\ pc = "trace" /\ throws < MaxThrows
  /\ throws' = throws + 1
  /\ EndWith(Threw("function"))
  /\ UNCHANGED <<cache, fusing>>

Simplified == IF mode = "no_simplify" THEN "fuse" ELSE "scalars"

\* compile_dfs; it throws when it meets an input of the call itself.
WalkTape ==
  /\ pc = "walk"
  /\ LET w == WalkGraph(Entry.h, Entry.outs)
     IN  IF \E a \in ToSet(w.tape) : w.h.op[a] = "outside"
           THEN /\ EndWith(Threw("uncaptured"))
                /\ UNCHANGED <<cache, throws>>
           ELSE /\ Update([h |-> w.h, tape |-> w.tape])
                /\ Goto(Simplified)
  /\ UNCHANGED fusing

SimplifyScalars ==
  /\ pc = "scalars"
  /\ Update(MergeScalars(Entry.h, Entry.tape))
  /\ Goto("noops")
  /\ UNCHANGED fusing

SimplifyNoops ==
  /\ pc = "noops"
  /\ Update(RemoveNoops(Entry.h, Entry.tape, Entry.outs))
  /\ Goto("merge")
  /\ UNCHANGED fusing

\* The three passes, over the order of the tape before them.
SimplifyUsers ==
  /\ pc = "merge"
  /\ LET order == [a \in ToSet(Entry.tape) |-> (CHOOSE i \in DOMAIN Entry.tape : Entry.tape[i] = a) - 1]
         pass(g, k) == MergePass(g.h, g.tape, order, ToSet(Entry.outs))
     IN  Update(FoldLeft(pass, [h |-> Entry.h, tape |-> Entry.tape], <<1, 2, 3>>))
  /\ Goto("fuse")
  /\ UNCHANGED fusing

StartFuse ==
  /\ pc = "fuse" /\ mode # "no_fuse"
  /\ fusing' = [i |-> Len(Entry.tape), h |-> Entry.h, tape |-> <<>>, gone |-> {},
                out |-> [o \in ToSet(Entry.outs) |-> o], sameShape |-> TRUE]
  /\ Goto("fusing")
  /\ UNCHANGED cache

Fuse ==
  /\ pc = "fusing" /\ fusing.i > 0
  /\ LET f == FuseEntry(fusing, Entry.tape[fusing.i])
     IN  IF f.sameShape
           THEN fusing' = [f EXCEPT !.i = @ - 1] /\ Goto("fusing")
           ELSE /\ fusing' = NotFusing
                /\ EndWith(Threw("shapes")) /\ UNCHANGED throws
  /\ UNCHANGED cache

EndFuse ==
  /\ pc = "fusing" /\ fusing.i = 0
  /\ Update([h |-> fusing.h, tape |-> fusing.tape,
             outs |-> [k \in DOMAIN Entry.outs |-> fusing.out[Entry.outs[k]]]])
  /\ fusing' = NotFusing
  /\ Goto("replay")

SkipFuse == pc = "fuse" /\ mode = "no_fuse" /\ Goto("replay") /\ UNCHANGED <<cache, fusing>>

\* The entry is finished (a history; the code has no such mark) and replayed.
FirstReplay ==
  /\ pc = "replay"
  /\ Update([complete |-> TRUE])
  /\ EndWith(Replayed(Entry))
  /\ UNCHANGED <<fusing, throws>>

\* compile_erase and compile_clear_cache.
Erase ==
  /\ pc = "idle" /\ cache # <<>> /\ calls < MaxCalls
  /\ cache' = <<>> /\ at' = 0
  /\ UNCHANGED <<program, mode, pc, fusing, calls, throws, result>>

Next ==
  \/ CallTracing \/ Erase
  \/ \E key \in Keys : CallReplays(key) \/ CallCompiles(key)
  \/ Trace \/ FunctionThrows \/ WalkTape
  \/ SimplifyScalars \/ SimplifyNoops \/ SimplifyUsers
  \/ StartFuse \/ Fuse \/ EndFuse \/ SkipFuse \/ FirstReplay

Spec == Init /\ [][Next]_vars

-----------------------------------------------------------------------------
(* Properties *)

\* What the passes cannot do, although the function could: an output that is
\* one of several equal scalars; an output of one of several equal primitives
\* with two outputs; a shared broadcast met when a section has all the inputs
\* it may have.  compile_replace then throws.
Refused ==
  LET h == program.h
      values == FunctionValues(h, Interval(1, Len(h.op)))
      users(a) == {b \in DOMAIN h.op : a \in ToSet(h.in[b])}
      equal(a) == {b \in DOMAIN h.op : values[b] = values[a] /\ h.op[b] = h.op[a]}
  IN  \/ \E o \in ToSet(program.outs) :
           LET a == CHOOSE b \in DOMAIN h.op : values[b] = values[o] /\ h.op[b] \notin Noops
           IN  h.op[a] \in Scalars \cup {"Div", "Mod"} /\ Cardinality(equal(a)) > 1
      \/ /\ \E a \in DOMAIN h.op : h.op[a] = "Broadcast" /\ Cardinality(users(a)) > 1
         /\ Cardinality({a \in DOMAIN h.op : ~HasPrimitive(h, a)}) >= max_compile_arrays

\* A call returns what the function returns, the first on a key or a later
\* one, whatever was merged, dropped, split and fused.  It never returns
\* anything else, but for a function without inputs after its trace threw; and
\* it throws only if this call or one before it on the entry threw, or for
\* what is refused.
SameOutput ==
  pc = "idle" /\ calls > 0 =>
    \/ result = Returned(FunctionValues(program.h, program.outs))
    \/ result.kind = "threw" /\ (at > 0 /\ Entry.complete => Refused)
    \/ result = Returned(<<>>) /\ Inputs = <<>> /\ ~Entry.complete

\* Between the passes, and between two turns of the fusion, every primitive on
\* the tape is recorded, through one of its outputs, among the users of each
\* of its inputs: what is fused, merged or dropped for want of other users has
\* none.
ParentsComplete ==
  pc \in {"scalars", "noops", "merge", "fuse", "fusing"} =>
    LET h == IF pc = "fusing" THEN fusing.h ELSE Entry.h
        tape == IF pc = "fusing"
                  THEN SelectSeq(SubSeq(Entry.tape, 1, fusing.i),
                                 LAMBDA a : a \notin fusing.gone) \o fusing.tape
                  ELSE Entry.tape
    IN  \A a \in ToSet(tape) : \A k \in DOMAIN h.in[a] :
          \E s \in ToSet(h.outputs[a]) : <<s, k>> \in ToSet(Parents(h, h.in[a][k]))
=============================================================================
