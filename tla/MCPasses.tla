------------------------------ MODULE MCPasses ------------------------------
(***************************************************************************)
(* The passes over a graph, each by itself: the walk of eval_impl (the     *)
(* module extended), the calls of a compiled function, and a function      *)
(* transformed.  The first state chooses one; the variables of the others  *)
(* keep their initial values.                                              *)
(*                                                                         *)
(* The programs to compile are built by steps, each of which adds an       *)
(* operation on arrays already there.  A step uses the array of the step   *)
(* before or an input no older than that step's newest, which leaves out   *)
(* only programs that differ in the order of independent steps.            *)
(***************************************************************************)
EXTENDS MCTapeBuilder, TLC

CONSTANTS
  Parts,
  Programs, max_compile_depth, max_compile_arrays, Modes, Keys, MaxCalls, MaxThrows,
  Requests, BatchSize, method, Value(_, _, _)

VARIABLES
  part,
  program, mode, cache, pc, entryAt, fusing, calls, throws, result,
  request, stage, trace, walk, entry, found, returned, threw, suspect

-----------------------------------------------------------------------------
(* Programs *)

Put(h, op, in, outputs, shape, stream) ==
  [h EXCEPT !.op = Append(@, op), !.in = Append(@, in),
            !.outputs = Append(@, outputs), !.shape = Append(@, shape),
            !.stream = Append(@, stream)]
Size(h) == Len(h.op)
Ids(h) == DOMAIN h.op
Leaf(h, leaf) == Put(h, leaf[1], <<>>, <<Size(h) + 1>>, leaf[2], 1)
Leaves(list) ==
  FoldLeft(Leaf, [op |-> <<>>, in |-> <<>>, outputs |-> <<>>, shape |-> <<>>,
                  stream |-> <<>>, kernel |-> <<>>, parents |-> <<>>], list)

ShapeOf(h, op, a) ==
  CASE op = "Sum" -> "small" [] op = "Broadcast" -> "big" [] OTHER -> h.shape[a]
One(h, op, in, s) == Put(h, op, in, <<Size(h) + 1>>, ShapeOf(h, op, in[1]), s)
DivMod(h, a) ==
  LET out == <<Size(h) + 1, Size(h) + 2>>
  IN  Put(Put(h, "Div", <<a>>, out, h.shape[a], 1), "Mod", <<a>>, out, h.shape[a], 1)

InOrder(h, in) ==
  LET before == h.in[Size(h)]
      newest(list) == CHOOSE x \in ToSet(list) : \A y \in ToSet(list) : y <= x
  IN  before = <<>> \/ ToSet(in) \cap ToSet(h.outputs[Size(h)]) # {}
        \/ newest(in) >= newest(before)

Ones(h, ops, streams) ==
  {One(h, op, in, s) :
     op \in ops \ {"Add", "DivMod"}, s \in streams,
     in \in {<<a>> : a \in {b \in Ids(h) : InOrder(h, <<b>>)}}}
Adds(h, ops, streams) ==
  {One(h, op, in, s) :
     op \in ops \cap {"Add"}, s \in streams,
     in \in {p \in Ids(h) \X Ids(h) :
               p[1] <= p[2] /\ h.shape[p[1]] = h.shape[p[2]] /\ InOrder(h, p)}}
DivMods(h, ops) ==
  {DivMod(h, a) : a \in IF "DivMod" \in ops THEN {b \in Ids(h) : InOrder(h, <<b>>)} ELSE {}}

Grown(h, ops, streams, steps) ==
  LET f[n \in 0 .. steps] ==
        IF n = 0 THEN {h}
        ELSE UNION {Ones(g, ops, streams) \cup Adds(g, ops, streams) \cup DivMods(g, ops) :
                      g \in f[n - 1]}
  IN  f[steps]

\* Every array is computed for an output; up to max outputs, in any order.
Used(h) == UNION {ToSet(h.in[a]) : a \in Ids(h)}
Ends(h) == {a \in Ids(h) : /\ h.in[a] # <<>> /\ h.op[a] # "Mod"
                           /\ ToSet(h.outputs[a]) \cap Used(h) = {}}
ProgramsOf(heaps, max) ==
  UNION {{[h |-> h, outs |-> o] :
            o \in UNION {SetToSeqs(Ends(h) \cup x) :
                    x \in {y \in {{}} \cup {{a} : a \in Ids(h)} :
                             Cardinality(Ends(h) \cup y) <= max}}} : h \in heaps}

Input == <<"input", "small">>
BigInput == <<"input", "big">>
One1 == <<"one", "small">>
Outside == <<"outside", "small">>

\* Scalars and no-ops, functions without inputs, inputs captured.
Simple ==
  ProgramsOf(Grown(Leaves(<<Input, One1, One1>>), {"Neg", "Copy", "Add"}, {1}, 2)
    \cup Grown(Leaves(<<One1, Outside>>), {"Neg"}, {1}, 1), 2)
\* Equal subgraphs, two outputs at a time.
Merging == ProgramsOf(Grown(Leaves(<<Input>>), {"Neg", "DivMod"}, {1}, 3), 3)
\* Sections to fuse next to what does not fuse, shapes and streams that end one.
Fusing ==
  ProgramsOf(Grown(Leaves(<<Input>>), {"Neg", "Add", "Sum", "Broadcast"}, {1}, 3)
    \cup Grown(One(Leaves(<<Input>>), "Broadcast", <<1>>, 1), {"Neg", "Add", "Sum"}, {1}, 3)
    \cup Grown(Leaves(<<Input>>), {"Neg", "Add"}, {1, 2}, 3), 2)
\* A section with as many inputs as it may have, and a broadcast used twice.
Full ==
  LET leaves == Leaves(<<Input, BigInput, BigInput, BigInput>>)
      sum == One(One(leaves, "Add", <<2, 3>>, 1), "Add", <<4, 5>>, 1)
      shared == One(One(sum, "Broadcast", <<1>>, 1), "Add", <<6, 7>>, 1)
  IN  ProgramsOf(Grown(shared, {"Neg", "Sum"}, {1}, 1), 2)

AnyProgram == [h |-> One(Leaves(<<Input>>), "Neg", <<1>>, 1), outs |-> <<2>>]
MCPrograms == Simple \cup Merging \cup Fusing \cup Full
IsSimple == "one" \in ToSet(program.h.op)

-----------------------------------------------------------------------------
Function == INSTANCE Compile WITH at <- entryAt
Transform == INSTANCE Transforms

Given == INSTANCE MCRequests
\* (TLC counts how often each expression is evaluated, but not behind a LET that gives a
\* constant its value: the rules are too many to count.)
MCRequested == LET requests == Given!AllRequests IN requests
MCMethods == LET methods == Given!Methods IN methods
MCValue(arg, example, k) == Given!SomeNumber(arg, example, k)

walkVars == <<call, maxWidth, phase, dfs, degree, needsFence, tape, i, at>>
functionVars == <<program, mode, cache, pc, entryAt, fusing, calls, throws, result>>
transformVars == <<request, stage, trace, walk, entry, found, returned, threw, suspect>>
allVars == <<part, walkVars, functionVars, transformVars>>

AnyCall == CHOOSE c \in Cases : TRUE
AnyRequest == [kind |-> "vjp", f |-> AnyProgram, argnums |-> <<1>>]

NoWalkPart == call = AnyCall /\ maxWidth = 1 /\ Start
NoFunction == program = AnyProgram /\ mode = "enabled" /\ Function!Start
NoTransform == request = AnyRequest /\ Transform!Called

\* Modes, repeated calls and a trace that throws are tried on the simple
\* programs, the passes on all.
AllInit ==
  /\ part \in Parts
  /\ \/ part = "walk" /\ Init /\ NoFunction /\ NoTransform
     \/ /\ part = "compile" /\ NoWalkPart /\ Function!Init /\ NoTransform
        /\ mode = "enabled" \/ IsSimple
     \/ part = "transform" /\ NoWalkPart /\ NoFunction /\ Transform!Init

OnlyWalk == UNCHANGED <<part, functionVars, transformVars>>
OnlyFunction == UNCHANGED <<part, walkVars, transformVars>>
OnlyTransform == UNCHANGED <<part, walkVars, functionVars>>

\* Nobody has to call a compiled function.
Stopped == part = "compile" /\ pc = "idle" /\ UNCHANGED allVars

AllNext ==
  \/ part = "walk" /\ Walk /\ OnlyWalk
  \/ part = "walk" /\ Done /\ OnlyWalk
  \/ /\ part = "compile" /\ Function!Next /\ OnlyFunction
     /\ (calls' <= 1 /\ throws' = 0) \/ IsSimple
  \/ Stopped
  \/ part = "transform" /\ Transform!Next /\ OnlyTransform

AllSpec ==
  AllInit /\ [][AllNext]_allVars /\ WF_allVars(part = "walk" /\ Walk /\ OnlyWalk)

-----------------------------------------------------------------------------
(* Properties *)

\* The walk of eval_impl ends, whatever the graph and the width.
WalksEnd == part = "walk" => WalkEnds

\* A compiled function returns what the function returns, or throws where the
\* passes are known to fail, and never returns anything else.
CompiledOutput == Function!SameOutput

\* The map of users stays complete from pass to pass.
CompiledParents == Function!ParentsComplete

\* vmap is the function on each example, except where a rule is known to be wrong.
VmapIsExact == Transform!VmapExact

\* jvp, vjp and grad give the derivative, except where a rule is known to be wrong.
GradientsAreExact == Transform!GradientsExact
=============================================================================
