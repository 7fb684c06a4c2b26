----------------------------- MODULE Transforms -----------------------------
(***************************************************************************)
(* vmap, jvp, vjp and value_and_grad of mlx/transforms.cpp: a traced       *)
(* function is walked from its outputs, and the rules of its primitives    *)
(* are applied along the tape, forwards or, for vjp, backwards.            *)
(*                                                                         *)
(* A function lists its arrays, each behind its inputs:                    *)
(*   prim     the primitive; [op |-> "input", shape, below] is an argument *)
(*            and [op |-> "constant", value] an array from outside         *)
(*   in       array::inputs                                                *)
(*   outputs  array::outputs(), the array among its siblings, in order     *)
(*   args     how many arguments there are; they are the first arrays      *)
(*   outs     what the function returns                                    *)
(*                                                                         *)
(* What must come out is known without the rules: vmap is the function on  *)
(* each example, and the function on dual numbers gives its derivative.    *)
(*                                                                         *)
(* The walk recurses over the graph, so this module is for TLC only.       *)
(***************************************************************************)
EXTENDS PrimitiveRules

CONSTANTS
  Requests,        \* calls: [kind, f, axes, outAxes] of vmap, [kind, f, argnums] of the others
  BatchSize,       \* the size of every mapped axis
  method,          \* Methods: the primitives, by what they implement
  Value(_, _, _)   \* the k-th number of argument i in example b

VARIABLES
  request,   \* the call
  stage,     \* "call", "tape", "outputs", "done"
  trace,     \* the arrays that tracing the function made
  walk,      \* the tape, and the arrays that depend on what the call is about
  entry,     \* the next place on the tape, or the next output
  found,     \* tmap, tan_map or cotan_map
  returned,  \* the outputs so far
  threw,     \* a rule threw
  suspect    \* something was not as it should be

vars == <<request, stage, trace, walk, entry, found, returned, threw, suspect>>

Put(map, a, x) == [b \in DOMAIN map \cup {a} |-> IF b = a THEN x ELSE map[b]]

-----------------------------------------------------------------------------
(* The function *)

\* gfun: the outputs behind the first pass StopGradient.
OnlyFirst(g) ==
  LET size == Len(g.prim)
      more == Len(g.outs) - 1
      stops == Count(more)
  IN  [g EXCEPT !.prim = @ \o [k \in DOMAIN stops |-> [op |-> "StopGradient"]],
                !.in = @ \o [k \in DOMAIN stops |-> <<g.outs[k + 1]>>],
                !.outputs = @ \o [k \in DOMAIN stops |-> <<size + k>>],
                !.outs = <<@[1]>> \o [k \in DOMAIN stops |-> size + k]]

f == IF request.kind = "grad" THEN OnlyFirst(request.f) ELSE request.f
Op(a) == f.prim[a].op
Arguments == 1 .. f.args

\* All arrays, given the arguments.
Evaluate(args) ==
  LET place(a) == CHOOSE k \in DOMAIN f.outputs[a] : f.outputs[a][k] = a
      made(arrays, a) ==
        CASE Op(a) = "input" -> args[a]
          [] Op(a) = "constant" -> f.prim[a].value
          [] OTHER -> method.eval[f.prim[a],
                                  [k \in DOMAIN f.in[a] |-> arrays[f.in[a][k]]] \o <<>>][place(a)]
  IN  FoldTo(Len(f.prim), <<>>, LAMBDA arrays, a : Append(arrays, made(arrays, a)))

\* Offsets are below a limit, and as many as fit differ.
Numbers(shape, below, i, b) ==
  [shape |-> shape,
   data |-> [k \in 1 .. SizeOf(shape) |->
               Number(IF below = 0 THEN Value(i, b, k) ELSE (k + i + b) % below)] \o <<>>]
Primal(i, b) == Numbers(f.prim[i].shape, f.prim[i].below, i, b)
Primals(b) == [i \in Arguments |-> Primal(i, IF request.axes[i] > 0 THEN b ELSE 1)] \o <<>>
Tangent(i) == Numbers(f.prim[i].shape, 0, i, BatchSize + 1)
Cotangent(n, out) == IF request.kind = "grad" THEN Scalar(1)
                     ELSE Numbers(out.shape, 0, n, BatchSize + 2)

-----------------------------------------------------------------------------
(* The walk *)

RECURSIVE Visit(_, _, _)

\* w: the tape, what was seen, and what depends on the seeds.
Visit(w, a, stops) ==
  LET v == FoldLeft(LAMBDA u, x : Visit(u, x, stops),
                    [w EXCEPT !.seen = @ \cup ToSet(f.outputs[a])], f.in[a])
  IN  IF a \in w.seen THEN w
      ELSE IF (stops /\ Op(a) = "StopGradient") \/ ToSet(f.in[a]) \cap v.needs = {} THEN v
      ELSE [v EXCEPT !.tape = Append(@, a), !.needs = @ \cup ToSet(f.outputs[a])]

\* Gradients do not pass StopGradient.
Walked(seeds, stops) ==
  LET w == FoldLeft(LAMBDA v, a : Visit(v, a, stops),
                    [tape |-> <<>>, seen |-> Arguments, needs |-> seeds], f.outs)
  IN  [tape |-> w.tape, needs |-> w.needs]

-----------------------------------------------------------------------------
(* Steps *)

NoWalk == [tape |-> <<>>, needs |-> {}]
Called ==
  /\ stage = "call" /\ trace = <<>> /\ walk = NoWalk /\ entry = 1
  /\ found = <<>> /\ returned = <<>> /\ threw = FALSE /\ suspect = FALSE
Init == request \in Requests /\ Called

IsVmap == request.kind = "vmap"
IsJvp == request.kind = "jvp"
IsVjp == request.kind \in {"vjp", "grad"}
AtEntry == stage = "tape" /\ entry <= Len(walk.tape)
AtOutput(n) == stage = "outputs" /\ entry <= n

Throw == /\ threw' = TRUE /\ stage' = "done"
         /\ UNCHANGED <<request, trace, walk, entry, found, returned, suspect>>
Start(args, seeds) ==
  /\ trace' = Evaluate(args)
  /\ walk' = Walked(seeds, ~IsVmap)
  /\ stage' = "tape"
  /\ UNCHANGED <<request, entry, returned, threw>>
Found(map) == /\ found' = map /\ entry' = entry + 1
              /\ UNCHANGED <<request, stage, trace, walk, returned, threw>>
Return(a) == /\ returned' = Append(returned, a) /\ entry' = entry + 1
             /\ UNCHANGED <<request, stage, trace, walk, threw>>

TapeEnds == /\ stage = "tape" /\ entry > Len(walk.tape)
            /\ stage' = "outputs" /\ entry' = 1
            /\ UNCHANGED <<request, trace, walk, found, returned, threw, suspect>>
\* How many arrays are returned.
Wanted == IF IsVjp THEN Len(request.argnums) ELSE Len(f.outs)
OutputsEnd == /\ stage = "outputs" /\ entry > Wanted
              /\ stage' = "done"
              /\ UNCHANGED <<request, trace, walk, entry, found, returned, threw, suspect>>

-----------------------------------------------------------------------------
(* vmap *)

Mapped == {i \in Arguments : request.axes[i] > 0}
Stacked(i) ==
  LET ax == request.axes[i]
  IN  Build(InsertAt(f.prim[i].shape, ax, BatchSize),
            LAMBDA ix : At(Primal(i, ix[ax]), RemoveAt(ix, ax)))

VmapTrace ==
  /\ IsVmap /\ stage = "call" /\ Mapped # {}
  /\ Start(Primals(1), Mapped)
  /\ found' = [i \in Mapped |-> [array |-> Stacked(i), axis |-> request.axes[i]]]
  /\ UNCHANGED suspect
VmapNothing == IsVmap /\ stage = "call" /\ Mapped = {} /\ Throw

InputsOf(a) == [k \in DOMAIN f.in[a] |-> trace[f.in[a][k]]] \o <<>>
VmapEntry ==
  /\ IsVmap /\ AtEntry
  /\ LET a == walk.tape[entry]
         mapped(x) == IF x \in DOMAIN found THEN found[x] ELSE [array |-> trace[x], axis |-> 0]
         in == [k \in DOMAIN f.in[a] |-> mapped(f.in[a][k]).array] \o <<>>
         axes == [k \in DOMAIN f.in[a] |-> mapped(f.in[a][k]).axis] \o <<>>
         v == method.vmap[f.prim[a], in, axes]
         pair(k) == [array |-> v.outs[k], axis |-> v.axes[k]]
     IN  IF v.outs = NoArrays THEN Throw
         ELSE /\ Found(FoldTo(Len(v.outs), found,
                              LAMBDA m, k : Put(m, f.outputs[a][k], pair(k))))
              /\ suspect' = (suspect \/ VmapWrong(f.prim[a], InputsOf(a), axes))

\* The array in tmap is the one that is moved, so an output listed again is moved again.
VmapOutput ==
  /\ IsVmap /\ AtOutput(Len(f.outs))
  /\ LET a == f.outs[entry]
         to == request.outAxes[entry]
         out == found[a]
         stays == out.axis = to
         moved == IF stays THEN out.array
                  ELSE Moveaxis(out.array, IF out.axis = 0 THEN -1 ELSE out.axis, to)
         was_moved == \E k \in 1 .. entry - 1 : f.outs[k] = a /\ request.outAxes[k] # out.axis
     IN  /\ a \in DOMAIN found
         /\ IF ~stays /\ (to = 0 \/ to > Rank(out.array)) THEN Throw
            ELSE /\ Return(moved)
                 /\ found' = [found EXCEPT ![a].array = moved]
                 /\ suspect' = (suspect \/ was_moved)
\* An output that depends on no mapped argument is repeated.
VmapRepeat ==
  /\ IsVmap /\ AtOutput(Len(f.outs))
  /\ LET a == f.outs[entry]
         to == IF request.outAxes[entry] = 0 THEN Rank(trace[a]) + 1 ELSE request.outAxes[entry]
     IN  /\ a \notin DOMAIN found
         /\ IF to > Rank(trace[a]) + 1 THEN Throw
            ELSE /\ Return(Repeat(ExpandDims(trace[a], <<to>>), BatchSize, to))
                 /\ UNCHANGED <<found, suspect>>

-----------------------------------------------------------------------------
(* jvp *)

JvpTrace ==
  /\ IsJvp /\ stage = "call"
  /\ Start([i \in Arguments |-> Primal(i, 1)] \o <<>>, Arguments)
  /\ found' = [i \in Arguments |-> Tangent(i)]
  /\ UNCHANGED suspect

\* The places of the inputs that are in a set.
Places(a, set) == SelectSeq(Count(Len(f.in[a])), LAMBDA k : f.in[a][k] \in set)
JvpEntry ==
  /\ IsJvp /\ AtEntry
  /\ LET a == walk.tape[entry]
         argnums == Places(a, DOMAIN found)
         tangents == Each(argnums, LAMBDA k : found[f.in[a][k]])
         jvps == method.jvp[f.prim[a], InputsOf(a), tangents, argnums]
     IN  IF jvps = NoArrays THEN Throw
         ELSE /\ Found(FoldTo(Len(jvps), found,
                              LAMBDA m, k : Put(m, f.outputs[a][k], jvps[k])))
              /\ suspect' = (suspect \/ JvpWrong(f.prim[a], InputsOf(a), argnums))
JvpOutput ==
  /\ IsJvp /\ AtOutput(Len(f.outs))
  /\ LET a == f.outs[entry]
     IN  Return(IF a \in DOMAIN found THEN found[a] ELSE ZerosLike(trace[a]))
  /\ UNCHANGED <<found, suspect>>

-----------------------------------------------------------------------------
(* vjp and value_and_grad *)

\* value_and_grad puts its argument numbers in order.
Argnums == IF request.kind = "grad" THEN Ascending(ToSet(request.argnums)) ELSE request.argnums

\* calc_grad: arguments are met in order, and each is compared to the next number only.
Seeds ==
  LET s == FoldTo(f.args, [next |-> 1, seeds |-> {}], LAMBDA r, i :
             IF r.next <= Len(Argnums) /\ Argnums[r.next] = i
             THEN [next |-> r.next + 1, seeds |-> r.seeds \cup {i}] ELSE r)
  IN  s.seeds

\* The outputs that get a cotangent, in order; the map keeps the first for each array.
Pulled == SelectSeq(f.outs, LAMBDA a : Op(a) # "StopGradient")
CotangentsOf(arrays) ==
  [a \in ToSet(Pulled) |-> Cotangent(SelectInSeq(Pulled, LAMBDA b : b = a), arrays[a])]

VjpTrace ==
  /\ IsVjp /\ stage = "call"
  /\ Start([i \in Arguments |-> Primal(i, 1)] \o <<>>, Seeds)
  /\ found' = CotangentsOf(trace')
  /\ suspect' = (Seeds # ToSet(Argnums) \/ Len(Pulled) # Cardinality(ToSet(Pulled)))

\* The cotangents of a are taken out of the map, and its inputs' are added to.
VjpEntry ==
  /\ IsVjp /\ AtEntry
  /\ LET a == walk.tape[Len(walk.tape) + 1 - entry]
         outputs == f.outputs[a]
         outs == Each(outputs, LAMBDA b : trace[b])
         argnums == Places(a, walk.needs)
         cotans == Each(outputs, LAMBDA b : IF b \in DOMAIN found THEN found[b]
                                            ELSE ZerosLike(trace[b]))
         rest == [b \in DOMAIN found \ ToSet(outputs) |-> found[b]]
         vjps == method.vjp[f.prim[a], InputsOf(a), cotans, argnums, outs]
         add(m, k) == LET x == f.in[a][argnums[k]]
                      IN  Put(m, x, IF x \in DOMAIN m THEN Add(m[x], vjps[k]) ELSE vjps[k])
     IN  IF ToSet(outputs) \cap DOMAIN found = {} THEN Found(found) /\ UNCHANGED suspect
         ELSE IF vjps = NoArrays THEN Throw
         ELSE /\ Found(FoldTo(Len(argnums), rest, add))
              /\ suspect' = (suspect \/ VjpWrong(f.prim[a], InputsOf(a), argnums))
VjpOutput ==
  /\ IsVjp /\ AtOutput(Len(Argnums))
  /\ LET i == Argnums[entry]
     IN  Return(IF i \in DOMAIN found THEN found[i] ELSE ZerosLike(trace[i]))
  /\ UNCHANGED <<found, suspect>>

Step ==
  \/ VmapTrace \/ VmapNothing \/ VmapEntry \/ VmapOutput \/ VmapRepeat
  \/ JvpTrace \/ JvpEntry \/ JvpOutput
  \/ VjpTrace \/ VjpEntry \/ VjpOutput
  \/ TapeEnds \/ OutputsEnd
Finished == stage = "done" /\ UNCHANGED vars
Next == Step \/ Finished
Spec == Init /\ [][Next]_vars

-----------------------------------------------------------------------------
(* Properties *)

AxesOf(a) == [k \in DOMAIN f.in[a] |-> IF f.in[a][k] \in DOMAIN found
                                       THEN found[f.in[a][k]].axis ELSE 0]
VmapMayThrow ==
  \/ Mapped = {}
  \/ \E n \in DOMAIN f.outs : request.outAxes[n] \notin 1 .. Rank(trace[f.outs[n]]) + 1
  \/ \E a \in ToSet(walk.tape) : VmapThrows(f.prim[a], AxesOf(a))

Taken(a, ax, b) ==
  Build(RemoveAt(a.shape, ax), LAMBDA ix : At(a, InsertAt(ix, ax, b)))
VmapRight ==
  \A b \in 1 .. BatchSize :
    LET arrays == Evaluate(Primals(b)) IN
    \A n \in DOMAIN f.outs :
      LET out == arrays[f.outs[n]]
          ax == IF request.outAxes[n] = 0 THEN Rank(out) + 1 ELSE request.outAxes[n]
      IN  /\ returned[n].shape = InsertAt(out.shape, ax, BatchSize)
          /\ Taken(returned[n], ax, b) = out

\* vmap maps every primitive over its batch, wherever the batch axes are: each example
\* of an output is the function on that example (transforms.cpp:748, and the vmap of
\* every primitive), except in the cases VmapWrong names and for an output moved twice,
\* where it is not.  It throws only where a rule is not implemented or an axis invalid.
VmapExact ==
  IsVmap /\ stage = "done" => IF threw THEN VmapMayThrow ELSE VmapRight <=> ~suspect

Varied == IF IsJvp THEN Arguments ELSE ToSet(Argnums)
Dual(i) == [shape |-> Primal(i, 1).shape,
            data |-> [k \in DOMAIN Primal(i, 1).data |->
                        <<Primal(i, 1).data[k][1],
                          IF i \in Varied THEN Tangent(i).data[k][1] ELSE 0>>] \o <<>>]
Dot(a, b) == FoldTo(Len(a.data), Zero, LAMBDA x, k : Plus(x, Times(a.data[k], b.data[k])))
Total(n, F(_)) == FoldTo(n, Zero, LAMBDA x, k : Plus(x, F(k)))

JvpRight(arrays) ==
  \A n \in DOMAIN f.outs : returned[n] = Derivatives(arrays[f.outs[n]])
\* The product with a direction from either side of the Jacobian.
VjpRight(arrays) ==
  /\ \A n \in DOMAIN Argnums : returned[n].shape = f.prim[Argnums[n]].shape
  /\ Total(Len(Argnums), LAMBDA n : Dot(returned[n], Tangent(Argnums[n])))
       = Total(Len(Pulled), LAMBDA n : LET out == arrays[Pulled[n]]
                                       IN  Dot(Cotangent(n, out), Derivatives(out)))
GradientMayThrow ==
  \E a \in ToSet(walk.tape) :
    IF IsJvp THEN JvpThrows(f.prim[a], Places(a, DOMAIN found))
    ELSE VjpThrows(f.prim[a], Places(a, walk.needs), Len(f.in[a]))

\* jvp gives the derivative of every output along the tangents, and vjp and grad the
\* gradient, through whatever the function shares, drops or stops (transforms.cpp:321,
\* 520, 646 and the rules of every primitive), except in the cases JvpWrong and VjpWrong
\* name, where they do not.  They throw only where a rule is not implemented.
GradientsExact ==
  ~IsVmap /\ stage = "done" =>
    IF threw THEN GradientMayThrow
    ELSE LET arrays == Evaluate([i \in Arguments |-> Dual(i)] \o <<>>)
         IN  (IF IsJvp THEN JvpRight(arrays) ELSE VjpRight(arrays)) <=> ~suspect
=============================================================================
