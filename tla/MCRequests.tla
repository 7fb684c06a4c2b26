----------------------------- MODULE MCRequests -----------------------------
(***************************************************************************)
(* Functions to transform: every primitive by itself, every two shape      *)
(* primitives one behind the other, and functions that share, repeat,      *)
(* split, stop or ignore their arrays.                                     *)
(***************************************************************************)
EXTENDS PrimitiveRules

\* Numbers that differ within an array and follow no line.
SomeNumber(i, b, k) == (k * 733 + b * 97 + i * 271 + k * k * b * i * 11 + 1) % P

-----------------------------------------------------------------------------
(* Building functions *)

Arg(shape) == [op |-> "input", shape |-> shape, below |-> 0]
Offset(shape, below) == [op |-> "input", shape |-> shape, below |-> below]
IsOffset(arg) == arg.below > 0
Constant(shape, F(_)) ==
  [op |-> "constant", value |-> Build(shape, LAMBDA ix : Number(F(Position(shape, ix))))]

\* A primitive on the arrays in, with n outputs.
Step(p, in, n) == [p |-> p, in |-> in, n |-> n]
Given(p) == Step(p, <<>>, 1)
With(g, step) ==
  LET size == Len(g.prim)
      new == [k \in 1 .. step.n |-> size + k]
  IN  [g EXCEPT !.prim = @ \o [k \in DOMAIN new |-> step.p],
                !.in = @ \o [k \in DOMAIN new |-> step.in],
                !.outputs = @ \o [k \in DOMAIN new |-> new]]
Fun(args, steps, outs) ==
  FoldLeft(With, [prim |-> <<>>, in |-> <<>>, outputs |-> <<>>, args |-> Len(args), outs |-> outs],
           [k \in DOMAIN args |-> Given(args[k])] \o steps)

\* One primitive on all arguments; or on numbers, with the offsets from outside.
Single(args, p) == Fun(args, <<Step(p, Count(Len(args)), 1)>>, <<Len(args) + 1>>)
Fixed(args, p) ==
  LET numbers == SelectSeq(Count(Len(args)), LAMBDA k : ~IsOffset(args[k]))
      offsets == SelectSeq(Count(Len(args)), LAMBDA k : IsOffset(args[k]))
      order == numbers \o offsets
      constant(k) == Constant(args[k].shape, LAMBDA m : (m + k) % args[k].below)
      in == [k \in DOMAIN args |-> CHOOSE m \in DOMAIN order : order[m] = k] \o <<>>
  IN  Fun([m \in DOMAIN numbers |-> args[numbers[m]]],
          [m \in DOMAIN offsets |-> Given(constant(offsets[m]))] \o <<Step(p, in, 1)>>,
          <<Len(args) + 1>>)

-----------------------------------------------------------------------------
(* Every primitive, on small arrays *)

S == <<2, 3>>
M == <<3, 4>>
T == <<2, 3, 2>>

Of(op) == [op |-> op]
Along(op, axis) == [op |-> op, axis |-> axis]
OverAxes(op, axes) == [op |-> op, axes |-> axes]
ToShape(op, shape) == [op |-> op, shape |-> shape]
Flat(start, end) == [op |-> "Flatten", start |-> start, end |-> end]
Unflat(axis, shape) == [op |-> "Unflatten", axis |-> axis, shape |-> shape]
ScanOf(op, axis, reverse, inclusive) ==
  [op |-> op, axis |-> axis, reverse |-> reverse, inclusive |-> inclusive]
Scattered(kind, axes) == [op |-> "Scatter", kind |-> kind, axes |-> axes]
Padded(axes, low, high) == [op |-> "Pad", axes |-> axes, low |-> low, high |-> high]

\* <<arguments, primitive>>
OnNumbers ==
  {<<<<Arg(S)>>, Of(op)>> : op \in Unary}
  \cup {<<<<Arg(S), Arg(S)>>, Of(op)>> : op \in Binary}
  \cup {<<<<Arg(<<3>>)>>, ToShape("Broadcast", S)>>, <<<<Arg(<<3, 1>>)>>, ToShape("Broadcast", T)>>,
        <<<<Arg(S)>>, ToShape("Reshape", <<3, 2>>)>>, <<<<Arg(S)>>, ToShape("Reshape", <<6>>)>>}
  \cup {<<<<Arg(T)>>, Flat(1, 2)>>, <<<<Arg(T)>>, Flat(2, 3)>>, <<<<Arg(T)>>, Flat(1, 3)>>,
        <<<<Arg(M)>>, Unflat(2, <<2, 2>>)>>, <<<<Arg(<<4, 3>>)>>, Unflat(1, <<2, 2>>)>>}
  \cup {<<<<Arg(S)>>, OverAxes("ExpandDims", axes)>> :
          axes \in {<<1>>, <<2>>, <<3>>, <<1, 2>>, <<1, 3>>, <<2, 4>>}}
  \cup {<<<<Arg(<<1, 2, 1, 3>>)>>, OverAxes("Squeeze", axes)>> : axes \in {<<1>>, <<3>>, <<1, 3>>}}
  \cup {<<<<Arg(T)>>, OverAxes("Transpose", axes)>> : axes \in {<<2, 1, 3>>, <<3, 1, 2>>, <<2, 3, 1>>}}
  \cup {<<<<Arg(S), Arg(<<2, 1>>)>>, Along("Concatenate", 2)>>,
        <<<<Arg(S), Arg(<<1, 3>>)>>, Along("Concatenate", 1)>>}
  \cup {<<<<Arg(T)>>, OverAxes(op, axes)>> :
          op \in Reductions, axes \in {<<1>>, <<2>>, <<3>>, <<1, 3>>}}
  \cup {<<<<Arg(S)>>, ScanOf(op, axis, reverse, inclusive)>> :
          op \in Scans, axis \in {1, 2}, reverse \in BOOLEAN, inclusive \in BOOLEAN}
  \cup {<<<<Arg(M)>>, Along(op, axis)>> :
          op \in {"Sort", "ArgSort"}, axis \in {1, 2, -1, -2}}
  \cup {<<<<Arg(M)>>, Along("ArgMin", axis)>> : axis \in {1, 2}}
  \cup {<<<<Arg(shape)>>, Of(op)>> : op \in {"LogSumExp", "Softmax"}, shape \in {S, <<3>>}}
  \cup {<<<<Arg(S), Arg(<<3, 2>>)>>, Of("Matmul")>>, <<<<Arg(<<2, 2, 3>>), Arg(T)>>, Of("Matmul")>>}
  \cup {<<<<Arg(S), Arg(<<3, 2>>), Arg(<<2, 2>>)>>,
          [op |-> "AddMM", alpha |-> alpha, beta |-> beta]>> :
          alpha \in {1, 2}, beta \in {1, 3}}

\* x[1:3, ::2], x[::-1, ::-2], and one element reversed.
Slices(op, args(_)) ==
  LET slice(shape, start, stop, strides) ==
        LET p == SlicePrimitive(op, shape, start, stop, strides)
        IN  <<<<Arg(shape)>> \o args(p), p>>
  IN  {slice(M, <<1, 0>>, <<3, 4>>, <<1, 2>>), slice(M, <<2, 3>>, <<-4, -5>>, <<-1, -2>>),
       slice(<<1, 3>>, <<0, 0>>, <<-2, 3>>, <<-1, 1>>)}
OnSlices == Slices("Slice", LAMBDA p : <<>>) \cup Slices("SliceUpdate", LAMBDA p : <<Arg(p.shape)>>)

OnOffsets ==
  {<<<<Offset(S, 2), Arg(S), Arg(S)>>, Of("Select")>>,
   <<<<Arg(M), Offset(<<2>>, 2)>>, [op |-> "DynamicSlice", axes |-> <<1, 2>>, size |-> <<2, 3>>]>>,
   <<<<Arg(M), Offset(<<1>>, 2)>>, [op |-> "DynamicSlice", axes |-> <<2>>, size |-> <<3, 2>>]>>,
   <<<<Arg(M), Arg(S), Offset(<<2>>, 2)>>, OverAxes("DynamicSliceUpdate", <<1, 2>>)>>,
   <<<<Arg(M), Offset(<<2>>, 3)>>, [op |-> "Gather", axes |-> <<1>>, sizes |-> <<1, 4>>]>>,
   <<<<Arg(M), Offset(S, 3)>>, [op |-> "Gather", axes |-> <<2>>, sizes |-> <<3, 2>>]>>,
   <<<<Arg(M), Offset(<<2>>, 3), Offset(<<2>>, 4)>>,
     [op |-> "Gather", axes |-> <<1, 2>>, sizes |-> <<1, 1>>]>>,
   <<<<Arg(M), Offset(<<2, 4>>, 3)>>, Along("GatherAxis", 1)>>,
   <<<<Arg(M), Offset(<<3, 2>>, 4)>>, Along("GatherAxis", 2)>>}
  \cup {<<<<Arg(M), Offset(<<2>>, 3), Arg(<<2, 1, 4>>)>>, Scattered(kind, <<1>>)>> :
          kind \in {"None", "Sum", "Max"}}
  \cup {<<<<Arg(M), Offset(<<1>>, 3), Arg(<<1, 3, 2>>)>>, Scattered("None", <<2>>)>>,
        <<<<Arg(M), Offset(<<2>>, 1), Arg(<<2, 1, 4>>)>>, Scattered("Sum", <<1>>)>>,
        <<<<Arg(M), Offset(<<2>>, 3), Offset(<<2>>, 4), Arg(<<2, 1, 1>>)>>,
          Scattered("Max", <<1, 2>>)>>}
  \cup {<<<<Arg(M), Offset(<<2, 4>>, 3), Arg(<<2, 4>>)>>,
          [op |-> "ScatterAxis", kind |-> kind, axis |-> 1]>> : kind \in {"None", "Sum"}}

-----------------------------------------------------------------------------
(* Two shape primitives, one behind the other *)

ShapePrimitives(shape) ==
  LET axes == DOMAIN shape
      n == Len(shape)
      moved(i, j) == OverAxes("Transpose", MovedTo(n, i, j))
  IN  {Flat(p[1], p[2]) : p \in {q \in axes \X axes : q[1] < q[2]}}
      \cup {Unflat(j, <<shape[j] \div 2, 2>>) : j \in {k \in axes : shape[k] % 2 = 0}}
      \cup {OverAxes("ExpandDims", <<j>>) : j \in 1 .. n + 1}
      \cup {OverAxes("Squeeze", <<j>>) : j \in {k \in axes : shape[k] = 1}}
      \cup {moved(i, j) : i \in axes, j \in axes}
      \cup {ToShape("Reshape", Reverse(shape)), ToShape("Broadcast", <<2>> \o shape)}
      \cup {OverAxes("Sum", <<j>>) : j \in axes}
      \cup {ScanOf("CumSum", j, TRUE, FALSE) : j \in axes}
ResultShape(p, shape) == Apply(p, <<Zeros(shape)>>)[1].shape

Chains(shape) ==
  UNION {{Fun(<<Arg(shape)>>, <<Step(p, <<1>>, 1), Step(q, <<2>>, 1)>>, <<3>>) :
            q \in ShapePrimitives(ResultShape(p, shape))} : p \in ShapePrimitives(shape)}

-----------------------------------------------------------------------------
(* Functions of several primitives *)

Mul(a, b) == Step(Of("Multiply"), <<a, b>>, 1)
Plain(op, a) == Step(Of(op), <<a>>, 1)
Halves(a) == Step([op |-> "Split", axis |-> 2, indices |-> <<1>>], <<a>>, 2)

\* exp(x) y + exp(x), where exp(x), 3, is used twice and the sum is 5.
Shared(outs) ==
  Fun(<<Arg(S), Arg(S)>>,
      <<Plain("Exp", 1), Mul(3, 2), Step(Of("Add"), <<4, 3>>, 1)>>, outs)
\* stop_gradient(x) x, and an argument that is not used.
Stopped(outs) == Fun(<<Arg(S), Arg(S)>>, <<Plain("StopGradient", 1), Mul(3, 1)>>, outs)
\* The parts of an array, one of them used.
Halved(outs) == Fun(<<Arg(S)>>, <<Halves(1), Plain("Square", 3)>>, outs)
Twice(p) == Fun(<<Arg(S)>>, <<Step(p, <<1, 1>>, 1)>>, <<2>>)
Outside(outs) ==
  Fun(<<Arg(S)>>, <<Given(Constant(S, LAMBDA k : k * k)), Mul(1, 2), Plain("Exp", 2)>>, outs)
\* softmax(x w + b)
Layer ==
  Fun(<<Arg(S), Arg(<<3, 2>>), Arg(<<2>>)>>,
      <<Step(Of("Matmul"), <<1, 2>>, 1), Step(ToShape("Broadcast", <<2, 2>>), <<3>>, 1),
        Step(Of("Add"), <<4, 5>>, 1), Plain("Softmax", 6)>>, <<7>>)
\* A running product of x - c, which is zero at some places.
Vanishing(zeros, reverse, inclusive) ==
  Fun(<<Arg(<<5>>)>>,
      <<Given(Constant(<<5>>, LAMBDA k : IF k \in zeros THEN SomeNumber(1, 1, k) ELSE 0)),
        Step(Of("Subtract"), <<1, 2>>, 1),
        Step(ScanOf("CumProd", 1, reverse, inclusive), <<3>>, 1)>>, <<4>>)
PadFun(axes, low, high) ==
  Fun(<<Arg(S)>>, <<Given(Constant(<<>>, LAMBDA k : 9)), Step(Padded(axes, low, high), <<1, 2>>, 1)>>,
      <<3>>)
Updating(places) ==
  LET p == SlicePrimitive("SliceUpdate", M, <<1, 0>>, <<3, 4>>, <<1, 2>>)
  IN  Fun(<<Arg(IF places[1] = 1 THEN M ELSE p.shape)>>,
          <<Given(Constant(IF places[1] = 1 THEN p.shape ELSE M, LAMBDA k : k)),
            Step(p, places, 1)>>, <<3>>)

\* An argument and an array from outside, either way round.
WithOutside(op, places) ==
  Fun(<<Arg(S)>>, <<Given(Constant(S, LAMBDA k : k + 1)), Step(Of(op), places, 1)>>, <<3>>)
Composed ==
  {Shared(outs) : outs \in {<<5>>, <<5, 3>>, <<3, 5>>, <<5, 1>>, <<5, 5>>, <<1, 1>>}}
  \cup {Stopped(outs) : outs \in {<<4>>, <<3, 4>>, <<4, 3>>}}
  \cup {Halved(outs) : outs \in {<<4>>, <<2, 3>>, <<3>>, <<4, 2>>, <<2, 2>>}}
  \cup {Twice(Of("Multiply")), Twice(Of("Subtract")), Twice(Along("Concatenate", 1)), Layer}
  \cup {WithOutside(op, places) : op \in Binary, places \in {<<1, 2>>, <<2, 1>>}}
  \cup {Outside(outs) : outs \in {<<3>>, <<3, 4>>, <<2>>}}
PadFuns == {PadFun(<<1, 2>>, <<1, 0>>, <<0, 2>>), PadFun(<<2>>, <<1>>, <<1>>)}
Updates == {Updating(<<1, 2>>), Updating(<<2, 1>>)}
Vanish == {Vanishing(zeros, reverse, inclusive) :
             zeros \in {{2}, {2, 4}}, reverse \in BOOLEAN, inclusive \in BOOLEAN}

-----------------------------------------------------------------------------
(* Functions with a scalar first output, to differentiate *)

Summed(a) == <<Step(OverAxes("Sum", <<1, 2>>), <<a>>, 1),
               Step(OverAxes("Squeeze", <<1, 2>>), <<a + 1>>, 1)>>
\* The steps behind the arguments and the sum of the last array.
LossOf(args, steps, more) ==
  LET size == Len(args) + Len(steps)
  IN  Fun(args, steps \o Summed(size), <<size + 2>> \o more)
\* The sum of exp(x) y + exp(x), and of stop_gradient(x) x, with other outputs behind.
Losses ==
  {LossOf(<<Arg(S), Arg(S)>>, <<Plain("Exp", 1), Mul(3, 2), Step(Of("Add"), <<4, 3>>, 1)>>, more) :
     more \in {<<>>, <<3>>, <<7, 5>>, <<2>>}}
  \cup {LossOf(<<Arg(S), Arg(S)>>, <<Plain("StopGradient", 1), Mul(3, 1)>>, more) :
          more \in {<<>>, <<3, 4>>}}

-----------------------------------------------------------------------------
(* Requests *)

Singles(set) == {Single(x[1], x[2]) : x \in set}
FromOutside(set) == {Fixed(x[1], x[2]) : x \in set}

AxesFor(g) ==
  {axes \in [1 .. g.args -> 0 .. 4] : \A i \in DOMAIN axes : axes[i] <= Len(g.prim[i].shape) + 1}
Vmap(g, axes, outAxes) == [kind |-> "vmap", f |-> g, axes |-> axes, outAxes |-> outAxes]
\* Any of the arguments along any axis, the outputs along the axis o.
Vmaps(g, o) ==
  {Vmap(g, axes, [n \in DOMAIN g.outs |-> o]) :
     axes \in {x \in AxesFor(g) : \E i \in DOMAIN x : x[i] > 0}}
Gradient(kind, g, argnums) == [kind |-> kind, f |-> g, argnums |-> argnums]
NumberArgs(g) == SelectSeq(Count(g.args), LAMBDA i : ~IsOffset(g.prim[i]))
Gradients(g) ==
  {Gradient("jvp", g, Count(g.args))} \cup {Gradient("vjp", g, a) : a \in {NumberArgs(g), <<1>>}}

Both == Singles(OnNumbers \cup OnSlices) \cup Chains(S) \cup Composed \cup PadFuns \cup Updates
AllRequests ==
  UNION {Vmaps(g, 1) : g \in Both \cup Singles(OnOffsets)}
  \cup UNION {Gradients(g) : g \in Both \cup FromOutside(OnOffsets) \cup Vanish}
  \cup UNION {Vmaps(g, 2) : g \in Composed}
  \* Each output along its own axis, which may be none or one too many; and nothing mapped.
  \cup {Vmap(Shared(outs), <<1, 0>>, o) : outs \in {<<5, 3>>, <<2, 5>>}, o \in (0 .. 4) \X (0 .. 4)}
  \cup {Vmap(Shared(<<5>>), <<0, 0>>, <<1>>)}
  \* An index among what is differentiated, and arguments out of order.
  \cup {Gradient(kind, g, Count(g.args)) : kind \in {"jvp", "vjp"}, g \in Singles(OnOffsets)}
  \cup {Gradient("vjp", Shared(outs), <<2, 1>>) : outs \in {<<5>>, <<3>>}}
  \cup {Gradient("grad", g, argnums) : g \in Losses, argnums \in {<<1>>, <<2, 1>>}}
=============================================================================
