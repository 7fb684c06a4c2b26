--------------------------- MODULE PrimitiveRules ---------------------------
(***************************************************************************)
(* What the primitives of mlx/primitives.cpp compute, and their rules for  *)
(* vmap, jvp and vjp, each in terms of the operations of ArrayOps.         *)
(*                                                                         *)
(*   Apply(p, in)                 the outputs                              *)
(*   VmapRule(p, in, axes)        outputs on inputs of which some have a   *)
(*                                batch axis, and the batch axes           *)
(*   JvpRule(p, in, tangents, argnums)      tangents of the outputs        *)
(*   VjpRule(p, in, cotans, argnums, outs)  cotangents of the inputs asked *)
(*                                                                         *)
(* A rule that throws returns NoArrays.  VmapWrong, JvpWrong and VjpWrong  *)
(* name the cases in which a rule computes something else than it should.  *)
(***************************************************************************)
EXTENDS ArrayOps, TLC

NoArrays == <<>>
Batched(out, ax) == [outs |-> <<out>>, axes |-> <<ax>>]
NotBatched == [outs |-> NoArrays, axes |-> <<>>]

Each(argnums, F(_)) == [k \in DOMAIN argnums |-> F(argnums[k])] \o <<>>
Argument(argnums, k) == CHOOSE i \in DOMAIN argnums : argnums[i] = k

\* Axes at or behind the batch axis move one back.
Behind(axes, ax) == [k \in DOMAIN axes |-> IF ax > 0 /\ axes[k] >= ax THEN axes[k] + 1 ELSE axes[k]]
AxisBehind(axis, ax) == IF ax > 0 /\ ax <= axis THEN axis + 1 ELSE axis
FirstBatched(axes) ==
  IF \E k \in DOMAIN axes : axes[k] > 0 THEN axes[SelectInSeq(axes, LAMBDA ax : ax > 0)] ELSE 0

-----------------------------------------------------------------------------
(* Elementwise primitives *)

Unary == {"Negative", "Square", "Exp", "Log", "Sin", "Cos", "Sqrt", "StopGradient", "Full"}
Binary == {"Add", "Subtract", "Multiply", "Divide", "Maximum", "Minimum", "Greater", "NotEqual",
           "Power", "ArcTan2"}

UnaryOp(op, a) ==
  CASE op = "Negative" -> Negative(a)
    [] op = "Square" -> Square(a)
    [] op = "Exp" -> Exp(a)
    [] op = "Log" -> Log(a)
    [] op = "Sin" -> Sin(a)
    [] op = "Cos" -> Cos(a)
    [] op = "Sqrt" -> Sqrt(a)
    [] op = "StopGradient" -> Values(a)
    [] op = "Full" -> a
BinaryOp(op, a, b) ==
  CASE op = "Add" -> Add(a, b)
    [] op = "Subtract" -> Subtract(a, b)
    [] op = "Multiply" -> Multiply(a, b)
    [] op = "Divide" -> Divide(a, b)
    [] op = "Maximum" -> Maximum(a, b)
    [] op = "Minimum" -> Minimum(a, b)
    [] op = "Greater" -> Greater(a, b)
    [] op = "NotEqual" -> NotEqual(a, b)
    [] op = "Power" -> RaisedTo(a, b)
    [] op = "ArcTan2" -> ArcTan2(a, b)

\* vmap_binary_op, vmap_ternary_op: all arrays with the axes and the batch axis
\* where the first array has it.
vmap_op(in, axes) ==
  LET rank(k) == Rank(in[k]) + (IF axes[k] = 0 THEN 1 ELSE 0)
      ndim == FoldTo(Len(in), 0, LAMBDA n, k : Upper(n, rank(k)))
      axis(k) == ndim - Rank(in[k]) + axes[k]
      wide(k) == Reshape(in[k], [j \in 1 .. ndim - Rank(in[k]) |-> 1] \o in[k].shape)
      moved(k) == IF axis(k) = axis(1) THEN wide(k)
                  ELSE Transpose(wide(k), MovedTo(ndim, axis(k), axis(1)))
  IN  [in |-> [k \in DOMAIN in |-> moved(k)] \o <<>>, axis |-> axis(1)]

\* NotEqual gives back the axes of its inputs instead.
BinaryVmap(p, in, axes) ==
  LET v == vmap_op(in, axes)
  IN  [outs |-> <<BinaryOp(p.op, v.in[1], v.in[2])>>,
       axes |-> IF p.op = "NotEqual" THEN axes ELSE <<v.axis>>]
SelectVmap(p, in, axes) ==
  LET v == vmap_op(in, axes) IN Batched(Where(v.in[1], v.in[2], v.in[3]), v.axis)

\* With the output root: Sqrt::jvp computes it and calls the vjp.
SqrtPart(x, root) ==
  Divide(Multiply([Scalar(1) EXCEPT !.data[1] = Inverted(Number(2))], x), root)
UnaryJvp(p, in, t) ==
  CASE p.op = "Negative" -> Negative(t)
    [] p.op = "Square" -> Multiply(in[1], Multiply(Scalar(2), t))
    [] p.op = "Exp" -> Multiply(t, Exp(in[1]))
    [] p.op = "Log" -> Divide(t, in[1])
    [] p.op = "Sin" -> Multiply(t, Cos(in[1]))
    [] p.op = "Cos" -> Multiply(t, Negative(Sin(in[1])))
    [] p.op = "Sqrt" -> SqrtPart(t, Sqrt(in[1]))
    [] p.op = "Full" -> t
UnaryVjp(p, in, c, outs) ==
  CASE p.op = "Exp" -> Multiply(c, outs[1])
    [] p.op = "Sqrt" -> SqrtPart(c, outs[1])
    [] p.op = "Full" -> Multiply(c, in[1])
    [] OTHER -> UnaryJvp(p, in, c)

\* The gradient with respect to argument k of what comes along in x.
PartialOf(p, in, k, x) ==
  CASE p.op = "Add" -> x
    [] p.op = "Subtract" -> IF k = 2 THEN Negative(x) ELSE x
    [] p.op = "Multiply" -> Multiply(in[3 - k], x)
    [] p.op = "Divide" -> IF k = 1 THEN Divide(x, in[2])
                          ELSE Negative(Divide(Multiply(x, in[1]), Square(in[2])))
    [] p.op = "Maximum" ->
         Multiply(x, IF k = 1 THEN Greater(in[1], in[2]) ELSE LessEqual(in[1], in[2]))
    [] p.op = "Minimum" ->
         Multiply(x, IF k = 1 THEN Greater(in[2], in[1]) ELSE LessEqual(in[2], in[1]))
    [] p.op = "Power" ->
         LET out == RaisedTo(in[1], in[2])
         IN  Multiply(x, IF k = 1 THEN Multiply(RaisedTo(in[1], Subtract(in[2], Scalar(1))), in[2])
                         ELSE Where(out, Multiply(Log(in[1]), out), Scalar(0)))
    [] p.op = "ArcTan2" ->
         Multiply(IF k = 1 THEN in[2] ELSE Negative(in[1]),
                  Divide(x, Add(Square(in[1]), Square(in[2]))))
    [] OTHER -> ZerosLike(x)
\* Power::jvp takes the first tangent for both, ArcTan2::jvp the first two for its own.
BinaryJvp(p, in, tangents, argnums) ==
  LET tangent(i) == tangents[IF p.op = "Power" THEN 1 ELSE i]
      part(i) == PartialOf(p, in, argnums[i], tangent(i))
  IN  IF p.op = "ArcTan2" /\ Len(tangents) < 2 THEN Invalid
      ELSE IF Len(argnums) > 1 THEN Add(part(1), part(2)) ELSE part(1)
BinaryVjp(p, in, c, argnums) == Each(argnums, LAMBDA k : PartialOf(p, in, k, c))

\* Arguments of the condition, its first and its second branch.  The jvp takes the
\* number of an argument for its place among the tangents.
SelectPart(in, k, x) ==
  IF k = 1 THEN ZerosLike(in[1]) ELSE Multiply(IF k = 2 THEN in[1] ELSE LogicalNot(in[1]), x)
SelectJvp(in, tangents, argnums) ==
  LET part(i) == SelectPart(in, argnums[i], tangents[argnums[i]])
  IN  IF \E k \in DOMAIN argnums : argnums[k] > Len(argnums) THEN Invalid
      ELSE FoldTo(Len(argnums) - 1, part(argnums[1]), LAMBDA x, i : Add(x, part(argnums[i + 1])))
SelectVjp(in, c, argnums) == Each(argnums, LAMBDA k : SelectPart(in, k, c))

-----------------------------------------------------------------------------
(* Shapes *)

broadcast_vjp(primal, c) ==
  LET diff == Rank(c) - Rank(primal)
      axes == {j \in 1 .. Rank(c) : j <= diff \/ primal.shape[j - diff] # c.shape[j]}
  IN  Squeeze(Sum(c, Ascending(axes)), Count(diff))
BroadcastVmap(p, in, axes) ==
  LET ax == axes[1] + Len(p.shape) - Rank(in[1]) + 1
  IN  Batched(BroadcastTo(in[1], InsertAt(p.shape, ax, in[1].shape[axes[1]])), ax)

ReshapeVmap(p, in, axes) ==
  LET first == Transpose(in[1], MovedTo(Rank(in[1]), axes[1], 1))
  IN  Batched(Reshape(first, <<in[1].shape[axes[1]]>> \o p.shape), 1)

\* Mutant: a batch axis right behind the flattened ones is moved too.
FlattenVmapTooFar(p, in, axes) ==
  LET ax == axes[1]
  IN  IF ax < p.start THEN Batched(Flatten(in[1], p.start + 1, p.end + 1), ax)
      ELSE IF ax <= p.end + 1
      THEN Batched(Flatten(Moveaxis(in[1], ax, 1), p.start, p.end), 1)
      ELSE Batched(Flatten(in[1], p.start, p.end), ax - (p.end - p.start))

FlattenVmap(p, in, axes) ==
  LET ax == axes[1]
  IN  IF ax < p.start THEN Batched(Flatten(in[1], p.start + 1, p.end + 1), ax)
      ELSE IF ax <= p.end
      THEN Batched(Flatten(Moveaxis(in[1], ax, 1), p.start + 1, p.end + 1), 1)
      ELSE Batched(Flatten(in[1], p.start, p.end), ax - (p.end - p.start))
UnflattenVmap(p, in, axes) ==
  IF axes[1] <= p.axis THEN Batched(Unflatten(in[1], p.axis + 1, p.shape), axes[1])
  ELSE Batched(Unflatten(in[1], p.axis, p.shape), axes[1] + Len(p.shape) - 1)

Before(axes, ax) == Cardinality({k \in DOMAIN axes : axes[k] < ax})
ExpandDimsVmap(p, in, axes) ==
  Batched(ExpandDims(in[1], Behind(p.axes, axes[1])), axes[1] + Before(p.axes, axes[1]))
SqueezeVmap(p, in, axes) ==
  Batched(Squeeze(in[1], Behind(p.axes, axes[1])), axes[1] - Before(p.axes, axes[1]))

TransposeVmap(p, in, axes) ==
  Batched(Transpose(in[1], InsertAt(Behind(p.axes, axes[1]), axes[1], axes[1])), axes[1])
TransposeVjp(p, c) ==
  Transpose(c, [j \in DOMAIN p.axes |-> CHOOSE i \in DOMAIN p.axes : p.axes[i] = j])

-----------------------------------------------------------------------------
(* Joins and slices *)

ConcatenateVmap(p, in, axes) ==
  LET ax == FirstBatched(axes)
      first == in[SelectInSeq(axes, LAMBDA x : x > 0)]
      axis == IF p.axis >= ax THEN p.axis + 1 ELSE p.axis
      shape(k) == [first.shape EXCEPT ![axis] = in[k].shape[p.axis]]
      part(k) == IF axes[k] > 0 THEN Moveaxis(in[k], axes[k], ax)
                 ELSE BroadcastTo(ExpandDims(in[k], <<ax>>), shape(k))
  IN  Batched(Concatenate([k \in DOMAIN in |-> part(k)], axis), ax)
ConcatenateJvp(p, in, tangents, argnums) ==
  Concatenate([k \in DOMAIN in |-> IF k \in ToSet(argnums) THEN tangents[Argument(argnums, k)]
                                   ELSE ZerosLike(in[k])], p.axis)
ConcatenateVjp(p, in, c, argnums) ==
  LET end(k) == FoldTo(k, 0, LAMBDA n, j : n + in[j].shape[p.axis])
      strides == [j \in 1 .. Rank(c) |-> 1]
  IN  Each(argnums, LAMBDA k :
        Slice(c, [j \in 1 .. Rank(c) |-> IF j = p.axis THEN end(k - 1) ELSE 0],
              [c.shape EXCEPT ![p.axis] = end(k)], strides))

SplitVmap(p, in, axes) ==
  LET parts == Split(in[1], p.indices, AxisBehind(p.axis, axes[1]))
  IN  [outs |-> parts, axes |-> [k \in DOMAIN parts |-> axes[1]]]

\* A slice keeps normalized starts and strides, the stop as it was given, and its shape.
SlicePrimitive(op, shape, start, stop, strides) ==
  LET axes == SliceAxes([shape |-> shape], start, stop, strides)
  IN  [op |-> op, start |-> [j \in DOMAIN axes |-> axes[j].first], stop |-> stop,
       strides |-> [j \in DOMAIN axes |-> axes[j].stride], shape |-> SizesOf(axes)]
Sliced(p, a) ==
  Build(p.shape, LAMBDA ix :
    At(a, [j \in DOMAIN ix |-> p.start[j] + (ix[j] - 1) * p.strides[j] + 1]))
Updated(p, a, upd) ==
  LET hits(ix, at) == \A j \in DOMAIN ix : p.start[j] + (at[j] - 1) * p.strides[j] + 1 = ix[j]
      places == [k \in 1 .. SizeOf(p.shape) |-> Index(p.shape, k)]
  IN  Build(a.shape, LAMBDA ix :
        IF \E k \in DOMAIN places : hits(ix, places[k])
        THEN At(upd, places[CHOOSE k \in DOMAIN places : hits(ix, places[k])]) ELSE At(a, ix))

SliceVmap(p, in, axes) ==
  LET ax == axes[1]
  IN  Batched(Slice(in[1], InsertAt(p.start, ax, 0), InsertAt(p.stop, ax, in[1].shape[ax]),
                    InsertAt(p.strides, ax, 1)), ax)
SliceVjp(p, in, c) == SliceUpdate(ZerosLike(in[1]), c, p.start, p.stop, p.strides)

\* Source and update with their batch axis in the same place.
SourceAndUpdate(in, axes) ==
  LET ax == IF axes[1] > 0 THEN axes[1] ELSE axes[2]
      size == in[IF axes[1] > 0 THEN 1 ELSE 2].shape[ax]
      wide == ExpandDims(in[1], <<ax>>)
  IN  [axis |-> ax, size |-> size,
       src |-> IF axes[1] > 0 THEN in[1] ELSE BroadcastTo(wide, [wide.shape EXCEPT ![ax] = size]),
       upd |-> IF axes[2] > 0 THEN Moveaxis(in[2], axes[2], ax) ELSE ExpandDims(in[2], <<ax>>)]
SliceUpdateVmap(p, in, axes) ==
  LET v == SourceAndUpdate(in, axes)
  IN  Batched(SliceUpdate(v.src, v.upd, InsertAt(p.start, v.axis, 0),
                          InsertAt(p.stop, v.axis, v.size), InsertAt(p.strides, v.axis, 1)), v.axis)
\* Both jvps of updates take the first two tangents for those of source and update.
SliceUpdateJvp(p, tangents) ==
  IF Len(tangents) < 2 THEN Invalid
  ELSE SliceUpdate(tangents[1], tangents[2], p.start, p.stop, p.strides)
SliceUpdateVjp(p, in, c, argnums) ==
  Each(argnums, LAMBDA k :
    IF k = 1 THEN SliceUpdate(c, ZerosLike(in[2]), p.start, p.stop, p.strides)
    ELSE Slice(c, p.start, p.stop, p.strides))

DynamicSliceVmap(p, in, axes) ==
  IF axes[2] > 0 THEN NotBatched
  ELSE Batched(DynamicSlice(in[1], in[2], Behind(p.axes, axes[1]),
                            InsertAt(p.size, axes[1], in[1].shape[axes[1]])), axes[1])
DynamicSliceVjp(p, in, c, argnums) ==
  IF argnums # <<1>> THEN NoArrays ELSE <<DynamicUpdate(ZerosLike(in[1]), c, in[2], p.axes)>>
DynamicSliceUpdateVmap(p, in, axes) ==
  IF axes[3] > 0 THEN NotBatched
  ELSE LET v == SourceAndUpdate(in, axes)
       IN  Batched(DynamicUpdate(v.src, v.upd, in[3], Behind(p.axes, v.axis)), v.axis)
DynamicSliceUpdateJvp(p, in, tangents) ==
  IF Len(tangents) < 2 THEN Invalid ELSE DynamicUpdate(tangents[1], tangents[2], in[3], p.axes)
DynamicSliceUpdateVjp(p, in, c, argnums) ==
  IF 3 \in ToSet(argnums) THEN NoArrays
  ELSE Each(argnums, LAMBDA k :
         IF k = 1 THEN DynamicUpdate(c, ZerosLike(in[2]), in[3], p.axes)
         ELSE DynamicSlice(c, in[3], p.axes, in[2].shape))

\* The vjp reads the widths of axis j at place j, whichever axes are padded.
PadVjp(p, c) ==
  IF \E j \in ToSet(p.axes) : j > Len(p.axes) THEN Invalid
  ELSE Slice(c, [j \in 1 .. Rank(c) |-> IF j \in ToSet(p.axes) THEN p.low[j] ELSE 0],
             [j \in 1 .. Rank(c) |-> c.shape[j] - IF j \in ToSet(p.axes) THEN p.high[j] ELSE 0],
             [j \in 1 .. Rank(c) |-> 1])

-----------------------------------------------------------------------------
(* Reductions, scans and sorts: one array, one output *)

ReduceOp(op, a, axes) ==
  CASE op = "Sum" -> Sum(a, axes)
    [] op = "Prod" -> Product(a, axes)
    [] op = "Max" -> Largest(a, axes)

\* The product of the elements before and behind each one, without a division.
ProductVjp(x, c, ax) ==
  Multiply(Multiply(CumProd(x, ax, FALSE, FALSE), CumProd(x, ax, TRUE, FALSE)), c)

\* Several axes are moved to the back and flattened, and the gradient moved back.
ProductVjpOver(a, c, axes) ==
  LET others == SelectSeq(Count(Rank(a)), LAMBDA j : j \notin ToSet(axes))
      to == others \o axes
      moved == Transpose(a, to)
      kept == [j \in DOMAIN others |-> a.shape[others[j]]]
      flat(x) == Reshape(x, kept \o <<Len(x.data) \div SizeOf(kept)>>)
      grad == ProductVjp(flat(moved), flat(c), Len(kept) + 1)
  IN  Transpose(Reshape(grad, moved.shape),
                [j \in DOMAIN to |-> CHOOSE i \in DOMAIN to : to[i] = j])

ReduceVjp(p, in, c, outs) ==
  CASE p.op = "Sum" -> BroadcastArrays(<<c, in[1]>>, {})[1]
    [] p.op = "Prod" -> IF Len(p.axes) > 1 THEN ProductVjpOver(in[1], c, p.axes)
                        ELSE ProductVjp(in[1], c, p.axes[1])
    [] p.op = "Max" -> LET mask == Equal(in[1], outs[1])
                       IN  Multiply(Divide(c, Sum(mask, p.axes)), mask)

ScanOp(p, a, axis) ==
  IF p.op = "CumSum" THEN CumSum(a, axis, p.reverse, p.inclusive)
  ELSE CumProd(a, axis, p.reverse, p.inclusive)

\* Behind the first zero of a product the gradient is zero; at that zero it is the
\* one of the product with a 1 in its place; before it a division gives it.
CumProdVjp(p, a, c, outs) ==
  LET other == CumProd(a, p.axis, p.reverse, ~p.inclusive)
      exclusive == IF p.inclusive THEN other ELSE outs[1]
      inclusive == IF p.inclusive THEN outs[1] ELSE other
      zero == Scalar(0)
      eq_zero == Equal(inclusive, zero)
      first_zero == LogicalAnd(eq_zero, NotEqual(exclusive, zero))
      partial(x) == CumSum(Multiply(x, c), p.axis, ~p.reverse, p.inclusive)
      with_one == CumProd(Where(first_zero, Scalar(1), a), p.axis, p.reverse, p.inclusive)
  IN  Where(first_zero, partial(with_one),
            Where(eq_zero, zero, Divide(partial(outs[1]), a)))
ScanVjp(p, in, c, outs) ==
  IF p.op = "CumSum" THEN CumSum(c, p.axis, ~p.reverse, p.inclusive)
  ELSE CumProdVjp(p, in[1], c, outs)

\* The axis of a sort may count from the end, and does so still with a batch axis.
SortVmap(p, in, axes) ==
  LET axis == AxisBehind(p.axis, axes[1])
  IN  Batched(IF p.op = "Sort" THEN Sort(in[1], axis) ELSE ArgSort(in[1], axis), axes[1])
\* Its vjp is its jvp.
SortJvp(p, in, t) == TakeAlongAxis(t, ArgSort(in[1], p.axis), p.axis)

LogSumExpVmap(in, axes) ==
  IF axes[1] = Rank(in[1])
  THEN Batched(LogSumExp(Swapaxes(in[1], -1, -2), <<-1>>), axes[1] - 1)
  ELSE Batched(LogSumExp(in[1], <<-1>>), axes[1])
SoftmaxVmap(in, axes) ==
  Batched(Softmax(in[1], IF axes[1] < Rank(in[1]) THEN <<-1>> ELSE <<-2>>), axes[1])
SoftmaxPart(s, x) == LET sv == Multiply(s, x) IN Subtract(sv, Multiply(s, Sum(sv, <<-1>>)))

-----------------------------------------------------------------------------
(* Products *)

ToFront(a, ax) == IF ax > 1 THEN Moveaxis(a, ax, 1) ELSE a
MatmulVmap(in, axes) == Batched(Matmul(ToFront(in[1], axes[1]), ToFront(in[2], axes[2])), 1)
AddMMVmap(p, in, axes) ==
  Batched(AddMM(ToFront(in[3], axes[3]), ToFront(in[1], axes[1]), ToFront(in[2], axes[2]),
                p.alpha, p.beta), 1)

\* The jvp of AddMM leaves alpha and beta out.
MatmulPart(in, k, t) ==
  CASE k = 1 -> Matmul(t, in[2])
    [] k = 2 -> Matmul(in[1], t)
    [] k = 3 -> t
MatmulJvp(in, tangents, argnums) ==
  LET part(i) == MatmulPart(in, argnums[i], tangents[i])
  IN  FoldTo(Len(argnums) - 1, part(1), LAMBDA x, i : Add(x, part(i + 1)))
MatmulVjp(in, c, argnums, alpha, beta) ==
  Each(argnums, LAMBDA k :
    CASE k = 1 -> Matmul(Multiply(Scalar(alpha), c), Swapaxes(in[2], -1, -2))
      [] k = 2 -> Matmul(Swapaxes(in[1], -1, -2), Multiply(Scalar(alpha), c))
      [] k = 3 -> Multiply(Scalar(beta), c))

-----------------------------------------------------------------------------
(* Gathers and scatters *)

\* Indices get their batch axes to one place.  A batched source adds an index array
\* of its own there, or, with indices that are not batched, an axis to the slice.
GatherVmap(p, in, axes) ==
  LET ax == axes[1]
      out == FirstBatched(Tail(axes))
      indexed == out > 0
      moved(k) == IF ~indexed THEN in[k + 1]
                  ELSE IF axes[k + 1] > 0 THEN Moveaxis(in[k + 1], axes[k + 1], out)
                  ELSE ExpandDims(in[k + 1], <<out>>)
      indices == [k \in 1 .. Len(in) - 1 |-> moved(k)] \o <<>>
      n == IF indices = <<>> THEN 0 ELSE Rank(indices[1])
      size == in[1].shape[ax]
      batch == Reshape(Arange(size), [j \in 1 .. n |-> IF j = out THEN size ELSE 1])
      shifted == Behind(p.axes, ax)
  IN  CASE ax = 0 -> Batched(Gather(in[1], indices, p.axes, p.sizes), out)
        [] ax > 0 /\ indexed ->
             Batched(Squeeze(Gather(in[1], Append(indices, batch), Append(shifted, ax),
                                    InsertAt(p.sizes, ax, 1)), <<n + ax>>), out)
        [] OTHER -> Batched(Gather(in[1], indices, shifted, InsertAt(p.sizes, ax, size)), n + ax)

GatherVjp(p, in, c, argnums) ==
  Each(argnums, LAMBDA k :
    IF k > 1 THEN ZerosLike(in[k]) ELSE Scatter(ZerosLike(in[1]), Tail(in), c, p.axes, Plus))

GatherAxisVmap(p, in, axes) ==
  LET out == FirstBatched(axes)
      a == IF axes[1] > 0 THEN in[1] ELSE ExpandDims(in[1], <<out>>)
      idx == IF axes[1] > 0 /\ axes[2] > 0 THEN Moveaxis(in[2], axes[2], axes[1])
             ELSE IF axes[1] > 0 THEN ExpandDims(in[2], <<out>>) ELSE in[2]
  IN  Batched(TakeAlongAxis(a, idx, AxisBehind(p.axis, out)), out)
GatherAxisVjp(p, in, c, argnums) ==
  Each(argnums, LAMBDA k :
    IF k > 1 THEN ZerosLike(in[k])
    ELSE ScatterAlongAxis(ZerosLike(in[1]), in[2], c, p.axis, Plus))

Combined(kind, x, y) ==
  CASE kind = "None" -> y
    [] kind = "Sum" -> Plus(x, y)
    [] kind = "Max" -> Larger(x, y)
ScatterOp(p, in) ==
  Scatter(in[1], Tail(Front(in)), Last(in), p.axes, LAMBDA x, y : Combined(p.kind, x, y))

\* Source, indices and updates all get the batch axis, the indices and updates in front;
\* one more index array sends each example to its own source.
ScatterVmap(p, in, axes) ==
  LET n == Len(in)
      size == LET k == SelectInSeq(axes, LAMBDA ax : ax > 0) IN in[k].shape[axes[k]]
      repeated(a) == Repeat(ExpandDims(a, <<1>>), size, 1)
      src_ax == IF axes[1] > 0 THEN axes[1] ELSE 1
      src == IF axes[1] > 0 THEN in[1] ELSE repeated(in[1])
      index(k) == IF axes[k] > 0 THEN Moveaxis(in[k], axes[k], 1) ELSE repeated(in[k])
      indices == [k \in 1 .. n - 2 |-> index(k + 1)] \o <<>>
      d == Rank(indices[1])
      row == Reshape(Arange(size), [j \in 1 .. d |-> IF j = 1 THEN size ELSE 1])
      batch == BroadcastTo(row, indices[1].shape)
      upd == IF axes[n] > 0 THEN Moveaxis(ExpandDims(in[n], <<d + 1>>), axes[n], 1)
             ELSE Repeat(ExpandDims(in[n], <<1, d + 1>>), size, 1)
      vmapped == [p EXCEPT !.axes = Append(Behind(@, src_ax), src_ax)]
  IN  Batched(ScatterOp(vmapped, <<src>> \o Append(indices, batch) \o <<upd>>), src_ax)

\* Mutant: what an update replaced keeps its gradient.
ScatterVjpKept(p, in, c, argnums, outs) ==
  LET indices == Tail(Front(in))
      sizes == [j \in 1 .. Rank(c) |-> IF j \in ToSet(p.axes) THEN 1 ELSE c.shape[j]]
      gathered(a) == Gather(a, indices, p.axes, sizes)
  IN  IF \E k \in ToSet(argnums) : k \notin {1, Len(in)} THEN NoArrays
      ELSE Each(argnums, LAMBDA k : IF k = 1 THEN c ELSE gathered(c))

ScatterVjp(p, in, c, argnums, outs) ==
  LET indices == Tail(Front(in))
      sizes == [j \in 1 .. Rank(c) |-> IF j \in ToSet(p.axes) THEN 1 ELSE c.shape[j]]
      gathered(a) == Gather(a, indices, p.axes, sizes)
      source == CASE p.kind = "None" -> ScatterOp(p, <<c>> \o indices \o <<ZerosLike(Last(in))>>)
                  [] p.kind = "Sum" -> c
                  [] p.kind = "Max" -> Where(Equal(outs[1], in[1]), c, Scalar(0))
      updates == IF p.kind = "Max" THEN Multiply(gathered(c), Equal(gathered(outs[1]), Last(in)))
                 ELSE gathered(c)
  IN  IF \E k \in ToSet(argnums) : k \notin {1, Len(in)} THEN NoArrays
      ELSE Each(argnums, LAMBDA k : IF k = 1 THEN source ELSE updates)

ScatterAxisOp(p, a, indices, values, axis) ==
  ScatterAlongAxis(a, indices, values, axis, LAMBDA x, y : Combined(p.kind, x, y))
ScatterAxisVmap(p, in, axes) ==
  LET out == FirstBatched(axes)
      moved(k) == IF axes[k] > 0 THEN Moveaxis(in[k], axes[k], out) ELSE ExpandDims(in[k], <<out>>)
  IN  Batched(ScatterAxisOp(p, moved(1), moved(2), moved(3), AxisBehind(p.axis, out)), out)
ScatterAxisJvp(p, in, tangents, argnums) ==
  LET tangent(k) == IF k \in ToSet(argnums) THEN tangents[Argument(argnums, k)]
                    ELSE ZerosLike(in[k])
  IN  IF 2 \in ToSet(argnums) THEN NoArrays
      ELSE <<ScatterAxisOp(p, tangent(1), in[2], tangent(3), p.axis)>>
ScatterAxisVjp(p, in, c, argnums) ==
  LET source == IF p.kind = "None" THEN ScatterAxisOp(p, c, in[2], ZerosLike(in[3]), p.axis) ELSE c
  IN  IF 2 \in ToSet(argnums) THEN NoArrays
      ELSE Each(argnums, LAMBDA k : IF k = 1 THEN source ELSE TakeAlongAxis(c, in[2], p.axis))

-----------------------------------------------------------------------------
(* All primitives *)

Reductions == {"Sum", "Prod", "Max"}
Scans == {"CumSum", "CumProd"}
\* The jvp of these is the operation itself.
Linear == {"Broadcast", "Reshape", "Flatten", "Unflatten", "ExpandDims", "Squeeze", "Transpose",
           "Split", "CumSum"}

Apply(p, in) ==
  CASE p.op \in Unary -> <<UnaryOp(p.op, in[1])>>
    [] p.op \in Binary -> <<BinaryOp(p.op, in[1], in[2])>>
    [] p.op = "Select" -> <<Where(in[1], in[2], in[3])>>
    [] p.op = "Broadcast" -> <<BroadcastTo(in[1], p.shape)>>
    [] p.op = "Reshape" -> <<Reshape(in[1], p.shape)>>
    [] p.op = "Flatten" -> <<Flatten(in[1], p.start, p.end)>>
    [] p.op = "Unflatten" -> <<Unflatten(in[1], p.axis, p.shape)>>
    [] p.op = "ExpandDims" -> <<ExpandDims(in[1], p.axes)>>
    [] p.op = "Squeeze" -> <<Squeeze(in[1], p.axes)>>
    [] p.op = "Transpose" -> <<Transpose(in[1], p.axes)>>
    [] p.op = "Concatenate" -> <<Concatenate(in, p.axis)>>
    [] p.op = "Split" -> Split(in[1], p.indices, p.axis)
    [] p.op = "Slice" -> <<Sliced(p, in[1])>>
    [] p.op = "SliceUpdate" -> <<Updated(p, in[1], in[2])>>
    [] p.op = "DynamicSlice" -> <<DynamicSlice(in[1], in[2], p.axes, p.size)>>
    [] p.op = "DynamicSliceUpdate" -> <<DynamicUpdate(in[1], in[2], in[3], p.axes)>>
    [] p.op = "Pad" -> <<Pad(in[1], p.axes, p.low, p.high, in[2].data[1])>>
    [] p.op \in Reductions -> <<ReduceOp(p.op, in[1], p.axes)>>
    [] p.op \in Scans -> <<ScanOp(p, in[1], p.axis)>>
    [] p.op = "ArgMin" -> <<ArgMin(in[1], p.axis)>>
    [] p.op = "Sort" -> <<Sort(in[1], p.axis)>>
    [] p.op = "ArgSort" -> <<ArgSort(in[1], p.axis)>>
    [] p.op = "LogSumExp" -> <<LogSumExp(in[1], <<-1>>)>>
    [] p.op = "Softmax" -> <<Softmax(in[1], <<-1>>)>>
    [] p.op = "Matmul" -> <<Matmul(in[1], in[2])>>
    [] p.op = "AddMM" -> <<AddMM(in[3], in[1], in[2], p.alpha, p.beta)>>
    [] p.op = "Gather" -> <<Gather(in[1], Tail(in), p.axes, p.sizes)>>
    [] p.op = "GatherAxis" -> <<TakeAlongAxis(in[1], in[2], p.axis)>>
    [] p.op = "Scatter" -> <<ScatterOp(p, in)>>
    [] p.op = "ScatterAxis" -> <<ScatterAxisOp(p, in[1], in[2], in[3], p.axis)>>

VmapRule(p, in, axes) ==
  LET ax == axes[1] IN
  CASE p.op \in Unary -> Batched(UnaryOp(p.op, in[1]), ax)
    [] p.op \in Binary -> BinaryVmap(p, in, axes)
    [] p.op = "Select" -> SelectVmap(p, in, axes)
    [] p.op = "Broadcast" -> BroadcastVmap(p, in, axes)
    [] p.op = "Reshape" -> ReshapeVmap(p, in, axes)
    [] p.op = "Flatten" -> FlattenVmap(p, in, axes)
    [] p.op = "Unflatten" -> UnflattenVmap(p, in, axes)
    [] p.op = "ExpandDims" -> ExpandDimsVmap(p, in, axes)
    [] p.op = "Squeeze" -> SqueezeVmap(p, in, axes)
    [] p.op = "Transpose" -> TransposeVmap(p, in, axes)
    [] p.op = "Concatenate" -> ConcatenateVmap(p, in, axes)
    [] p.op = "Split" -> SplitVmap(p, in, axes)
    [] p.op = "Slice" -> SliceVmap(p, in, axes)
    [] p.op = "SliceUpdate" -> SliceUpdateVmap(p, in, axes)
    [] p.op = "DynamicSlice" -> DynamicSliceVmap(p, in, axes)
    [] p.op = "DynamicSliceUpdate" -> DynamicSliceUpdateVmap(p, in, axes)
    [] p.op = "Pad" -> NotBatched
    [] p.op \in Reductions -> Batched(ReduceOp(p.op, in[1], Behind(p.axes, ax)), ax)
    [] p.op \in Scans -> Batched(ScanOp(p, in[1], AxisBehind(p.axis, ax)), ax)
    [] p.op = "ArgMin" -> Batched(ArgMin(in[1], AxisBehind(p.axis, ax)), ax)
    [] p.op \in {"Sort", "ArgSort"} -> SortVmap(p, in, axes)
    [] p.op = "LogSumExp" -> LogSumExpVmap(in, axes)
    [] p.op = "Softmax" -> SoftmaxVmap(in, axes)
    [] p.op = "Matmul" -> MatmulVmap(in, axes)
    [] p.op = "AddMM" -> AddMMVmap(p, in, axes)
    [] p.op = "Gather" -> GatherVmap(p, in, axes)
    [] p.op = "GatherAxis" -> GatherAxisVmap(p, in, axes)
    [] p.op = "Scatter" -> ScatterVmap(p, in, axes)
    [] p.op = "ScatterAxis" -> ScatterAxisVmap(p, in, axes)

JvpRule(p, in, tangents, argnums) ==
  LET t == tangents[1]
      indexed == argnums # <<1>>
  IN
  CASE p.op \in Linear -> Apply(p, <<t>>)
    [] p.op \in Unary -> <<UnaryJvp(p, in, t)>>
    [] p.op \in Binary -> <<BinaryJvp(p, in, tangents, argnums)>>
    [] p.op = "Select" -> <<SelectJvp(in, tangents, argnums)>>
    [] p.op = "Concatenate" -> <<ConcatenateJvp(p, in, tangents, argnums)>>
    [] p.op = "Slice" -> <<Slice(t, p.start, p.stop, p.strides)>>
    [] p.op = "SliceUpdate" -> <<SliceUpdateJvp(p, tangents)>>
    [] p.op = "DynamicSlice" -> <<DynamicSlice(t, in[2], p.axes, p.size)>>
    [] p.op = "DynamicSliceUpdate" -> <<DynamicSliceUpdateJvp(p, in, tangents)>>
    [] p.op = "Pad" -> <<Pad(t, p.axes, p.low, p.high, Zero)>>
    [] p.op \in {"ArgMin", "ArgSort"} -> <<ZerosLike(Apply(p, in)[1])>>
    [] p.op = "Sort" -> <<SortJvp(p, in, t)>>
    [] p.op = "LogSumExp" -> <<Multiply(t, Softmax(in[1], <<-1>>))>>
    [] p.op = "Softmax" -> <<SoftmaxPart(Softmax(in[1], <<-1>>), t)>>
    [] p.op \in {"Matmul", "AddMM"} -> <<MatmulJvp(in, tangents, argnums)>>
    [] p.op = "Gather" -> IF indexed THEN NoArrays ELSE <<Gather(t, Tail(in), p.axes, p.sizes)>>
    [] p.op = "GatherAxis" -> IF indexed THEN NoArrays ELSE <<TakeAlongAxis(t, in[2], p.axis)>>
    [] p.op = "ScatterAxis" -> ScatterAxisJvp(p, in, tangents, argnums)
    [] OTHER -> NoArrays

VjpRule(p, in, cotans, argnums, outs) ==
  LET c == cotans[1] IN
  CASE p.op \in Unary -> <<UnaryVjp(p, in, c, outs)>>
    [] p.op \in Binary -> BinaryVjp(p, in, c, argnums)
    [] p.op = "Select" -> SelectVjp(in, c, argnums)
    [] p.op = "Broadcast" -> <<broadcast_vjp(in[1], c)>>
    [] p.op = "Reshape" -> <<Reshape(c, in[1].shape)>>
    [] p.op = "Flatten" -> <<Unflatten(c, p.start, SubSeq(in[1].shape, p.start, p.end))>>
    [] p.op = "Unflatten" -> <<Flatten(c, p.axis, p.axis + Len(p.shape) - 1)>>
    [] p.op = "ExpandDims" -> <<Squeeze(c, p.axes)>>
    [] p.op = "Squeeze" -> <<ExpandDims(c, p.axes)>>
    [] p.op = "Transpose" -> <<TransposeVjp(p, c)>>
    [] p.op = "Concatenate" -> ConcatenateVjp(p, in, c, argnums)
    [] p.op = "Split" -> <<Concatenate(cotans, p.axis)>>
    [] p.op = "Slice" -> <<SliceVjp(p, in, c)>>
    [] p.op = "SliceUpdate" -> SliceUpdateVjp(p, in, c, argnums)
    [] p.op = "DynamicSlice" -> DynamicSliceVjp(p, in, c, argnums)
    [] p.op = "DynamicSliceUpdate" -> DynamicSliceUpdateVjp(p, in, c, argnums)
    [] p.op = "Pad" -> <<PadVjp(p, c)>>
    [] p.op \in Reductions -> <<ReduceVjp(p, in, c, outs)>>
    [] p.op \in Scans -> <<ScanVjp(p, in, c, outs)>>
    [] p.op \in {"ArgMin", "ArgSort"} -> <<ZerosLike(in[1])>>
    [] p.op = "Sort" -> <<SortJvp(p, in, c)>>
    [] p.op = "LogSumExp" -> <<Multiply(c, Softmax(in[1], <<-1>>))>>
    [] p.op = "Softmax" -> <<SoftmaxPart(outs[1], c)>>
    [] p.op = "Matmul" -> MatmulVjp(in, c, argnums, 1, 1)
    [] p.op = "AddMM" -> MatmulVjp(in, c, argnums, p.alpha, p.beta)
    [] p.op = "Gather" -> GatherVjp(p, in, c, argnums)
    [] p.op = "GatherAxis" -> GatherAxisVjp(p, in, c, argnums)
    [] p.op = "Scatter" -> ScatterVjp(p, in, c, argnums, outs)
    [] p.op = "ScatterAxis" -> ScatterAxisVjp(p, in, c, argnums)

\* The methods that a transformation calls of a primitive, whichever it is.
Methods ==
  [eval |-> [p \in Any, in \in Any |-> Apply(p, in)],
   vmap |-> [p \in Any, in \in Any, axes \in Any |-> VmapRule(p, in, axes)],
   jvp  |-> [p \in Any, in \in Any, tangents \in Any, argnums \in Any |->
               JvpRule(p, in, tangents, argnums)],
   vjp  |-> [p \in Any, in \in Any, cotans \in Any, argnums \in Any, outs \in Any |->
               VjpRule(p, in, cotans, argnums, outs)]]

-----------------------------------------------------------------------------
(* What is not as it should be *)

\* The rules that throw.
VmapThrows(p, axes) ==
  \/ p.op = "Pad"
  \/ p.op = "DynamicSlice" /\ axes[2] > 0
  \/ p.op = "DynamicSliceUpdate" /\ axes[3] > 0
JvpThrows(p, argnums) ==
  \/ p.op \in Reductions \union {"CumProd", "Scatter"}
  \/ p.op \in {"Gather", "GatherAxis"} /\ argnums # <<1>>
  \/ p.op = "ScatterAxis" /\ 2 \in ToSet(argnums)
VjpThrows(p, argnums, n) ==
  \/ p.op = "DynamicSlice" /\ argnums # <<1>>
  \/ p.op = "DynamicSliceUpdate" /\ 3 \in ToSet(argnums)
  \/ p.op = "Scatter" /\ ~ ToSet(argnums) \subseteq {1, n}
  \/ p.op = "ScatterAxis" /\ 2 \in ToSet(argnums)

\* A slice is normalized once more by every rule, with the stride 1 that an axis of one
\* element got: x[::-1] of one element becomes empty.
Renormalizes(p, a) ==
  p.op \in {"Slice", "SliceUpdate"} /\ SizesOf(SliceAxes(a, p.start, p.stop, p.strides)) # p.shape

\* in: the inputs without their batch axes.
VmapWrong(p, in, axes) ==
  LET ax == axes[1]
      a == in[1]
      updates == Last(in)
  IN
  \/ Renormalizes(p, a)
  \* Axes are renumbered against the batch axis of the input, not of the output.
  \/ p.op = "ExpandDims" /\ \E k \in DOMAIN p.axes :
       p.axes[k] \in ax .. ax + Before(p.axes, p.axes[k]) - 1
  \* An axis from the end counts the batch axis.
  \/ p.op \in {"Sort", "ArgSort"} /\ p.axis < 0 /\ ax >= Rank(a) + 2 + p.axis
  \* The axes of the inputs are returned for that of the output.
  \/ p.op = "NotEqual" /\ ax = 0
  \* The axis for the batch goes in front of the slice, and an update's batch axis is
  \* looked for where it was before.
  \/ p.op = "Scatter" /\ LET slice == SubSeq(updates.shape, Rank(updates) - Rank(a) + 1, Rank(updates))
                             indexed == Rank(updates) - Rank(a)
                         IN  \/ ax > 0 /\ InsertAt(slice, ax, 1) # InsertAt(slice, 1, 1)
                             \/ Last(axes) > indexed + 1
  \* An update that is not mapped gets a batch of one, and only the first example is updated.
  \/ p.op = "DynamicSliceUpdate" /\ axes[1] > 0 /\ axes[2] = 0
JvpWrong(p, in, argnums) ==
  \/ Renormalizes(p, in[1])
  \/ p.op = "AddMM" /\ (p.alpha # 1 \/ p.beta # 1)
  \/ p.op = "LogSumExp"
  \/ p.op = "Power" /\ Len(argnums) > 1
  \/ p.op = "ArcTan2" /\ Len(argnums) < 2
  \/ p.op = "Select" /\ \E k \in ToSet(argnums) : k > Len(argnums)
  \/ p.op \in {"SliceUpdate", "DynamicSliceUpdate"} /\ Len(argnums) < 2
VjpWrong(p, in, argnums) ==
  \/ Renormalizes(p, in[1])
  \/ p.op \in {"Sort", "Full"}
  \/ p.op = "Pad" /\ \E k \in DOMAIN p.axes : p.axes[k] # k
  \* Whole slices are gathered for the updates, whatever part of them was updated.
  \/ p.op = "Scatter" /\ Len(in) \in ToSet(argnums) /\
       LET a == in[1]
           updates == Last(in)
           skip == Rank(updates) - Rank(a)
       IN  \E j \in 1 .. Rank(a) :
             updates.shape[skip + j] # (IF j \in ToSet(p.axes) THEN 1 ELSE a.shape[j])
=============================================================================
