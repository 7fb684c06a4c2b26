------------------------------ MODULE ArrayOps ------------------------------
(***************************************************************************)
(* The operations of mlx/ops.cpp that the rules of the primitives use.     *)
(*                                                                         *)
(* An array is its shape and its data in row-major order.  A number is     *)
(* <<value, derivative>>, both modulo the prime P: a function evaluated on *)
(* such numbers gives its derivative along a direction, exactly, without   *)
(* any rule of the code.  exp and log are any functions with the right     *)
(* derivatives.  Element types are left out; an index is a number whose    *)
(* value is an offset, which counts from 0 as in the code.                 *)
(*                                                                         *)
(* Axes count from 1, and 0 is "not batched" (-1 in the code); negative    *)
(* axes count from the end, as in the code.  An operation that throws for  *)
(* its arguments returns Invalid where the rules can get that far.         *)
(***************************************************************************)
EXTENDS Integers, Sequences, FiniteSets, SequencesExt

P == 10007

-----------------------------------------------------------------------------
(* Numbers *)

Number(v) == <<v % P, 0>>
Zero == Number(0)
Unknown == <<-1, -1>>   \* read outside an array
One == Number(1)

Plus(x, y) == <<(x[1] + y[1]) % P, (x[2] + y[2]) % P>>
Minus(x, y) == <<(x[1] - y[1]) % P, (x[2] - y[2]) % P>>
Times(x, y) == <<(x[1] * y[1]) % P, (x[1] * y[2] + x[2] * y[1]) % P>>

\* v to the power n; the power P - 2 inverts.
Power(v, n) ==
  LET f[k \in 0 .. n] ==
        IF k = 0 THEN 1
        ELSE LET half == f[k \div 2]
             IN  (((half * half) % P) * (IF k % 2 = 1 THEN v ELSE 1)) % P
  IN  f[n]
Inverted(x) == LET r == Power(x[1], P - 2) IN <<r, (-x[2] * ((r * r) % P)) % P>>
Over(x, y) == Times(x, Inverted(y))

Larger(x, y) == IF x[1] > y[1] THEN x ELSE y
Smaller(x, y) == IF x[1] < y[1] THEN x ELSE y
Truth(b) == IF b THEN One ELSE Zero

\* Functions of which only the derivatives matter: e' = e, l' = 1 / x, s' = c, c' = -s,
\* r' = 1 / 2r, and those of x^y and of the angle of (x, y).
Made(v, derivative) == <<v % P, derivative % P>>
ExpOf(x) == LET e == (((x[1] * x[1]) % P) * (x[1] + 3) + 5) % P IN Made(e, e * x[2])
LogOf(x) == Made(7 * x[1] + 11, Over(Number(x[2]), Number(x[1]))[1])
SinValue(x) == (x[1] * x[1] + 2) % P
CosValue(x) == (3 * x[1] + 4) % P
SinOf(x) == Made(SinValue(x), CosValue(x) * x[2])
CosOf(x) == Made(CosValue(x), -(SinValue(x) * x[2]))
SqrtOf(x) == LET r == (5 * x[1] + 6) % P IN Made(r, Over(Number(x[2]), Number(2 * r))[1])
PowerOf(x, y) ==
  LET p == Power(x[1], y[1])
  IN  Made(p, ((Power(x[1], y[1] - 1) * y[1]) % P) * x[2] + ((LogOf(x)[1] * p) % P) * y[2])
AngleOf(y, x) ==
  Made(y[1] + 8 * x[1],
       Over(Number(x[1] * y[2] - y[1] * x[2]), Number(x[1] * x[1] + y[1] * y[1]))[1])

-----------------------------------------------------------------------------
(* Shapes and indices *)

Count(n) == [k \in 1 .. n |-> k]

\* A left fold over 1 .. n (FoldLeft takes n^3 steps where it is not overridden).
FoldTo(n, base, Op(_, _)) ==
  LET f[k \in 0 .. n] == IF k = 0 THEN base ELSE Op(f[k - 1], k) IN f[n]

SizeOf(shape) == FoldTo(Len(shape), 1, LAMBDA m, j : m * shape[j])
Rank(a) == Len(a.shape)
Axis(a, ax) == IF ax < 0 THEN Rank(a) + 1 + ax ELSE ax

\* The k-th index of a shape, and back.
Index(shape, k) ==
  [j \in 1 .. Len(shape) |->
     (((k - 1) \div SizeOf(SubSeq(shape, j + 1, Len(shape)))) % shape[j]) + 1]
Position(shape, ix) ==
  1 + FoldTo(Len(shape), 0, LAMBDA p, j : p * shape[j] + ix[j] - 1)

At(a, ix) == a.data[Position(a.shape, ix)]

\* Concatenating makes TLC compute the elements once.
Build(sizes, Elem(_)) ==
  LET shape == sizes \o <<>>
  IN  [shape |-> shape,
       data |-> [k \in 1 .. SizeOf(shape) |-> Elem(Index(shape, k) \o <<>>)] \o <<>>]

Invalid == [shape |-> <<0>>, data |-> <<>>]

Filled(shape, x) == Build(shape, LAMBDA ix : x)
Zeros(shape) == Filled(shape, Zero)
ZerosLike(a) == Zeros(a.shape)
Scalar(v) == [shape |-> <<>>, data |-> <<Number(v)>>]
Arange(n) == Build(<<n>>, LAMBDA ix : Number(ix[1] - 1))

Map(a, F(_)) == [shape |-> a.shape, data |-> [k \in DOMAIN a.data |-> F(a.data[k])] \o <<>>]
Values(a) == Map(a, LAMBDA x : <<x[1], 0>>)
Derivatives(a) == Map(a, LAMBDA x : <<x[2], 0>>)

Ascending(set) == SetToSortSeq(set, <)

-----------------------------------------------------------------------------
(* Shape operations: the data stay in their order *)

Reshape(a, shape) ==
  IF SizeOf(shape) = Len(a.data) THEN [shape |-> shape, data |-> a.data] ELSE Invalid

Unflatten(a, ax, shape) ==
  Reshape(a, SubSeq(a.shape, 1, ax - 1) \o shape \o SubSeq(a.shape, ax + 1, Rank(a)))
Flatten(a, start, end) ==
  Reshape(a, SubSeq(a.shape, 1, start - 1) \o <<SizeOf(SubSeq(a.shape, start, end))>>
               \o SubSeq(a.shape, end + 1, Rank(a)))

\* Axes of the result, in ascending order.
ExpandDims(a, axes) ==
  IF Cardinality(ToSet(axes)) # Len(axes) \/ \E ax \in ToSet(axes) : ax > Rank(a) + Len(axes)
  THEN Invalid
  ELSE Reshape(a, FoldLeft(LAMBDA s, ax : InsertAt(s, ax, 1), a.shape, Ascending(ToSet(axes))))
Squeeze(a, axes) ==
  LET kept == SelectSeq(Count(Rank(a)), LAMBDA j : j \notin {Axis(a, ax) : ax \in ToSet(axes)})
  IN  Reshape(a, [j \in DOMAIN kept |-> a.shape[kept[j]]] \o <<>>)

-----------------------------------------------------------------------------
(* Axes and broadcasts *)

Transpose(a, axes) ==
  Build([j \in DOMAIN axes |-> a.shape[axes[j]]],
        LAMBDA ix : At(a, [j \in DOMAIN axes |-> ix[CHOOSE k \in DOMAIN axes : axes[k] = j]]))
MovedTo(n, source, destination) == InsertAt(RemoveAt(Count(n), source), destination, source)
Moveaxis(a, source, destination) ==
  LET from == Axis(a, source)
      to == Axis(a, destination)
  IN  IF from = to THEN a ELSE Transpose(a, MovedTo(Rank(a), from, to))
Swapaxes(a, axis1, axis2) ==
  LET i == Axis(a, axis1)
      j == Axis(a, axis2)
  IN  Transpose(a, [k \in 1 .. Rank(a) |-> IF k = i THEN j ELSE IF k = j THEN i ELSE k])

BroadcastShapes(s, t) ==
  LET n == IF Len(s) > Len(t) THEN Len(s) ELSE Len(t)
      padded(u) == [j \in 1 .. n |-> IF j > n - Len(u) THEN u[j - n + Len(u)] ELSE 1]
  IN  [j \in 1 .. n |-> IF padded(s)[j] = 1 THEN padded(t)[j] ELSE padded(s)[j]] \o <<>>
BroadcastTo(a, shape) ==
  LET skip == Len(shape) - Rank(a)
  IN  IF a.shape = shape THEN a
      ELSE IF skip < 0 \/ \E j \in DOMAIN a.shape : a.shape[j] \notin {1, shape[skip + j]}
      THEN Invalid
      ELSE Build(shape, LAMBDA ix :
             At(a, [j \in DOMAIN a.shape |-> IF a.shape[j] = 1 THEN 1 ELSE ix[skip + j]]))

\* ignored axes are negative, and each array keeps its size there.
CommonShape(arrays, ignored) ==
  LET rest(a) == SelectSeq([j \in 1 .. Rank(a) |-> <<j - 1 - Rank(a), a.shape[j]>>],
                           LAMBDA p : p[1] \notin ignored)
      sizes(a) == [j \in DOMAIN rest(a) |-> rest(a)[j][2]]
  IN  FoldLeft(LAMBDA s, a : BroadcastShapes(s, sizes(a)), <<>>, arrays)
BroadcastArrays(arrays, ignored) ==
  LET common == CommonShape(arrays, ignored)
      shape(a) ==
        LET n == Len(common) + Cardinality(ignored)
        IN  FoldLeft(LAMBDA s, ax : InsertAt(s, n + 1 + ax, a.shape[Axis(a, ax)]),
                     common, Ascending(ignored))
  IN  [k \in DOMAIN arrays |-> BroadcastTo(arrays[k], shape(arrays[k]))] \o <<>>

Repeat(a, n, ax) ==
  LET shape == InsertAt(a.shape, ax + 1, n)
      wide == BroadcastTo(ExpandDims(a, <<ax + 1>>), shape)
  IN  Reshape(wide, [RemoveAt(shape, ax + 1) EXCEPT ![ax] = @ * n])

-----------------------------------------------------------------------------
(* Slices and joins *)

\* normalize_slice: offsets to start from, sizes and strides, of each axis.
Lower(m, n) == IF m < n THEN m ELSE n
Upper(m, n) == IF m > n THEN m ELSE n
SliceAxis(n, start, stop, stride) ==
  LET s == IF start < 0 THEN start + n ELSE start
      e == IF stop < 0 THEN stop + n ELSE stop
      first == IF stride < 0 THEN Lower(s, n - 1) ELSE Upper(0, Lower(s, n))
      last == IF stride < 0 THEN Lower(Upper(e, -1), first)
              ELSE Upper(Upper(0, Lower(e, n)), first)
      size == IF stride < 0 THEN (first - last - stride - 1) \div (-stride)
              ELSE (last - first + stride - 1) \div stride
  IN  [first |-> first, size |-> size, stride |-> IF size = 1 THEN 1 ELSE stride]
SliceAxes(a, start, stop, strides) ==
  [j \in 1 .. Rank(a) |-> SliceAxis(a.shape[j], start[j], stop[j], strides[j])] \o <<>>
SizesOf(axes) == [j \in DOMAIN axes |-> axes[j].size]

Slice(a, start, stop, strides) ==
  LET axes == SliceAxes(a, start, stop, strides)
  IN  Build(SizesOf(axes), LAMBDA ix :
        At(a, [j \in DOMAIN ix |-> axes[j].first + (ix[j] - 1) * axes[j].stride + 1]))

\* The places of a are filled from the slice that covers them.
SliceUpdate(a, update, start, stop, strides) ==
  LET axes == SliceAxes(a, start, stop, strides)
      upd == BroadcastTo(update, SizesOf(axes))
      step(ix, j) == (ix[j] - 1 - axes[j].first) \div axes[j].stride
      covered(ix) == \A j \in DOMAIN ix :
        /\ axes[j].first + step(ix, j) * axes[j].stride = ix[j] - 1
        /\ step(ix, j) \in 0 .. axes[j].size - 1
  IN  Build(a.shape, LAMBDA ix :
        IF covered(ix) THEN At(upd, [j \in DOMAIN ix |-> step(ix, j) + 1]) ELSE At(a, ix))

\* start is an array with an offset for each of axes.
Offsets(n, start, axes) ==
  [j \in 1 .. n |->
     IF j \in ToSet(axes) THEN start.data[CHOOSE k \in DOMAIN axes : axes[k] = j][1] ELSE 0]
DynamicSlice(a, start, axes, size) ==
  LET first == Offsets(Rank(a), start, axes)
  IN  Build(size, LAMBDA ix : At(a, [j \in DOMAIN ix |-> first[j] + ix[j]]))
DynamicUpdate(a, update, start, axes) ==
  LET first == Offsets(Rank(a), start, axes)
      skip == Rank(a) - Rank(update)
      shape == [j \in 1 .. Rank(a) |->
                  IF j > skip THEN Lower(update.shape[j - skip], a.shape[j])
                  ELSE IF j \in ToSet(axes) THEN 1 ELSE a.shape[j]]
      upd == BroadcastTo(update, shape \o <<>>)
      covered(ix) == \A j \in DOMAIN ix : ix[j] - first[j] \in 1 .. shape[j]
  IN  Build(a.shape, LAMBDA ix :
        IF covered(ix) THEN At(upd, [j \in DOMAIN ix |-> ix[j] - first[j]]) ELSE At(a, ix))

Concatenate(arrays, ax) ==
  LET ends == [k \in 0 .. Len(arrays) |->
                 FoldTo(k, 0, LAMBDA n, j : n + arrays[j].shape[ax])]
      holder(m) == CHOOSE k \in DOMAIN arrays : m > ends[k - 1] /\ m <= ends[k]
  IN  Build([arrays[1].shape EXCEPT ![ax] = ends[Len(arrays)]], LAMBDA ix :
        LET k == holder(ix[ax]) IN At(arrays[k], [ix EXCEPT ![ax] = @ - ends[k - 1]]))

Split(a, indices, ax) ==
  LET bounds == <<0>> \o indices \o <<a.shape[ax]>>
      part(k) == Build([a.shape EXCEPT ![ax] = bounds[k + 1] - bounds[k]],
                       LAMBDA ix : At(a, [ix EXCEPT ![ax] = @ + bounds[k]]))
  IN  [k \in 1 .. Len(indices) + 1 |-> part(k)] \o <<>>

\* Axis axes[k] gets low[k] elements in front and high[k] behind.
Pad(a, axes, low, high, value) ==
  LET width(w, j) == IF j \in ToSet(axes) THEN w[CHOOSE k \in DOMAIN axes : axes[k] = j] ELSE 0
      inside(ix) == \A j \in DOMAIN ix : ix[j] - width(low, j) \in 1 .. a.shape[j]
  IN  Build([j \in 1 .. Rank(a) |-> a.shape[j] + width(low, j) + width(high, j)], LAMBDA ix :
        IF inside(ix) THEN At(a, [j \in DOMAIN ix |-> ix[j] - width(low, j)]) ELSE value)

-----------------------------------------------------------------------------
(* Elementwise operations: the arguments are broadcast first *)

Elementwise(a, b, F(_, _)) ==
  LET ab == BroadcastArrays(<<a, b>>, {})
  IN  [shape |-> ab[1].shape,
       data |-> [k \in DOMAIN ab[1].data |-> F(ab[1].data[k], ab[2].data[k])] \o <<>>]

Add(a, b) == Elementwise(a, b, Plus)
Subtract(a, b) == Elementwise(a, b, Minus)
Multiply(a, b) == Elementwise(a, b, Times)
Divide(a, b) == Elementwise(a, b, Over)
Maximum(a, b) == Elementwise(a, b, Larger)
Minimum(a, b) == Elementwise(a, b, Smaller)
Equal(a, b) == Elementwise(a, b, LAMBDA x, y : Truth(x[1] = y[1]))
NotEqual(a, b) == Elementwise(a, b, LAMBDA x, y : Truth(x[1] # y[1]))
Greater(a, b) == Elementwise(a, b, LAMBDA x, y : Truth(x[1] > y[1]))
LessEqual(a, b) == Elementwise(a, b, LAMBDA x, y : Truth(x[1] <= y[1]))
RaisedTo(a, b) == Elementwise(a, b, PowerOf)
ArcTan2(a, b) == Elementwise(a, b, AngleOf)
LogicalAnd(a, b) == Elementwise(a, b, LAMBDA x, y : Truth(x[1] # 0 /\ y[1] # 0))

Negative(a) == Map(a, LAMBDA x : Minus(Zero, x))
Square(a) == Map(a, LAMBDA x : Times(x, x))
Exp(a) == Map(a, ExpOf)
Log(a) == Map(a, LogOf)
Sin(a) == Map(a, SinOf)
Cos(a) == Map(a, CosOf)
Sqrt(a) == Map(a, SqrtOf)
LogicalNot(a) == Map(a, LAMBDA x : Truth(x[1] = 0))

Where(c, a, b) ==
  LET in == BroadcastArrays(<<c, a, b>>, {})
  IN  Build(in[1].shape, LAMBDA ix :
        IF At(in[1], ix)[1] # 0 THEN At(in[2], ix) ELSE At(in[3], ix))

-----------------------------------------------------------------------------
(* Reductions, scans and sorts *)

\* axes stay with size 1; without keepdims a Squeeze follows.
Reduce(a, axes, F(_, _)) ==
  LET all == {Axis(a, ax) : ax \in ToSet(axes)}
      shape == [j \in 1 .. Rank(a) |-> IF j \in all THEN 1 ELSE a.shape[j]]
      over == [j \in 1 .. Rank(a) |-> IF j \in all THEN a.shape[j] ELSE 1] \o <<>>
      element(ix, k) ==
        LET at == Index(over, k)
        IN  At(a, [j \in DOMAIN ix |-> IF j \in all THEN at[j] ELSE ix[j]])
  IN  Build(shape, LAMBDA ix :
        FoldTo(SizeOf(over) - 1, element(ix, 1), LAMBDA x, k : F(x, element(ix, k + 1))))
Sum(a, axes) == Reduce(a, axes, Plus)
Product(a, axes) == Reduce(a, axes, Times)
Largest(a, axes) == Reduce(a, axes, Larger)

Scan(a, axis, reverse, inclusive, F(_, _), unit) ==
  LET ax == Axis(a, axis)
      n == a.shape[ax]
      element(ix, k) == At(a, [ix EXCEPT ![ax] = IF reverse THEN n + 1 - k ELSE k])
      place(ix) == IF reverse THEN n + 1 - ix[ax] ELSE ix[ax]
  IN  Build(a.shape, LAMBDA ix :
        FoldTo(IF inclusive THEN place(ix) ELSE place(ix) - 1, unit,
               LAMBDA x, k : F(x, element(ix, k))))
CumSum(a, ax, reverse, inclusive) == Scan(a, ax, reverse, inclusive, Plus, Zero)
CumProd(a, ax, reverse, inclusive) == Scan(a, ax, reverse, inclusive, Times, One)

\* The offset of the element that is m-th along an axis.
Ranked(a, ix, ax, m) ==
  LET value(k) == At(a, [ix EXCEPT ![ax] = k])[1]
      n == a.shape[ax]
  IN  CHOOSE k \in 1 .. n :
        Cardinality({j \in 1 .. n : value(j) < value(k) \/ (value(j) = value(k) /\ j < k)}) = m - 1
ArgSort(a, axis) ==
  LET ax == Axis(a, axis) IN Build(a.shape, LAMBDA ix : Number(Ranked(a, ix, ax, ix[ax]) - 1))
Sort(a, axis) ==
  LET ax == Axis(a, axis)
  IN  Build(a.shape, LAMBDA ix : At(a, [ix EXCEPT ![ax] = Ranked(a, ix, ax, ix[ax])]))
ArgMin(a, ax) ==
  Build([a.shape EXCEPT ![ax] = 1], LAMBDA ix : Number(Ranked(a, ix, ax, 1) - 1))

\* The largest element is subtracted first in the code, which changes nothing.
Softmax(a, axes) == LET e == Exp(a) IN Divide(e, Sum(e, axes))
LogSumExp(a, axes) == Map(Sum(Exp(a), axes), LogOf)

-----------------------------------------------------------------------------
(* Products *)

\* Both have two axes at least: those before are broadcast against each other.
Matmul(a, b) ==
  LET ab == BroadcastArrays(<<a, b>>, {-2, -1})
      n == Rank(ab[1])
      element(ix, k) == Times(At(ab[1], [ix EXCEPT ![n] = k]), At(ab[2], [ix EXCEPT ![n - 1] = k]))
  IN  Build([ab[1].shape EXCEPT ![n] = ab[2].shape[n]], LAMBDA ix :
        FoldTo(ab[1].shape[n], Zero, LAMBDA x, k : Plus(x, element(ix, k))))
AddMM(c, a, b, alpha, beta) ==
  Add(Multiply(Scalar(alpha), Matmul(a, b)), Multiply(Scalar(beta), c))

-----------------------------------------------------------------------------
(* Gathers and scatters *)

\* indices[k] holds offsets into axis axes[k]; the rest of the slice is in order.
Gather(a, indices, axes, sizes) ==
  LET inds == BroadcastArrays(indices, {})
      n == IF indices = <<>> THEN 0 ELSE Rank(inds[1])
      shape == (IF indices = <<>> THEN <<>> ELSE inds[1].shape) \o sizes
      offset(ix, j) ==
        IF j \in ToSet(axes)
        THEN At(inds[CHOOSE k \in DOMAIN axes : axes[k] = j], SubSeq(ix, 1, n))[1] ELSE 0
  IN  Build(shape, LAMBDA ix : At(a, [j \in 1 .. Rank(a) |-> offset(ix, j) + ix[n + j]]))

\* Updates that meet in one place are combined in their order.
Scatter(a, indices, updates, axes, F(_, _)) ==
  LET inds == BroadcastArrays(indices, {})
      n == IF indices = <<>> THEN 0 ELSE Rank(inds[1])
      offset(ix, j) ==
        IF j \in ToSet(axes)
        THEN At(inds[CHOOSE k \in DOMAIN axes : axes[k] = j], SubSeq(ix, 1, n))[1] ELSE 0
      target(ix) == [j \in 1 .. Rank(a) |-> offset(ix, j) + ix[n + j]] \o <<>>
      targets == [k \in DOMAIN updates.data |-> target(Index(updates.shape, k))] \o <<>>
  IN  IF n > 0 /\ SubSeq(updates.shape, 1, n) # inds[1].shape THEN Filled(a.shape, Unknown)
      ELSE Build(a.shape, LAMBDA ix :
             FoldTo(Len(targets), At(a, ix), LAMBDA x, k :
               IF targets[k] = ix THEN F(x, updates.data[k]) ELSE x))

TakeAlongAxis(a, indices, axis) ==
  LET ax == Axis(a, axis)
      in == BroadcastArrays(<<a, indices>>, {ax - Rank(a) - 1})
  IN  Build(in[2].shape, LAMBDA ix : At(in[1], [ix EXCEPT ![ax] = At(in[2], ix)[1] + 1]))
ScatterAlongAxis(a, indices, values, ax, F(_, _)) ==
  LET iv == BroadcastArrays(<<indices, values>>, {})
      in == BroadcastArrays(<<a>> \o iv, {ax - Rank(a) - 1})
      hits(ix, k) == At(in[2], [ix EXCEPT ![ax] = k])[1] = ix[ax] - 1
  IN  Build(in[1].shape, LAMBDA ix :
        FoldTo(in[2].shape[ax], At(in[1], ix), LAMBDA x, k :
          IF hits(ix, k) THEN F(x, At(in[3], [ix EXCEPT ![ax] = k])) ELSE x))
=============================================================================
