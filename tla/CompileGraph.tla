---------------------------- MODULE CompileGraph ----------------------------
(***************************************************************************)
(* The passes of mlx/compile.cpp over a traced graph: the walk that lists  *)
(* it, the three simplifications, the fusion of elementwise operations     *)
(* into Compiled primitives, and the replay on real inputs.                *)
(*                                                                         *)
(* A heap h is the set of arrays 1 .. Len(h.op) as the passes see and      *)
(* change them:                                                            *)
(*   op        the primitive, "input" for a placeholder, or the value of a *)
(*             scalar that is available                                    *)
(*   in        ArrayDesc::inputs                                           *)
(*   outputs   array::outputs(): the array among its siblings, in order    *)
(*   shape, stream                                                         *)
(*   kernel    the tape, inputs and outputs of a Compiled primitive        *)
(*   parents   the ParentsMap, a map with some arrays as keys to sequences *)
(*             of users <<array, position>>                                *)
(*                                                                         *)
(* The passes recurse over the graph, so this module is for TLC only.      *)
(***************************************************************************)
EXTENDS Integers, Sequences, FiniteSets, SequencesExt, TLC

CONSTANTS
  max_compile_depth,   \* 11 in the code
  max_compile_arrays   \* 24 in the code

Scalars == {"one", "two"}
Noops == {"Copy"}
Fusable == {"Neg", "Add", "Broadcast"}

HasPrimitive(h, a) == h.op[a] \notin Scalars \cup {"input", "outside"}

\* DivMod is the primitive with two outputs; its outputs have names of their own.
TypeOf(h, a) == IF h.op[a] \in {"Div", "Mod"} THEN "DivMod" ELSE h.op[a]

Siblings(h, a) == SelectSeq(h.outputs[a], LAMBDA s : s # a)
Interval(low, high) == [k \in 1 .. high - low + 1 |-> low + k - 1]
Parents(h, a) == IF a \in DOMAIN h.parents THEN h.parents[a] ELSE <<>>
WithParents(h, a, users) == [h EXCEPT !.parents = (a :> users) @@ @]
Without(f, x) == [y \in DOMAIN f \ {x} |-> f[y]]

-----------------------------------------------------------------------------
(* compile_dfs *)

RECURSIVE Walk(_, _)

\* w: the heap with the parents found so far, the tape, and what was seen.
Walk(w, a) ==
  LET users(k) == [s \in 1 .. Len(w.h.outputs[a]) |->
                     <<(<<a>> \o Siblings(w.h, a))[s], k>>]
      visit(v, k) ==
        LET x == v.h.in[a][k]
        IN  Walk([v EXCEPT !.h = WithParents(@, x, Parents(@, x) \o users(k))], x)
      w2 == FoldLeft(visit, w, Interval(1, Len(w.h.in[a])))
  IN  IF a \in w.seen THEN w
      ELSE [w2 EXCEPT !.seen = @ \cup ToSet(w.h.outputs[a]),
                      !.tape = Append(@, a)]

WalkGraph(h, outs) ==
  FoldLeft(Walk, [h |-> [h EXCEPT !.parents = <<>>], tape |-> <<>>, seen |-> {}], outs)

-----------------------------------------------------------------------------
(* compile_simplify *)

\* Mutant: the users of src are pointed to dst but not recorded there.
MergeOneUnrecorded(h, dst, src) ==
  IF src \notin DOMAIN h.parents THEN h
  ELSE [h EXCEPT !.in = [a \in DOMAIN @ |-> [k \in DOMAIN @[a] |->
                           IF <<a, k>> \in ToSet(h.parents[src]) THEN dst ELSE @[a][k]]],
                 !.parents = Without(@, src)]

\* The users of src become users of dst.
MergeOne(h, dst, src) ==
  IF src \notin DOMAIN h.parents THEN h
  ELSE LET users == h.parents[src]
           kept == SelectSeq(Parents(h, dst) \o users, LAMBDA p : p[1] # src)
           rewired == [a \in DOMAIN h.in |-> [k \in DOMAIN h.in[a] |->
                         IF <<a, k>> \in ToSet(users) THEN dst ELSE h.in[a][k]]]
       IN  [h EXCEPT !.in = rewired, !.parents = Without((dst :> kept) @@ @, src)]

\* src and its siblings into dst and its siblings.
Merge(h, dst, src) ==
  LET one(g, k) == MergeOne(g, h.outputs[dst][k], h.outputs[src][k])
  IN  FoldLeft(one, h, Interval(1, Len(h.outputs[src])))

\* Equal scalars become the first of them.
MergeScalars(h, tape) ==
  LET first(a) == SelectSeq(tape, LAMBDA b : h.op[b] = h.op[a])[1]
      merge(s, a) == IF h.op[a] \in Scalars /\ first(a) # a
                       THEN [s EXCEPT !.h = Merge(@, first(a), a)]
                       ELSE [s EXCEPT !.tape = Append(@, a)]
  IN  FoldLeft(merge, [h |-> h, tape |-> <<>>], tape)

\* The users of a no-op use its input; so does the caller, if it is an output.
RemoveNoops(h, tape, outs) ==
  LET remove(s, a) ==
        IF s.h.op[a] \notin Noops THEN [s EXCEPT !.tape = Append(@, a)]
        ELSE LET x == s.h.in[a][1]
             IN  [s EXCEPT !.h = MergeOne(@, x, a),
                           !.out = IF a \in DOMAIN @ THEN (a :> x) @@ @ ELSE @]
      s == FoldLeft(remove,
             [h |-> h, tape |-> <<>>, out |-> [o \in ToSet(outs) |-> o]], tape)
  IN  [h |-> s.h, tape |-> s.tape, outs |-> [k \in DOMAIN outs |-> s.out[outs[k]]]]

\* Mutant: the inputs are not compared.
EquivalentType(h, a, b) ==
  /\ HasPrimitive(h, a) /\ HasPrimitive(h, b)
  /\ h.outputs[a] # h.outputs[b]
  /\ TypeOf(h, a) = TypeOf(h, b)

\* Equal up to depth one: two primitives of one type on the same inputs.
Equivalent(h, a, b) ==
  /\ HasPrimitive(h, a) /\ HasPrimitive(h, b)
  /\ h.outputs[a] # h.outputs[b]
  /\ TypeOf(h, a) = TypeOf(h, b)
  /\ h.in[a] = h.in[b]

\* maybe_merge_parents: merge equivalent users of a, the later on the tape
\* into the earlier.  order is the map tape_order, which gives 0 for what is
\* not on the tape, such as most siblings.
MergeUsers(h, a, order, outs) ==
  LET users == Parents(h, a)
      place(i) == IF users[i][1] \in DOMAIN order THEN order[users[i][1]] ELSE 0
      pair(s, i, j) ==
        LET src == IF place(j) < place(i) THEN i ELSE j
            dst == IF place(j) < place(i) THEN j ELSE i
        IN  IF /\ j \notin s.mask
               /\ users[src][1] # users[dst][1]
               /\ Equivalent(s.h, users[src][1], users[dst][1])
               /\ users[src][1] \notin outs
              THEN [h |-> Merge(s.h, users[dst][1], users[src][1]),
                    mask |-> s.mask \cup {src}]
              ELSE s
      row(s, i) == IF i \in s.mask THEN s
                   ELSE FoldLeft(LAMBDA t, j : pair(t, i, j), s,
                                 Interval(i + 1, Len(users)))
      s == FoldLeft(row, [h |-> h, mask |-> {}], Interval(1, Len(users)))
      left == SelectSeq(Interval(1, Len(users)), LAMBDA i : i \notin s.mask)
  IN  IF a \notin DOMAIN h.parents THEN h
      ELSE WithParents(s.h, a, [k \in DOMAIN left |-> users[left[k]]])

\* One pass over the tape.  Nothing is needed of a primitive none of whose
\* outputs is used or asked for.
MergePass(h, tape, order, outs) ==
  LET step(s, a) ==
        LET uses == <<a>> \o Siblings(h, a)
            merged(g, k) == [g EXCEPT !.h = MergeUsers(@, uses[k], order, outs),
                                      !.drop = @ /\ uses[k] \notin DOMAIN g.h.parents \cup outs]
            t == FoldLeft(merged, [h |-> s.h, drop |-> TRUE], Interval(1, Len(uses)))
        IN  [h |-> t.h, tape |-> IF t.drop THEN s.tape ELSE Append(s.tape, a)]
  IN  FoldLeft(step, [h |-> h, tape |-> <<>>], tape)

-----------------------------------------------------------------------------
(* compile_fuse *)

\* split_one: a copy of x for those of its users that are in the section.
SplitOne(h, x, section) ==
  LET y == Len(h.op) + 1
      mine == SelectSeq(Parents(h, x), LAMBDA p : p[1] \in section)
      others == SelectSeq(Parents(h, x), LAMBDA p : p[1] \notin section)
      rewired == [a \in DOMAIN h.in |-> [k \in DOMAIN h.in[a] |->
                    IF <<a, k>> \in ToSet(mine) THEN y ELSE h.in[a][k]]]
  IN  [h EXCEPT !.op = Append(@, h.op[x]), !.in = Append(rewired, h.in[x]),
                !.outputs = Append(@, <<y>>), !.shape = Append(@, h.shape[x]),
                !.stream = Append(@, h.stream[x]),
                !.parents = (x :> others) @@ (y :> mine) @@ @]

\* An array that cannot be computed inside the section of root.
Stops(h, a, depth, root, outs) ==
  \/ depth >= max_compile_depth
  \/ ~HasPrimitive(h, a)
  \/ h.stream[a] # h.stream[root]
  \/ h.op[a] \notin Fusable
  \/ a \in outs /\ h.shape[a] # h.shape[root]

\* Nothing outside the section uses a.
AllParentsIn(h, a, depth, section) ==
  depth = 0 \/ \A p \in ToSet(h.parents[a]) : p[1] \in section

RECURSIVE Collect(_, _, _, _, _)

\* First recursion.  c: the heap, the section (cache), the possible inputs.
Collect(c, a, depth, root, outs) ==
  IF a \in c.section THEN c
  ELSE IF Stops(c.h, a, depth, root, outs) THEN [c EXCEPT !.inputs = @ \cup {a}]
  ELSE IF AllParentsIn(c.h, a, depth, c.section)
    THEN LET inputs == IF a \in outs THEN c.inputs \cup {a} ELSE c.inputs \ {a}
             into(d, k) == Collect(d, d.h.in[a][k], depth + 1, root, outs)
         IN  IF Cardinality(inputs) >= max_compile_arrays
               THEN [c EXCEPT !.inputs = inputs]
               ELSE FoldLeft(into, [c EXCEPT !.inputs = inputs, !.section = @ \cup {a}],
                             Interval(1, Len(c.h.in[a])))
  ELSE IF c.h.op[a] = "Broadcast"
    THEN Collect([c EXCEPT !.h = SplitOne(@, a, c.section)],
                 Len(c.h.op) + 1, depth, root, outs)
  ELSE [c EXCEPT !.inputs = @ \cup {a}]

RECURSIVE Order(_, _, _, _)

\* Second recursion: the section in order, and its inputs.
Order(t, a, h, section) ==
  IF a \notin section
    THEN IF a \in ToSet(t.inputs) THEN t ELSE [t EXCEPT !.inputs = Append(@, a)]
  ELSE IF a \in ToSet(t.tape) THEN t
  ELSE LET s == FoldLeft(LAMBDA u, x : Order(u, x, h, section), t, h.in[a])
       IN  [s EXCEPT !.tape = Append(@, a)]

\* A section and its root become one Compiled primitive, with an output for
\* each output of the graph inside and one for the root.
FuseSection(h, root, section, out) ==
  LET t == Order([tape |-> <<>>, inputs |-> <<>>], root, h, section)
      inner == Front(t.tape)
      old == SelectSeq(inner, LAMBDA f : f \in DOMAIN out) \o <<root>>
      new == Interval(Len(h.op) + 1, Len(h.op) + Len(old))
      each(v) == [k \in DOMAIN old |-> v]
      outside(users) == SelectSeq(users, LAMBDA p : p[1] \notin section)
      added == [h EXCEPT
        !.op = @ \o each("Compiled"), !.in = @ \o each(t.inputs),
        !.outputs = @ \o each(new), !.stream = @ \o each(h.stream[root]),
        !.shape = @ \o [k \in DOMAIN old |-> h.shape[old[k]]],
        !.kernel = [o \in ToSet(new) |->
          [inputs |-> t.inputs, tape |-> t.tape, outputs |-> old]] @@ @]
      release(g, f) == IF f \in DOMAIN out
                         THEN WithParents(g, f, outside(Parents(g, f)))
                         ELSE [g EXCEPT !.parents = Without(@, f)]
      use(g, i) == WithParents(g, t.inputs[i], outside(Parents(g, t.inputs[i]))
                                 \o [k \in DOMAIN new |-> <<new[k], i>>])
      swap(g, k) == MergeOne(g, new[k], old[k])
      released == FoldLeft(release, added, inner)
      used == FoldLeft(use, released, Interval(1, Len(t.inputs)))
  IN  [h |-> FoldLeft(swap, used, Interval(1, Len(old))),
       made |-> Last(new),
       gone |-> ToSet(inner),
       out |-> [o \in DOMAIN out |->
                  IF o \in ToSet(old) THEN new[CHOOSE k \in DOMAIN old : old[k] = o]
                  ELSE out[o]],
       sameShape |-> \A o \in ToSet(old) : h.shape[o] = h.shape[root]]

Fused(f, s) ==
  [f EXCEPT !.h = s.h, !.tape = <<s.made>> \o @, !.gone = @ \cup s.gone, !.out = s.out,
            !.sameShape = @ /\ s.sameShape]
Collected(f, a, c) ==
  IF Cardinality(c.section) <= 1 THEN [f EXCEPT !.h = c.h, !.tape = <<a>> \o @]
  ELSE Fused(f, FuseSection(c.h, a, c.section, f.out))

\* One turn of the loop over the tape, from its end.  f: the heap, the entries
\* kept so far, what is inside a section, the current output for each output.
FuseEntry(f, a) ==
  IF a \in f.gone THEN f
  ELSE Collected(f, a, Collect([h |-> f.h, section |-> {}, inputs |-> {}],
                               a, 0, a, DOMAIN f.out))

-----------------------------------------------------------------------------
(* Values.  What an array holds is written as the term that computes it. *)

Missing == <<"missing", <<>>>>
Argument(k) == <<"input", <<<<ToString(k), <<>>>>>>>>
Term(op, args) == IF op \in Noops THEN args[1] ELSE <<op, args>>
Lookup(env, a) == IF a \in DOMAIN env THEN env[a] ELSE Missing

\* The kernel of a Compiled primitive: its tape, on its inputs.
KernelValues(h, kernel, args) ==
  LET env == [x \in ToSet(kernel.inputs) |->
                args[CHOOSE i \in DOMAIN args : kernel.inputs[i] = x]]
      run(e, a) == e @@ (a :> Term(h.op[a], [k \in DOMAIN h.in[a] |-> Lookup(e, h.in[a][k])]))
      final == FoldLeft(run, env, kernel.tape)
  IN  [k \in DOMAIN kernel.outputs |-> Lookup(final, kernel.outputs[k])]

\* The values of all outputs of the primitive of a on args.
PrimitiveValues(h, a, args) ==
  IF h.op[a] = "Compiled" THEN KernelValues(h, h.kernel[a], args)
  ELSE [k \in DOMAIN h.outputs[a] |-> Term(h.op[h.outputs[a][k]], args)]

\* compile_replace.  An input that is not in the map makes at() throw.
Replay(h, tape, inputs, outs) ==
  LET start == [x \in ToSet(inputs) |-> Argument(x)]
      step(r, a) ==
        LET args == [k \in DOMAIN h.in[a] |-> Lookup(r.env, h.in[a][k])]
            values == PrimitiveValues(h, a, args)
            found == \A k \in DOMAIN h.in[a] : h.in[a][k] \in DOMAIN r.env
        IN  IF ~HasPrimitive(h, a)
              THEN [r EXCEPT !.env = @ @@ (a :> <<h.op[a], <<>>>>)]
            ELSE [env |-> r.env @@ [o \in ToSet(h.outputs[a]) |->
                            values[CHOOSE k \in DOMAIN h.outputs[a] : h.outputs[a][k] = o]],
                  ok |-> r.ok /\ found]
      r == FoldLeft(step, [env |-> start, ok |-> TRUE], tape)
  IN  [ok |-> r.ok /\ \A o \in ToSet(outs) : o \in DOMAIN r.env,
       values |-> [k \in DOMAIN outs |-> Lookup(r.env, outs[k])]]

\* The function itself on the same inputs: arrays are numbered in the order
\* in which it makes them.
FunctionValues(h, outs) ==
  LET make(env, a) ==
        env @@ (a :> IF h.op[a] = "input" THEN Argument(a)
                     ELSE Term(h.op[a], [k \in DOMAIN h.in[a] |-> env[h.in[a][k]]]))
      env == FoldLeft(make, <<>>, Interval(1, Len(h.op)))
  IN  [k \in DOMAIN outs |-> env[outs[k]]]
=============================================================================
