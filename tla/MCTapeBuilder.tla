--------------------------- MODULE MCTapeBuilder ----------------------------
(***************************************************************************)
(* Every call on every graph of N arrays: one leaf, every choice of one or *)
(* two inputs for each other array, every assignment to two streams, any   *)
(* two neighbours as siblings where their inputs allow it, every set of    *)
(* arrays evaluated before, and every one or two outputs.                  *)
(***************************************************************************)
EXTENDS TapeBuilder

CONSTANTS S1, S2
MCStreams == {S1, S2}

\* One input, or two in ascending order, the same computed array twice included.
InputLists(a) ==
  {<<x>> : x \in 1 .. a - 1}
    \cup {p \in (1 .. a - 1) \X (1 .. a - 1) :
            p[1] < p[2] \/ (p[1] = p[2] /\ p[1] > 1)}

Ins == {f \in [2 .. N -> UNION {InputLists(a) : a \in 2 .. N}] :
          \A a \in 2 .. N : f[a] \in InputLists(a)}

\* p is the first of a pair of siblings, or 0.
Graph(f, st, p) ==
  [kind |-> [a \in Arrays |-> IF a = 1 THEN "leaf" ELSE "allocates"],
   in |-> [a \in Arrays |-> IF a = 1 THEN <<>> ELSE f[a]],
   stream |-> st,
   sib |-> [a \in Arrays |-> IF a = p THEN {p + 1}
                             ELSE IF p > 0 /\ a = p + 1 THEN {p} ELSE {}]]

Graphs ==
  {g \in {Graph(f, st, p) : f \in Ins, st \in [Arrays -> MCStreams],
                            p \in {0} \cup 2 .. N - 1} :
     IsGraph(g) /\ g.stream[1] = S1}

\* Inputs of an evaluated array were evaluated, its siblings with it.
IsUnscheduled(g, u) ==
  /\ u # {}
  /\ \A a \in Arrays : (\E x \in ToSet(g.in[a]) : x \in u) => a \in u
  /\ \A a \in u : g.sib[a] \subseteq u

OutputLists == {<<a>> : a \in 2 .. N} \cup ((2 .. N) \X (2 .. N))

\* (TLC takes a UNION of this many sets far longer than a filter.)
MCCases ==
  {c \in [g : Graphs, u : SUBSET (2 .. N), outs : OutputLists] :
     IsUnscheduled(c.g, c.u) /\ ToSet(c.outs) \cap c.u # {}}
=============================================================================
