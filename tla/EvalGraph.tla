----------------------------- MODULE EvalGraph ------------------------------
(***************************************************************************)
(* The graph an evaluation works on (mlx/array.h, ArrayDesc).              *)
(*                                                                         *)
(* Arrays are numbers; an array's inputs have smaller numbers.  A graph is *)
(* a record of functions on the arrays:                                    *)
(*   kind    "leaf"     constant data, no primitive                        *)
(*           "donates"  an elementwise primitive, which writes into an     *)
(*                      input's buffer if it may                           *)
(*           "allocates" a primitive that always takes a new buffer        *)
(*           "views"    a primitive that shares its input's buffer         *)
(*   in      the inputs, a sequence (ArrayDesc::inputs)                    *)
(*   sib     the other outputs of the primitive (ArrayDesc::siblings)      *)
(*   stream  the stream of the primitive                                   *)
(***************************************************************************)
EXTENDS Integers, SequencesExt

CONSTANTS N, Streams

ASSUME EvalGraphAssumption == N \in Nat /\ Streams # {}

Arrays == 1 .. N

IsGraph(g) ==
  /\ g.kind \in [Arrays -> {"leaf", "donates", "allocates", "views"}]
  /\ g.stream \in [Arrays -> Streams]
  /\ \A a \in Arrays :
       /\ g.in[a] \in Seq(Arrays) /\ \A x \in ToSet(g.in[a]) : x < a
       /\ g.in[a] = <<>> <=> g.kind[a] = "leaf"
       /\ g.sib[a] \subseteq Arrays
       /\ \A s \in g.sib[a] :
            /\ s # a /\ g.sib[s] = (g.sib[a] \ {s}) \cup {a}
            /\ g.in[s] = g.in[a] /\ g.kind[s] = g.kind[a]
            /\ g.stream[s] = g.stream[a]

\* array::outputs(): the array and its siblings.
OutputsIn(g, a) == {a} \cup g.sib[a]

(***************************************************************************)
(* The arrays kept alive by the handles in S: those reachable through the  *)
(* inputs and siblings of arrays still attached to their primitive.  (A    *)
(* primitive's outputs are detached together, when they become evaluated.) *)
(* Sibling links are circular and keep nothing alive by themselves.        *)
(***************************************************************************)
Reach(g, attached, S) ==
  LET group(a) == IF a \in attached THEN OutputsIn(g, a) ELSE {a}
      reached[a \in Arrays] ==
        \E x \in group(a) :
          \/ x \in S
          \/ \E c \in (x + 1 .. N) \cap attached :
               x \in ToSet(g.in[c]) /\ reached[c]
  IN  {a \in Arrays : reached[a]}

\* The array whose computation produces a's value: a view computes nothing.
ValueOf(g, a) ==
  LET v[x \in Arrays] == IF g.kind[x] = "views" THEN v[g.in[x][1]] ELSE x
  IN  v[a]

-----------------------------------------------------------------------------
(* What eval_impl's tape is.  U is the set of unscheduled arrays; home is  *)
(* the stream of the Synchronizer, whose inputs are outs.                  *)

\* The arrays an evaluation of outs has to schedule.
Needed(g, U, outs) == Reach(g, U, ToSet(outs)) \cap U

\* In the order it is consumed, the Synchronizer left out: one output of every
\* primitive needed, one that some later entry or the caller refers to, and
\* every input before its consumers, the Synchronizer among them.
IsTape(g, U, outs, t) ==
  LET groups == {OutputsIn(g, a) : a \in Needed(g, U, outs)}
      before(k, x) == \E j \in 1 .. k - 1 : t[j] \in OutputsIn(g, x)
  IN  /\ Len(t) = Cardinality(groups)
      /\ \A grp \in groups : \E k \in DOMAIN t : t[k] \in grp
      /\ \A x \in ToSet(outs) \cap U : before(Len(t) + 1, x)
      /\ \A k \in DOMAIN t :
           /\ \A x \in ToSet(g.in[t[k]]) \cap U : before(k, x)
           /\ \/ t[k] \in ToSet(outs)
              \/ \E j \in k + 1 .. Len(t) : t[k] \in ToSet(g.in[t[j]])

\* Unscheduled inputs that an entry on another stream consumes.
FencedInputs(g, U, outs, home, t) ==
  {x \in U :
     \/ x \in ToSet(outs) /\ g.stream[x] # home
     \/ \E a \in ToSet(t) : x \in ToSet(g.in[a]) /\ g.stream[x] # g.stream[a]}
=============================================================================
