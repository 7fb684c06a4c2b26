------------------------------ MODULE LazyEval ------------------------------
(***************************************************************************)
(* What lazy evaluation promises its user, with no streams, queues, events *)
(* or buffers: values that were asked for are computed once, each after    *)
(* the values it depends on, and all of them eventually.                   *)
(***************************************************************************)
VARIABLES
  deps,     \* value -> the values it is computed from; never changes
  asked,    \* values some evaluation was asked for, dependencies included
  computed  \* values that have been computed

lazyvars == <<deps, asked, computed>>

Values == DOMAIN deps

Init == asked = {} /\ computed = {}

\* An evaluation asks for values it does not have, and for all they need.
Ask(S) ==
  /\ asked' = asked \cup S
  /\ \A v \in S : deps[v] \subseteq asked'
  /\ UNCHANGED <<deps, computed>>

\* The outputs of one primitive appear together, once.
Compute(S) ==
  /\ S # {} /\ S \cap computed = {}
  /\ \A v \in S : deps[v] \subseteq computed
  /\ computed' = computed \cup S
  /\ UNCHANGED <<deps, asked>>

ComputeSome == \E S \in SUBSET asked : Compute(S)

Next == ComputeSome \/ \E S \in SUBSET Values : Ask(S)

Spec == Init /\ [][Next]_lazyvars /\ WF_lazyvars(ComputeSome)
=============================================================================
