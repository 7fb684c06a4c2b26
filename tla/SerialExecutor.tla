--------------------------- MODULE SerialExecutor ---------------------------
(***************************************************************************)
(* What a CPU stream promises to the evaluation engine, whatever threads,  *)
(* locks and condition variables are behind it: the tasks it accepted run  *)
(* one at a time, each once, in the order they were accepted, and none is  *)
(* left when the stream closes.  StreamThread implements this; AsyncEval   *)
(* is written over it.                                                     *)
(***************************************************************************)
EXTENDS Integers, Sequences

CONSTANT Tasks

VARIABLES
  accepted,  \* the tasks accepted so far, in order
  ran,       \* the tasks that ran, in order
  closed

exvars == <<accepted, ran, closed>>

Init == accepted = <<>> /\ ran = <<>> /\ closed = FALSE

Submit(t) ==
  /\ ~closed
  /\ \A i \in DOMAIN accepted : accepted[i] # t
  /\ accepted' = Append(accepted, t)
  /\ UNCHANGED <<ran, closed>>

RunNext ==
  /\ ~closed
  /\ Len(ran) < Len(accepted)
  /\ ran' = Append(ran, accepted[Len(ran) + 1])
  /\ UNCHANGED <<accepted, closed>>

Close ==
  /\ ~closed /\ ran = accepted
  /\ closed' = TRUE
  /\ UNCHANGED <<accepted, ran>>

Next == RunNext \/ Close \/ \E t \in Tasks : Submit(t)

Spec == Init /\ [][Next]_exvars /\ WF_exvars(RunNext)
=============================================================================
