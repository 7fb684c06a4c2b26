---------------------------- MODULE TapeBuilder -----------------------------
(***************************************************************************)
(* The graph walk of eval_impl (mlx/transforms.cpp): a depth-first pass    *)
(* counts how often each array is used and finds the inputs that cross     *)
(* streams; a breadth-first pass of bounded width then lists the arrays to *)
(* schedule.  AsyncEval takes any tape that satisfies IsTape; this module  *)
(* is how the code finds one.                                              *)
(*                                                                         *)
(* There are no tracers, so an array that is not unscheduled is detached   *)
(* and the walk goes no further there.                                     *)
(***************************************************************************)
EXTENDS EvalGraph

CONSTANTS
  Cases,     \* the calls: records with graph g, unscheduled arrays u, outs
  MaxWidths  \* values of MLX_BFS_MAX_WIDTH

Sync == 0

\* The outputs of a primitive are scheduled together, so u has an array with
\* its siblings.
ASSUME TapeBuilderAssumption ==
  /\ MaxWidths \subseteq Nat
  /\ \A c \in Cases :
       /\ IsGraph(c.g) /\ c.outs \in Seq(Arrays) /\ c.u \subseteq Arrays
       /\ \A a \in c.u : c.g.sib[a] \subseteq c.u

VARIABLES
  call, maxWidth,  \* the call and the setting; never change
  phase,           \* "dfs", "bfs", "done"
  dfs,             \* the stack of both passes: array and next input
  degree,          \* the map cache: array -> uses not yet met by the second pass
  needsFence,
  tape, i,         \* arrays to schedule, consumers first; the next to expand
  at               \* second pass: the array being expanded and its next input

vars == <<call, maxWidth, phase, dfs, degree, needsFence, tape, i, at>>

\* The Synchronizer is an array whose inputs are the outputs asked for, on
\* the stream of the first of them that is unscheduled.
Unscheduled(a) == a \in call.u
Home == LET first == CHOOSE k \in DOMAIN call.outs :
                       /\ Unscheduled(call.outs[k])
                       /\ \A j \in 1 .. k - 1 : ~Unscheduled(call.outs[j])
        IN  call.g.stream[call.outs[first]]
Inputs(a) == IF a = Sync THEN call.outs
             ELSE IF Unscheduled(a) THEN call.g.in[a] ELSE <<>>
StreamOf(a) == IF a = Sync THEN Home ELSE call.g.stream[a]
Siblings(a) == IF Unscheduled(a) THEN call.g.sib[a] ELSE {}

NoEntry == <<Sync, 0>>

Start ==
  /\ phase = "dfs"
  /\ dfs = <<<<Sync, 1>>>>
  /\ degree = [a \in {} |-> 0]
  /\ needsFence = {}
  /\ tape = <<>> /\ i = 0 /\ at = NoEntry

Init == call \in Cases /\ maxWidth \in MaxWidths /\ Start

-----------------------------------------------------------------------------
(* First pass *)

\* Mutant: only the input itself is counted.
CountOne(x) ==
  IF x \in DOMAIN degree
    THEN [degree EXCEPT ![x] = @ + 1]
    ELSE [a \in DOMAIN degree \cup {x} \cup Siblings(x) |->
            IF a \in {x} \cup Siblings(x) THEN 1 ELSE degree[a]]

\* All siblings have the same degree.
Count(x) ==
  LET uses == {x} \cup Siblings(x)
  IN  [a \in DOMAIN degree \cup uses |->
         IF a \notin uses THEN degree[a]
         ELSE IF a \in DOMAIN degree THEN degree[a] + 1 ELSE 1]

\* Mutant: an input that was met before is not looked at again.
MarkFenceOnce(a, x) ==
  IF Unscheduled(x) /\ StreamOf(a) # StreamOf(x) /\ x \notin DOMAIN degree
    THEN needsFence \cup {x} ELSE needsFence

MarkFence(a, x) ==
  IF Unscheduled(x) /\ StreamOf(a) # StreamOf(x)
    THEN needsFence \cup {x} ELSE needsFence

VisitInput ==
  /\ phase = "dfs" /\ dfs # <<>>
  /\ LET a == Last(dfs)[1]
         idx == Last(dfs)[2]
         x == Inputs(a)[idx]
         advanced == Append(Front(dfs), <<a, idx + 1>>)
     IN  /\ idx <= Len(Inputs(a))
         /\ needsFence' = MarkFence(a, x)
         /\ degree' = Count(x)
         /\ dfs' = IF x \in DOMAIN degree THEN advanced
                                          ELSE Append(advanced, <<x, 1>>)
  /\ UNCHANGED <<call, maxWidth, phase, tape, i, at>>

LeaveArray ==
  /\ phase = "dfs" /\ dfs # <<>>
  /\ Last(dfs)[2] > Len(Inputs(Last(dfs)[1]))
  /\ dfs' = Front(dfs)
  /\ UNCHANGED <<call, maxWidth, phase, degree, needsFence, tape, i, at>>

StartTape ==
  /\ phase = "dfs" /\ dfs = <<>>
  /\ phase' = "bfs"
  /\ tape' = <<Sync>>
  /\ UNCHANGED <<call, maxWidth, dfs, degree, needsFence, i, at>>

-----------------------------------------------------------------------------
(* Second pass.  i counts the expanded entries of the tape, as in the code. *)

\* Mutant: the postponed arrays are not gone back to.
MoreWhileTape == degree # [a \in {} |-> 0] /\ i < Len(tape)

\* The condition of the loop.
MoreToExpand == degree # [a \in {} |-> 0] /\ (i < Len(tape) \/ dfs # <<>>)

\* Take the next entry of the tape, or go back to a postponed array.
NextArray ==
  /\ phase = "bfs" /\ at = NoEntry /\ MoreToExpand
  /\ IF i >= Len(tape)
       THEN at' = Last(dfs) /\ dfs' = Front(dfs) /\ UNCHANGED i
       ELSE at' = <<tape[i + 1], 1>> /\ i' = i + 1 /\ UNCHANGED dfs
  /\ UNCHANGED <<call, maxWidth, phase, degree, needsFence, tape>>

\* Mutant: the entry being expanded takes a place too.
TooWideWithCurrent == Len(tape) - i + 1 >= maxWidth

TooWide == Len(tape) - i >= maxWidth

\* Forget x and its siblings, or one use of each.
Uncount(x) ==
  LET uses == {x} \cup Siblings(x)
  IN  IF degree[x] = 1
        THEN [a \in DOMAIN degree \ uses |-> degree[a]]
        ELSE [a \in DOMAIN degree |-> IF a \in uses THEN degree[a] - 1
                                                    ELSE degree[a]]

ExpandInput ==
  /\ phase = "bfs" /\ at # NoEntry /\ at[2] <= Len(Inputs(at[1]))
  /\ LET x == Inputs(at[1])[at[2]]
     IN  CASE ~Unscheduled(x) ->
                /\ at' = <<at[1], at[2] + 1>>
                /\ UNCHANGED <<dfs, degree, tape>>
           [] Unscheduled(x) /\ TooWide ->
                /\ dfs' = Append(dfs, at) /\ at' = NoEntry
                /\ UNCHANGED <<degree, tape>>
           [] Unscheduled(x) /\ ~TooWide ->
                /\ degree' = Uncount(x)
                /\ tape' = IF degree[x] = 1 THEN Append(tape, x) ELSE tape
                /\ at' = <<at[1], at[2] + 1>>
                /\ UNCHANGED dfs
  /\ UNCHANGED <<call, maxWidth, phase, needsFence, i>>

ArrayExpanded ==
  /\ phase = "bfs" /\ at # NoEntry /\ at[2] > Len(Inputs(at[1]))
  /\ at' = NoEntry
  /\ UNCHANGED <<call, maxWidth, phase, dfs, degree, needsFence, tape, i>>

FinishTape ==
  /\ phase = "bfs" /\ at = NoEntry /\ ~MoreToExpand
  /\ phase' = "done"
  /\ UNCHANGED <<call, maxWidth, dfs, degree, needsFence, tape, i, at>>

Walk == \/ VisitInput \/ LeaveArray \/ StartTape
        \/ NextArray \/ ExpandInput \/ ArrayExpanded \/ FinishTape

Done == phase = "done" /\ UNCHANGED vars

Spec == Init /\ [][Walk \/ Done]_vars /\ WF_vars(Walk)

-----------------------------------------------------------------------------
(* Properties *)

\* When the second pass looks up the uses of an input it finds an entry: an
\* array is not met again after its last counted use, through no sibling
\* either, so the iterator of cache.find is never the end.
UsesFound ==
  phase = "bfs" /\ at # NoEntry /\ at[2] <= Len(Inputs(at[1])) =>
    LET x == Inputs(at[1])[at[2]]
    IN  Unscheduled(x) => {x} \cup Siblings(x) \subseteq DOMAIN degree

\* The finished tape, read from its end as eval_impl does, is one AsyncEval
\* admits, with the Synchronizer last.
TapeIsOrdered ==
  phase = "done" =>
    /\ tape[1] = Sync
    /\ IsTape(call.g, call.u, call.outs, Reverse(Tail(tape)))

\* An input gets a fence exactly if some entry of the tape consumes it on
\* another stream.
FencesExact ==
  phase = "done" =>
    needsFence = FencedInputs(call.g, call.u, call.outs, Home, Reverse(Tail(tape)))

\* The walk ends, whatever the graph and the width.
WalkEnds == <>(phase = "done")
=============================================================================
