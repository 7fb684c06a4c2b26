------------------------------- MODULE MCRing -------------------------------
(***************************************************************************)
(* The three parts of the ring backend, each by itself: the first state    *)
(* chooses the part that runs, the others stay in their first state.       *)
(***************************************************************************)
EXTENDS Integers, Sequences, FiniteSets

CONSTANTS
  Parts,
  Size, Addresses, Attempts, MaxFaults,
  Messages, Replies, SocketCapacity, Destroyed, MaxErrors,
  MinBuffer, AllSum, LinkCapacity

VARIABLES
  part,
  op, tries, listening, backlog, left, right, threw,
  queue, calls, client, wpc, flags, errors, errno, wire, broken, stop, dpc,
  ready, moved, missed,
  job, plan, data, scratch, i, j, sends, recvs, link, returned

\* Two messages in a queue, and an empty one that overtakes the first.
MCMessages == <<2, 0, 1>>
MCReplies == <<1>>

\* Rings of two and three ranks, sizes that fill every segment, end inside
\* one or leave some empty, with one packet per segment or several, and less
\* than one element per rank.
MCJobs ==
  {[kind |-> "reduce", size |-> n, elements |-> e, direction |-> d] :
     n \in {2, 3}, e \in {1, 4, 7}, d \in {-1, 1}}
    \cup {[kind |-> "gather", size |-> n, elements |-> 2, direction |-> d] :
            n \in {2, 3}, d \in {-1, 1}}
AnyJob == CHOOSE x \in MCJobs : TRUE

Setup == INSTANCE RingSetup
Socket == INSTANCE RingSocket WITH Capacity <- SocketCapacity
Collective ==
  INSTANCE RingCollective WITH Capacity <- LinkCapacity, Jobs <- MCJobs

setupVars == <<op, tries, listening, backlog, left, right, threw>>
socketVars == <<queue, calls, client, wpc, flags, errors, errno, wire, broken,
                stop, dpc, ready, moved, missed>>
collectiveVars == <<job, plan, data, scratch, i, j, sends, recvs, link, returned>>
vars == <<part, setupVars, socketVars, collectiveVars>>

ASSUME ConstantsOK ==
  /\ Parts \subseteq {"setup", "socket", "collective"}
  /\ Size > 1 /\ Addresses > 0 /\ MinBuffer > 0 /\ AllSum > 0
  /\ Messages \in Seq(Nat) /\ Replies \in Seq(Nat)

Init ==
  /\ part \in Parts
  /\ Setup!Init /\ Socket!Init /\ Collective!Init
  /\ part # "collective" => job = AnyJob

OnlySetup == part = "setup" /\ UNCHANGED <<part, socketVars, collectiveVars>>
OnlySocket == part = "socket" /\ UNCHANGED <<part, setupVars, collectiveVars>>
OnlyCollective == part = "collective" /\ UNCHANGED <<part, setupVars, socketVars>>

\* Every part may stop for good, the sockets at any time: nobody has to call.
Stopped ==
  /\ \/ part = "setup" /\ Setup!Settled
     \/ part = "socket"
     \/ part = "collective" /\ Collective!AllReturned
  /\ UNCHANGED vars

Next ==
  \/ part = "setup" /\ Setup!Next /\ OnlySetup
  \/ part = "socket" /\ Socket!Next /\ OnlySocket
  \/ part = "collective" /\ Collective!Next /\ OnlyCollective
  \/ Stopped

(***************************************************************************)
(* Processes run and TCP delivers.  Nobody has to enqueue on a socket or   *)
(* to destroy it, and nothing has to fail.                                 *)
(***************************************************************************)
Fairness ==
  /\ \A r \in 0 .. Size - 1 : WF_vars(part = "setup" /\ Setup!Step(r) /\ OnlySetup)
  /\ WF_vars(part = "collective" /\ Collective!Next /\ OnlyCollective)

Spec == Init /\ [][Next]_vars /\ Fairness

-----------------------------------------------------------------------------
(* Properties *)

\* Accepting and connecting around the ring never ends in a circle of ranks
\* that all accept: every constructor returns unless one of them throws, and
\* all_reduce and all_gather return on every rank, however few bytes the
\* connections hold.
RingReturns ==
  /\ part = "setup" ~> Setup!Settled
  /\ part = "collective" ~> Collective!AllReturned

\* A future of a send or receive is ready only when its bytes have moved, also
\* after errors and when lists grow while the worker is outside the lock.
PromisesHonest == Socket!HonestPromises

\* enqueue never leaves the worker asleep over work, and the destructor leaves
\* it asleep, and itself in join, only if its notification came between the
\* worker's test of stop_ and its sleep, which not taking the mutex allows.
WakeupsLostOnlyByDestructor == Socket!AsleepWithWork

\* all_reduce leaves every rank with the sum over all ranks of every element,
\* all_gather with every rank's elements in the order of the ranks: packets
\* are reduced before they are passed on, each once, at any speed of the links.
CollectiveCorrect == Collective!Correct

\* No element that a posted send has still to read is overwritten, by a
\* receive of the second half of the plan or by a reduction.
SendsStable == [][Collective!SendsStable]_collectiveVars
=============================================================================
