----------------------------- MODULE RingSetup ------------------------------
(***************************************************************************)
(* The constructor of RingGroup (mlx/distributed/ring/ring.cpp) on every   *)
(* rank at once: accept_connections from the left neighbour,               *)
(* make_connections to the right one, in the order that depends on the     *)
(* rank, over as many addresses per rank as the host file gives.           *)
(*                                                                         *)
(* TCP is external: a connection is made with a socket that listens and    *)
(* has room in its backlog of one, before or after accept is called; any   *)
(* other attempt fails.  Between attempts a rank sleeps as long as it      *)
(* likes, so the waits are left out and only their number counts.          *)
(***************************************************************************)
EXTENDS Integers, Sequences, FiniteSets

CONSTANTS
  Size,       \* ranks
  Addresses,  \* addresses of each rank
  Attempts,   \* CONN_ATTEMPTS
  MaxFaults   \* bound: system calls that fail

VARIABLES
  op,         \* connections of the rank so far, plus one: 1 .. 2 * Addresses + 1
  tries,      \* attempts at the present connection
  listening,  \* address the rank listens on, or 0
  backlog,    \* rank waiting in the backlog of that socket: <<>> or <<rank>>
  left,       \* sockets_left_: ranks accepted
  right,      \* sockets_right_: ranks connected to
  threw       \* the constructor ended with an exception

Ranks == 0 .. Size - 1
ConnectTo(r) == (r + 1) % Size

Init ==
  /\ op = [r \in Ranks |-> 1]
  /\ tries = [r \in Ranks |-> 0]
  /\ listening = [r \in Ranks |-> 0]
  /\ backlog = [r \in Ranks |-> <<>>]
  /\ left = [r \in Ranks |-> <<>>]
  /\ right = [r \in Ranks |-> <<>>]
  /\ threw = [r \in Ranks |-> FALSE]

\* Mutant: every rank accepts first.
AlwaysAcceptFirst(r) == TRUE

\* The last rank connects first and accepts after.
AcceptsFirst(r) == r < ConnectTo(r)

Active(r) == ~threw[r] /\ op[r] <= 2 * Addresses
Accepting(r) == Active(r) /\ (op[r] <= Addresses) = AcceptsFirst(r)
Connecting(r) == Active(r) /\ ~Accepting(r)
Address(r) == ((op[r] - 1) % Addresses) + 1

\* socket, bind, listen
Listen(r) ==
  /\ Accepting(r) /\ listening[r] = 0
  /\ listening' = [listening EXCEPT ![r] = Address(r)]
  /\ UNCHANGED <<op, tries, backlog, left, right, threw>>

\* accept takes the pending peer, then the listening socket is closed.
Accept(r) ==
  /\ Accepting(r) /\ backlog[r] # <<>>
  /\ left' = [left EXCEPT ![r] = @ \o backlog[r]]
  /\ backlog' = [backlog EXCEPT ![r] = <<>>]
  /\ listening' = [listening EXCEPT ![r] = 0]
  /\ op' = [op EXCEPT ![r] = @ + 1]
  /\ UNCHANGED <<tries, right, threw>>

Reachable(r) ==
  LET peer == ConnectTo(r)
  IN  ~threw[peer] /\ listening[peer] = Address(r) /\ backlog[peer] = <<>>

Connect(r) ==
  /\ Connecting(r) /\ Reachable(r)
  /\ backlog' = [backlog EXCEPT ![ConnectTo(r)] = <<r>>]
  /\ right' = [right EXCEPT ![r] = Append(@, ConnectTo(r))]
  /\ op' = [op EXCEPT ![r] = @ + 1]
  /\ tries' = [tries EXCEPT ![r] = 0]
  /\ UNCHANGED <<listening, left, threw>>

ConnectFails(r) ==
  /\ Connecting(r) /\ ~Reachable(r)
  /\ tries' = [tries EXCEPT ![r] = @ + 1]
  /\ threw' = [threw EXCEPT ![r] = tries[r] + 1 = Attempts]
  /\ UNCHANGED <<op, listening, backlog, left, right>>

\* Any of the other system calls fails; the exception closes what was open.
Throws(r) ==
  /\ Active(r)
  /\ Cardinality({q \in Ranks : threw[q]}) < MaxFaults
  /\ threw' = [threw EXCEPT ![r] = TRUE]
  /\ listening' = [listening EXCEPT ![r] = 0]
  /\ backlog' = [backlog EXCEPT ![r] = <<>>]
  /\ UNCHANGED <<op, tries, left, right>>

Step(r) == Listen(r) \/ Accept(r) \/ Connect(r) \/ ConnectFails(r)
Next == \E r \in Ranks : Step(r) \/ Throws(r)

-----------------------------------------------------------------------------
(* What the run of MCRing checks of this part *)

Connected(r) == op[r] > 2 * Addresses

\* Either every rank has its connections or some rank threw.
Settled == (\A r \in Ranks : Connected(r)) \/ \E r \in Ranks : threw[r]
=============================================================================
