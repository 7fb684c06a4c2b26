--------------------------- MODULE RingCollective ---------------------------
(***************************************************************************)
(* all_reduce and all_gather over the ring (mlx/distributed/ring/ring.cpp: *)
(* all_reduce_impl, all_gather_impl) on every rank at once, for one of the *)
(* directions.  A rank runs its plan of sends and receives, with one       *)
(* packet ahead of the one it waits for and reduces; its socket threads    *)
(* meanwhile move single elements, so that a buffer is read or written at  *)
(* any time between the call and the end of its wait.  RingSocket has what *)
(* is inside a socket thread.                                              *)
(*                                                                         *)
(* Rank r has the value 4^r in every element and the operation is +: every *)
(* digit of a result tells how often a rank is in it.                      *)
(***************************************************************************)
EXTENDS Integers, Sequences, FiniteSets

LOCAL INSTANCE SequencesExt
LOCAL INSTANCE FiniteSetsExt

CONSTANTS
  Jobs,       \* the calls: kind, size of the ring, elements, direction
  MinBuffer,  \* least BUFFER_SIZE, 32768 in the code
  AllSum,     \* ALL_SUM_SIZE / sizeof(T)
  Capacity    \* elements a connection holds

VARIABLES
  job,      \* the call every rank makes
  plan,     \* per rank: send_plan and recv_plan as ranges of data, their size
            \* and how many packets are posted ahead
  data,     \* per rank: the output array
  scratch,  \* per rank: the ALL_SUM_BUFFERS receive buffers
  i,        \* per rank: entry of the plan it posts next, from 0
  j,        \* per rank: entry of the plan it waits for next, from 0
  sends,    \* per rank: posted and unfinished sends, as ranges of data
  recvs,    \* per rank: posted and unfinished receives, as ranges of a target
  link,     \* per rank: elements on their way to it
  returned  \* per rank: the call has returned

N == job.size
Ranks == 0 .. N - 1
CeilDiv(a, b) == (a + b - 1) \div b
LeastOf(a, b) == Min({a, b})

\* An array too small for the ring is reduced in a zero-filled buffer of N.
Elements == IF job.kind = "reduce" THEN Max({job.elements, N}) ELSE job.elements

SegmentSize == IF job.kind = "reduce" THEN CeilDiv(Elements, N) ELSE Elements
BufferSize ==
  IF job.kind = "reduce"
  THEN Max({MinBuffer, LeastOf(AllSum, SegmentSize \div 2)}) ELSE SegmentSize
Packets == CeilDiv(SegmentSize, BufferSize)
DataSize == IF job.kind = "reduce" THEN Elements ELSE N * Elements
Rounds == IF job.kind = "reduce" THEN 2 * (N - 1) ELSE N - 1
PlanLength == Rounds * Packets

\* Direction -1 sends to the right; a segment moves on one rank per round.
SendTo(r) == (r - job.direction + N) % N
SendSegment(r, round) == (r + round * job.direction + N * N) % N

\* Mutant: the first segment received is the one sent.
RecvSentSegment(r, round) == SendSegment(r, round)

RecvSegment(r, round) == (r + (round + 1) * job.direction + N * N) % N

\* The p-th packet of a segment, cut at the end of the segment and the data.
PacketRange(segment, p) ==
  LET stop == LeastOf((segment + 1) * SegmentSize, DataSize)
  IN  [from |-> LeastOf(segment * SegmentSize + p * BufferSize, stop),
       to   |-> LeastOf(segment * SegmentSize + (p + 1) * BufferSize, stop)]

Plan(r) ==
  [send |-> [n \in 0 .. PlanLength - 1 |->
               PacketRange(SendSegment(r, n \div Packets), n % Packets)],
   recv |-> [n \in 0 .. PlanLength - 1 |->
               PacketRange(RecvSegment(r, n \div Packets), n % Packets)],
   size |-> PlanLength,
   lag  |-> IF Packets > 1 THEN 1 ELSE 0]

Scatters(r, n) == job.kind = "reduce" /\ 2 * n < plan[r].size

Before(r) ==
  [x \in 0 .. DataSize - 1 |->
     IF job.kind = "reduce" THEN IF x < job.elements THEN 4 ^ r ELSE 0
     ELSE IF x \div Elements = r THEN 4 ^ r ELSE 0]

Init ==
  /\ job \in Jobs
  /\ plan = [r \in Ranks |-> Plan(r)]
  /\ data = [r \in Ranks |-> Before(r)]
  /\ scratch = [r \in Ranks |-> [b \in {0, 1} |-> [x \in 0 .. BufferSize - 1 |-> 0]]]
  /\ i = [r \in Ranks |-> 0] /\ j = [r \in Ranks |-> 0]
  /\ sends = [r \in Ranks |-> <<>>] /\ recvs = [r \in Ranks |-> <<>>]
  /\ link = [r \in Ranks |-> <<>>]
  /\ returned = [r \in Ranks |-> FALSE]

NonEmpty(task) == IF task.from < task.to THEN <<task>> ELSE <<>>

\* comm_.send and comm_.recv of the next packet; an empty one is complete.
Post(r) ==
  LET n == i[r]
      in == plan[r].recv[n]
      task == IF Scatters(r, n)
              THEN [n |-> n, at |-> n % 2, from |-> 0, to |-> in.to - in.from]
              ELSE [n |-> n, at |-> -1, from |-> in.from, to |-> in.to]
  IN  /\ n < plan[r].size /\ n <= j[r] + plan[r].lag
      /\ sends' = [sends EXCEPT ![r] = @ \o NonEmpty([n |-> n] @@ plan[r].send[n])]
      /\ recvs' = [recvs EXCEPT ![r] = @ \o NonEmpty(task)]
      /\ i' = [i EXCEPT ![r] = n + 1]
      /\ UNCHANGED <<job, plan, data, scratch, j, link, returned>>

\* Mutant: only the send is waited for.
CompleteSendOnly(r, n) == \A k \in DOMAIN sends[r] : sends[r][k].n # n

Complete(r, n) ==
  /\ \A k \in DOMAIN sends[r] : sends[r][k].n # n
  /\ \A k \in DOMAIN recvs[r] : recvs[r][k].n # n

\* Waits for entry j, the last posted one or the one before, and reduces it.
Reduce(r) ==
  LET n == j[r]
      in == plan[r].recv[n]
  IN  /\ n < plan[r].size /\ i[r] = LeastOf(n + 1 + plan[r].lag, plan[r].size)
      /\ Complete(r, n)
      /\ j' = [j EXCEPT ![r] = n + 1]
      /\ data' = IF Scatters(r, n)
                 THEN [data EXCEPT ![r] = [x \in DOMAIN @ |->
                        IF x \in in.from .. in.to - 1
                        THEN @[x] + scratch[r][n % 2][x - in.from] ELSE @[x]]]
                 ELSE data
      /\ UNCHANGED <<job, plan, scratch, i, sends, recvs, link, returned>>

Return(r) ==
  /\ j[r] = plan[r].size /\ ~returned[r]
  /\ returned' = [returned EXCEPT ![r] = TRUE]
  /\ UNCHANGED <<job, plan, data, scratch, i, j, sends, recvs, link>>

\* The first task without its first element, gone if that was the last.
Advance(tasks) == NonEmpty([Head(tasks) EXCEPT !.from = @ + 1]) \o Tail(tasks)

\* The thread of the sending socket reads an element where it is now.
Transmit(r) ==
  LET to == SendTo(r)
  IN  /\ sends[r] # <<>> /\ Len(link[to]) < Capacity
      /\ link' = [link EXCEPT ![to] = Append(@, data[r][Head(sends[r]).from])]
      /\ sends' = [sends EXCEPT ![r] = Advance(@)]
      /\ UNCHANGED <<job, plan, data, scratch, i, j, recvs, returned>>

Deliver(r) ==
  LET task == Head(recvs[r])
      value == Head(link[r])
  IN  /\ recvs[r] # <<>> /\ link[r] # <<>>
      /\ IF task.at = -1
         THEN /\ data' = [data EXCEPT ![r][task.from] = value]
              /\ UNCHANGED scratch
         ELSE /\ scratch' = [scratch EXCEPT ![r][task.at][task.from] = value]
              /\ UNCHANGED data
      /\ link' = [link EXCEPT ![r] = Tail(@)]
      /\ recvs' = [recvs EXCEPT ![r] = Advance(@)]
      /\ UNCHANGED <<job, plan, i, j, sends, returned>>

Step(r) == Post(r) \/ Reduce(r) \/ Return(r) \/ Transmit(r) \/ Deliver(r)
Next == \E r \in Ranks : Step(r)

-----------------------------------------------------------------------------
(* What the run of MCRing checks of this part *)

After(x) ==
  IF job.kind = "reduce" THEN SumSet({4 ^ r : r \in Ranks})
  ELSE 4 ^ (x \div Elements)

\* What a rank returns has every rank's contribution exactly once.
Correct ==
  \A r \in Ranks : returned[r] =>
    \A x \in 0 .. DataSize - 1 :
      (job.kind = "reduce" => x < job.elements) => data[r][x] = After(x)

\* No element is written while a posted send has still to read it.
SendsStable ==
  \A r \in Ranks : \A s \in DOMAIN sends[r] :
    \A x \in sends[r][s].from .. sends[r][s].to - 1 : data'[r][x] = data[r][x]

AllReturned == \A r \in Ranks : returned[r]
=============================================================================
