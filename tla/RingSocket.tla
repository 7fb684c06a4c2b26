----------------------------- MODULE RingSocket -----------------------------
(***************************************************************************)
(* SocketThread (mlx/distributed/ring/ring.cpp): one worker per socket     *)
(* with a list of sends and a list of receives, at both ends of one TCP    *)
(* connection.  A section under queue_mutex_ is one step; what stays       *)
(* separate is what the code does outside it: each notify_one, each call   *)
(* of recv and send, and the destructor, which sets stop_ without the      *)
(* mutex, so that it can fall between the worker's test of the predicate   *)
(* ("block", the mutex still held) and its sleep ("wait").                 *)
(*                                                                         *)
(* The connection is external: a bounded number of bytes each way, moved   *)
(* one at a time, and it can break.  errno keeps its value until a call    *)
(* fails; recv on a broken connection returns 0 and leaves it alone.       *)
(***************************************************************************)
EXTENDS Integers, Sequences, FiniteSets

CONSTANTS
  Messages,   \* sizes of the messages end 1 sends and end 2 receives, in order
  Replies,    \* those end 2 sends and end 1 receives
  Capacity,   \* bytes the connection holds each way
  Destroyed,  \* ends whose SocketThread is destroyed
  MaxErrors   \* error_count at which the worker gives up

Ends == {1, 2}
Peer(e) == 3 - e
Lists == {"sends", "recvs"}

VARIABLES
  queue,    \* per end: the tasks in sends_ and recvs_: the n-th call of the
            \* list, and the bytes left of it
  calls,    \* per end: tasks each list was given so far
  client,   \* per end: "idle", or "notify" between unlock and notify_one
  wpc,      \* worker: lock, block, wait, recv, send, check, exit
  flags,    \* delete_recv and delete_send
  errors,   \* error_count
  errno,    \* "again", or "other" for anything else
  wire,     \* bytes on their way to this end
  broken,   \* the connection is broken
  stop,     \* stop_
  dpc,      \* destructor: live, notify, join, gone
  ready,    \* per end: calls of each list whose promise is fulfilled
  moved,    \* history: bytes each end has sent and received
  missed    \* history: notify_all came while the worker was about to sleep

Script(e, list) == IF (e = 1) = (list = "sends") THEN Messages ELSE Replies
None == [l \in Lists |-> 0]

Init ==
  /\ queue = [e \in Ends |-> [l \in Lists |-> <<>>]]
  /\ calls = [e \in Ends |-> None]
  /\ client = [e \in Ends |-> "idle"]
  /\ wpc = [e \in Ends |-> "lock"]
  /\ flags = [e \in Ends |-> {}]
  /\ errors = [e \in Ends |-> 0]
  /\ errno = [e \in Ends |-> "other"]
  /\ wire = [e \in Ends |-> 0]
  /\ broken = FALSE
  /\ stop = [e \in Ends |-> FALSE]
  /\ dpc = [e \in Ends |-> "live"]
  /\ ready = [e \in Ends |-> [l \in Lists |-> {}]]
  /\ moved = [e \in Ends |-> None]
  /\ missed = [e \in Ends |-> FALSE]

\* send_impl, recv_impl: a message of no bytes is complete at once.
Enqueue(e, l) ==
  LET n == calls[e][l] + 1
      size == Script(e, l)[n]
  IN  /\ client[e] = "idle" /\ wpc[e] # "block" /\ dpc[e] = "live"
      /\ n <= Len(Script(e, l))
      /\ calls' = [calls EXCEPT ![e][l] = n]
      /\ IF size = 0
         THEN /\ ready' = [ready EXCEPT ![e][l] = @ \cup {n}]
              /\ UNCHANGED <<queue, client>>
         ELSE /\ queue' = [queue EXCEPT ![e][l] = Append(@, [n |-> n, left |-> size])]
              /\ client' = [client EXCEPT ![e] = "notify"]
              /\ UNCHANGED ready
      /\ UNCHANGED <<wpc, flags, errors, errno, wire, broken, stop, dpc, moved,
                     missed>>

Woken(e) == IF wpc[e] = "wait" THEN [wpc EXCEPT ![e] = "lock"] ELSE wpc

NotifyOne(e) ==
  /\ client[e] = "notify"
  /\ client' = [client EXCEPT ![e] = "idle"]
  /\ wpc' = Woken(e)
  /\ UNCHANGED <<queue, calls, flags, errors, errno, wire, broken, stop, dpc,
                 ready, moved, missed>>

HaveTasks(q) == \E l \in Lists : q[l] # <<>>

\* Mutant: the flags are not reset once their tasks are gone.
LockKeepsFlags(e) ==
  LET gone == {l \in flags[e] : queue[e][l] # <<>>}
      q == [l \in Lists |-> IF l \in gone THEN Tail(queue[e][l]) ELSE queue[e][l]]
  IN  /\ wpc[e] = "lock"
      /\ queue' = [queue EXCEPT ![e] = q]
      /\ ready' = [ready EXCEPT ![e] = [l \in Lists |->
           IF l \in gone THEN @[l] \cup {Head(queue[e][l]).n} ELSE @[l]]]
      /\ wpc' = [wpc EXCEPT ![e] = IF stop[e] THEN "exit"
                                   ELSE IF HaveTasks(q) THEN "recv" ELSE "block"]
      /\ UNCHANGED <<calls, client, flags, errors, errno, wire, broken, stop,
                     dpc, moved, missed>>

\* Finished tasks leave their lists, then the worker stops, sleeps or goes on.
Lock(e) ==
  LET q == [l \in Lists |-> IF l \in flags[e] THEN Tail(queue[e][l])
                            ELSE queue[e][l]]
  IN  /\ wpc[e] = "lock"
      /\ queue' = [queue EXCEPT ![e] = q]
      /\ ready' = [ready EXCEPT ![e] = [l \in Lists |->
           IF l \in flags[e] THEN @[l] \cup {Head(queue[e][l]).n} ELSE @[l]]]
      /\ flags' = [flags EXCEPT ![e] = {}]
      /\ wpc' = [wpc EXCEPT ![e] = IF stop[e] THEN "exit"
                                   ELSE IF HaveTasks(q) THEN "recv" ELSE "block"]
      /\ UNCHANGED <<calls, client, errors, errno, wire, broken, stop, dpc,
                     moved, missed>>

Sleep(e) ==
  /\ wpc[e] = "block"
  /\ wpc' = [wpc EXCEPT ![e] = "wait"]
  /\ UNCHANGED <<queue, calls, client, flags, errors, errno, wire, broken, stop,
                 dpc, ready, moved, missed>>

\* A call that moved a byte of the first task of list l.
Moves(e, l) ==
  /\ queue' = [queue EXCEPT ![e][l][1].left = @ - 1]
  /\ flags' = IF queue[e][l][1].left = 1 THEN [flags EXCEPT ![e] = @ \cup {l}]
              ELSE flags
  /\ errors' = [errors EXCEPT ![e] = 0]
  /\ moved' = [moved EXCEPT ![e][l] = @ + 1]
  /\ UNCHANGED errno

\* A call that returned nothing, leaving errno with the value no.
Fails(e, no) ==
  /\ errno' = [errno EXCEPT ![e] = no]
  /\ errors' = [errors EXCEPT ![e] = IF no = "again" THEN @ ELSE @ + 1]
  /\ UNCHANGED <<queue, flags, moved, wire>>

Recv(e) ==
  /\ wpc[e] = "recv"
  /\ wpc' = [wpc EXCEPT ![e] = "send"]
  /\ \/ /\ queue[e]["recvs"] = <<>>
        /\ UNCHANGED <<queue, flags, errors, errno, moved, wire>>
     \/ /\ queue[e]["recvs"] # <<>> /\ wire[e] > 0
        /\ Moves(e, "recvs")
        /\ wire' = [wire EXCEPT ![e] = @ - 1]
     \/ /\ queue[e]["recvs"] # <<>> /\ wire[e] = 0
        /\ IF broken THEN Fails(e, errno[e]) \/ Fails(e, "other")
           ELSE Fails(e, "again")
  /\ UNCHANGED <<calls, client, broken, stop, dpc, ready, missed>>

Send(e) ==
  /\ wpc[e] = "send"
  /\ wpc' = [wpc EXCEPT ![e] = "check"]
  /\ \/ /\ queue[e]["sends"] = <<>>
        /\ UNCHANGED <<queue, flags, errors, errno, moved, wire>>
     \/ /\ queue[e]["sends"] # <<>> /\ ~broken /\ wire[Peer(e)] < Capacity
        /\ Moves(e, "sends")
        /\ wire' = [wire EXCEPT ![Peer(e)] = @ + 1]
     \/ /\ queue[e]["sends"] # <<>> /\ ~broken /\ wire[Peer(e)] = Capacity
        /\ Fails(e, "again")
     \/ /\ queue[e]["sends"] # <<>> /\ broken
        /\ Fails(e, "other")
  /\ UNCHANGED <<calls, client, broken, stop, dpc, ready, missed>>

\* Too many errors: the worker leaves, with its lists and promises as they are.
Check(e) ==
  /\ wpc[e] = "check"
  /\ wpc' = [wpc EXCEPT ![e] = IF errors[e] >= MaxErrors THEN "exit" ELSE "lock"]
  /\ UNCHANGED <<queue, calls, client, flags, errors, errno, wire, broken, stop,
                 dpc, ready, moved, missed>>

\* ~SocketThread
SetStop(e) ==
  /\ e \in Destroyed /\ dpc[e] = "live" /\ client[e] = "idle"
  /\ stop' = [stop EXCEPT ![e] = TRUE]
  /\ dpc' = [dpc EXCEPT ![e] = "notify"]
  /\ UNCHANGED <<queue, calls, client, wpc, flags, errors, errno, wire, broken,
                 ready, moved, missed>>

\* Mutant: the destructor does not notify.
NotifyNobody(e) ==
  /\ dpc[e] = "notify"
  /\ dpc' = [dpc EXCEPT ![e] = "join"]
  /\ UNCHANGED <<queue, calls, client, wpc, flags, errors, errno, wire, broken,
                 stop, ready, moved, missed>>

NotifyAll(e) ==
  /\ dpc[e] = "notify"
  /\ dpc' = [dpc EXCEPT ![e] = "join"]
  /\ wpc' = Woken(e)
  /\ missed' = [missed EXCEPT ![e] = wpc[e] = "block"]
  /\ UNCHANGED <<queue, calls, client, flags, errors, errno, wire, broken, stop,
                 ready, moved>>

Join(e) ==
  /\ dpc[e] = "join" /\ wpc[e] = "exit"
  /\ dpc' = [dpc EXCEPT ![e] = "gone"]
  /\ UNCHANGED <<queue, calls, client, wpc, flags, errors, errno, wire, broken,
                 stop, ready, moved, missed>>

Break ==
  /\ ~broken
  /\ broken' = TRUE
  /\ UNCHANGED <<queue, calls, client, wpc, flags, errors, errno, wire, stop,
                 dpc, ready, moved, missed>>

Worker(e) == Lock(e) \/ Sleep(e) \/ Recv(e) \/ Send(e) \/ Check(e)
Destroy(e) == SetStop(e) \/ NotifyAll(e) \/ Join(e)
Client(e) == NotifyOne(e) \/ \E l \in Lists : Enqueue(e, l)
Next == Break \/ \E e \in Ends : Client(e) \/ Worker(e) \/ Destroy(e)

-----------------------------------------------------------------------------
(* What the run of MCRing checks of this part *)

SumFirst(sizes, n) ==
  LET sum[k \in 0 .. Len(sizes)] == IF k = 0 THEN 0 ELSE sum[k - 1] + sizes[k]
  IN  sum[n]

\* A promise is fulfilled only when the bytes of its message, and of all before
\* it, have moved; that of an empty message is from the start.
HonestPromises ==
  \A e \in Ends, l \in Lists : \A n \in ready[e][l] :
    /\ n <= calls[e][l]
    /\ Script(e, l)[n] > 0 => SumFirst(Script(e, l), n) <= moved[e][l]

\* A worker asleep with work in its lists, or stopped, has a notification on
\* its way; or it is the one window in which the destructor's is lost.
AsleepWithWork ==
  \A e \in Ends :
    /\ wpc[e] = "wait" /\ HaveTasks(queue[e]) => client[e] = "notify"
    /\ wpc[e] = "wait" /\ stop[e] => dpc[e] = "notify" \/ missed[e]
=============================================================================
