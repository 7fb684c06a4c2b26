---------------------------- MODULE StreamThread ----------------------------
(***************************************************************************)
(* The worker thread behind one CPU stream (mlx/scheduler.h, StreamThread) *)
(* a queue of std::function<void()>, a mutex, a condition variable and a   *)
(* stop flag.                                                              *)
(*                                                                         *)
(* Every access to q and stop happens under mtx, and nothing blocks while  *)
(* holding it except cond.wait, which releases it.  A critical section is  *)
(* therefore one step; what stays separate is what the code does outside   *)
(* the lock: running the task, and each notify_one, which comes after the  *)
(* lock is released and can therefore be delayed.                          *)
(***************************************************************************)
EXTENDS Integers, Sequences

CONSTANTS
  Clients,      \* threads that call enqueue
  Tasks,        \* the closures they enqueue, each built once
  MaxSpurious   \* bound: spurious wake-ups of the condition variable

ASSUME StreamThreadAssumption ==
  /\ Clients # {}
  /\ MaxSpurious \in Nat

VARIABLES
  q,         \* tasks in the queue
  stop,      \* set once by the destructor
  wpc,       \* worker: "test" the predicate, blocked in "wait", "run", "exit"
  task,      \* the task the worker moved out of the queue
  cpc,       \* per client: "idle", or "notify" between unlock and notify_one
  dpc,       \* destructor: "live" -> "notify" -> "join" -> "gone"
  spurious,  \* spurious wake-ups so far
  accepted,  \* history: tasks enqueue returned from, in order
  refused,   \* history: tasks enqueue threw on
  ran        \* history: tasks that ran, in order

vars == <<q, stop, wpc, task, cpc, dpc, spurious, accepted, refused, ran>>

NoTask == <<>>

Init ==
  /\ q = <<>>
  /\ stop = FALSE
  /\ wpc = "test"
  /\ task = NoTask
  /\ cpc = [c \in Clients |-> "idle"]
  /\ dpc = "live"
  /\ spurious = 0
  /\ accepted = <<>>
  /\ refused = {}
  /\ ran = <<>>

Offered == {accepted[i] : i \in DOMAIN accepted} \cup refused

\* Mutant: enqueue without cond.notify_one().
EmplaceSilently(c, t) ==
  /\ cpc[c] = "idle" /\ dpc # "gone" /\ t \notin Offered
  /\ ~stop
  /\ q' = Append(q, t)
  /\ accepted' = Append(accepted, t)
  /\ UNCHANGED <<stop, wpc, task, cpc, dpc, spurious, refused, ran>>

(***************************************************************************)
(* enqueue: the guarded emplace, and the throw once the stream is stopped. *)
(* After the destructor has joined there is no object left to call.        *)
(***************************************************************************)
Emplace(c, t) ==
  /\ cpc[c] = "idle" /\ dpc # "gone" /\ t \notin Offered
  /\ ~stop
  /\ q' = Append(q, t)
  /\ accepted' = Append(accepted, t)
  /\ cpc' = [cpc EXCEPT ![c] = "notify"]
  /\ UNCHANGED <<stop, wpc, task, dpc, spurious, refused, ran>>

EnqueueThrows(c, t) ==
  /\ cpc[c] = "idle" /\ dpc # "gone" /\ t \notin Offered
  /\ stop
  /\ refused' = refused \cup {t}
  /\ UNCHANGED <<q, stop, wpc, task, cpc, dpc, spurious, accepted, ran>>

\* notify_one reaches the worker if it is blocked, and is lost otherwise.
WakeWorker == wpc' = IF wpc = "wait" THEN "test" ELSE wpc

NotifyOne(c) ==
  /\ cpc[c] = "notify"
  /\ cpc' = [cpc EXCEPT ![c] = "idle"]
  /\ WakeWorker
  /\ UNCHANGED <<q, stop, task, dpc, spurious, accepted, refused, ran>>

(***************************************************************************)
(* thread_fn: cond.wait with its predicate, the exit test, the pop.        *)
(***************************************************************************)
Block ==
  /\ wpc = "test" /\ q = <<>> /\ ~stop
  /\ wpc' = "wait"
  /\ UNCHANGED <<q, stop, task, cpc, dpc, spurious, accepted, refused, ran>>

SpuriousWake ==
  /\ wpc = "wait" /\ spurious < MaxSpurious
  /\ wpc' = "test"
  /\ spurious' = spurious + 1
  /\ UNCHANGED <<q, stop, task, cpc, dpc, accepted, refused, ran>>

\* Mutant: the newest task first.
PopBack ==
  /\ wpc = "test" /\ q # <<>>
  /\ task' = <<q[Len(q)]>>
  /\ q' = SubSeq(q, 1, Len(q) - 1)
  /\ wpc' = "run"
  /\ UNCHANGED <<stop, cpc, dpc, spurious, accepted, refused, ran>>

Pop ==
  /\ wpc = "test" /\ q # <<>>
  /\ task' = <<Head(q)>>
  /\ q' = Tail(q)
  /\ wpc' = "run"
  /\ UNCHANGED <<stop, cpc, dpc, spurious, accepted, refused, ran>>

RunTask ==
  /\ wpc = "run"
  /\ ran' = ran \o task
  /\ task' = NoTask
  /\ wpc' = "test"
  /\ UNCHANGED <<q, stop, cpc, dpc, spurious, accepted, refused>>

\* Mutant: if (stop) return.
ExitOnStop ==
  /\ wpc = "test" /\ stop
  /\ wpc' = "exit"
  /\ UNCHANGED <<q, stop, task, cpc, dpc, spurious, accepted, refused, ran>>

Exit ==
  /\ wpc = "test" /\ q = <<>> /\ stop
  /\ wpc' = "exit"
  /\ UNCHANGED <<q, stop, task, cpc, dpc, spurious, accepted, refused, ran>>

(***************************************************************************)
(* ~StreamThread                                                           *)
(***************************************************************************)
\* Mutant: the destructor notifies without setting stop.
SetNothing ==
  /\ dpc = "live"
  /\ dpc' = "notify"
  /\ UNCHANGED <<q, stop, wpc, task, cpc, spurious, accepted, refused, ran>>

SetStop ==
  /\ dpc = "live"
  /\ stop' = TRUE
  /\ dpc' = "notify"
  /\ UNCHANGED <<q, wpc, task, cpc, spurious, accepted, refused, ran>>

\* Mutant: the destructor joins without cond.notify_one().
JoinAtOnce ==
  /\ dpc = "notify"
  /\ dpc' = "join"
  /\ UNCHANGED <<q, stop, wpc, task, cpc, spurious, accepted, refused, ran>>

NotifyStop ==
  /\ dpc = "notify"
  /\ dpc' = "join"
  /\ WakeWorker
  /\ UNCHANGED <<q, stop, task, cpc, spurious, accepted, refused, ran>>

Join ==
  /\ dpc = "join" /\ wpc = "exit"
  /\ dpc' = "gone"
  /\ UNCHANGED <<q, stop, wpc, task, cpc, spurious, accepted, refused, ran>>

Worker == Block \/ Pop \/ RunTask \/ Exit
Destroy == SetStop \/ NotifyStop \/ Join

\* Nothing is left to do once the object is gone and every client returned.
Terminated ==
  /\ dpc = "gone" /\ \A c \in Clients : cpc[c] = "idle"
  /\ UNCHANGED vars

Next ==
  \/ \E c \in Clients, t \in Tasks : Emplace(c, t) \/ EnqueueThrows(c, t)
  \/ \E c \in Clients : NotifyOne(c)
  \/ Worker \/ SpuriousWake
  \/ Destroy
  \/ Terminated

(***************************************************************************)
(* The operating system runs every thread that can run; a destructor that  *)
(* was entered goes on.  Nobody has to enqueue, to destroy the stream, or  *)
(* to wake up spuriously.                                                  *)
(***************************************************************************)
Fairness ==
  /\ WF_vars(Worker)
  /\ \A c \in Clients : WF_vars(NotifyOne(c))
  /\ WF_vars(NotifyStop) /\ WF_vars(Join)

Spec == Init /\ [][Next]_vars /\ Fairness

-----------------------------------------------------------------------------
(* Properties *)

\* Every variable has its type; the worker holds a task exactly while it runs
\* one, and stop is set exactly once the destructor was entered.
TypeOK ==
  /\ q \in Seq(Tasks)
  /\ stop \in BOOLEAN
  /\ wpc \in {"test", "wait", "run", "exit"}
  /\ task \in Seq(Tasks)
  /\ cpc \in [Clients -> {"idle", "notify"}]
  /\ dpc \in {"live", "notify", "join", "gone"}
  /\ spurious \in 0..MaxSpurious
  /\ accepted \in Seq(Tasks)
  /\ refused \in SUBSET Tasks
  /\ ran \in Seq(Tasks)
  /\ wpc = "run" <=> task # NoTask
  /\ stop <=> dpc # "live"

\* A worker blocked in cond.wait while its predicate is true always has a
\* notify_one on its way: notifying after the unlock, and never holding the
\* lock across two tests, loses no wake-up.
NoLostWakeup ==
  wpc = "wait" /\ (q # <<>> \/ stop) =>
    dpc = "notify" \/ \E c \in Clients : cpc[c] = "notify"

\* The worker leaves its loop only after the stream was stopped and everything
\* enqueue accepted has run, in the order it was accepted: the destructor
\* drains the stream and never drops a task.
ExitsDrained ==
  wpc = "exit" => stop /\ ran = accepted

\* What the rest of the system relies on: whatever enqueue accepted runs, once
\* and in order, and a destructor that was entered returns.
Executor == INSTANCE SerialExecutor WITH closed <- dpc = "gone"
ImplementsExecutor == Executor!Spec

\* ~StreamThread does not hang in thread.join().
DestructorReturns == dpc # "live" ~> dpc = "gone"
=============================================================================
