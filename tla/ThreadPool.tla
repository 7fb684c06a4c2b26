------------------------------ MODULE ThreadPool ------------------------------
(***************************************************************************)
(* The thread pool of the CPU backend (threadpool.h) with its workers, a   *)
(* caller that enqueues tasks, and an owner that resizes the pool and may  *)
(* destroy it.  Sections under queue_mutex are single steps; where the     *)
(* code leaves the mutex, to notify, to join or to run a task, another     *)
(* step starts.                                                            *)
(***************************************************************************)
EXTENDS Integers, Sequences, FiniteSets, SequencesExt

CONSTANTS
  Workers,      \* bound: threads there can be
  Sizes,        \* arguments of resize, the first size among them
  Tasks,        \* what the caller enqueues, in any order, once
  MaxResizes    \* bound: calls of resize

VARIABLES
  workers,      \* what each thread does: "none", "test", "asleep", "exited",
                \* or the task it runs
  tasks,        \* the queue
  stop,
  owner,        \* [at |-> where in resize or the destructor, to |-> new size]
  resizes,
  notify,       \* tasks enqueued whose notify_one is still to come
  refused,      \* tasks enqueue threw for
  ran           \* tasks that have run

vars == <<workers, tasks, stop, owner, resizes, notify, refused, ran>>

Size == Cardinality({w \in Workers : workers[w] # "none"})

\* start_threads: n more of them.
Start(n) ==
  \E new \in SUBSET {w \in Workers : workers[w] \in {"none", "exited"}} :
    /\ Cardinality(new) = n
    /\ workers' = [w \in Workers |-> IF w \in new THEN "test"
                                     ELSE IF workers[w] = "exited" THEN "none"
                                     ELSE workers[w]]

Init ==
  /\ \E n \in Sizes :
       LET first == CHOOSE W \in SUBSET Workers : Cardinality(W) = n
       IN  workers = [w \in Workers |-> IF w \in first THEN "test" ELSE "none"]
  /\ tasks = <<>> /\ stop = FALSE
  /\ owner = [at |-> "out", to |-> 0] /\ resizes = 0
  /\ notify = {} /\ refused = {} /\ ran = {}

Asleep == {w \in Workers : workers[w] = "asleep"}

-----------------------------------------------------------------------------
(* The caller *)

Seen == ToSet(tasks) \cup refused \cup ran \cup {workers[w] : w \in Workers}

Enqueue(t) ==
  /\ t \notin Seen /\ owner.at # "destroyed"
  /\ IF stop
     THEN refused' = refused \cup {t} /\ UNCHANGED <<tasks, notify>>
     ELSE /\ tasks' = Append(tasks, t) /\ notify' = notify \cup {t}
          /\ UNCHANGED refused
  /\ UNCHANGED <<workers, stop, owner, resizes, ran>>

NotifyOne(t) ==
  /\ t \in notify /\ notify' = notify \ {t}
  /\ IF Asleep = {} THEN UNCHANGED workers
     ELSE \E w \in Asleep : workers' = [workers EXCEPT ![w] = "test"]
  /\ UNCHANGED <<tasks, stop, owner, resizes, refused, ran>>

-----------------------------------------------------------------------------
(* A worker *)

\* Under the mutex: sleep, leave, or take the first task.
Take(w) ==
  /\ workers[w] = "test"
  /\ \/ /\ tasks = <<>>
        /\ workers' = [workers EXCEPT ![w] = IF stop THEN "exited" ELSE "asleep"]
        /\ UNCHANGED tasks
     \/ /\ tasks # <<>>
        /\ workers' = [workers EXCEPT ![w] = Head(tasks)] /\ tasks' = Tail(tasks)
  /\ UNCHANGED <<stop, owner, resizes, notify, refused, ran>>

Run(w) ==
  /\ workers[w] \in Tasks
  /\ ran' = ran \cup {workers[w]} /\ workers' = [workers EXCEPT ![w] = "test"]
  /\ UNCHANGED <<tasks, stop, owner, resizes, notify, refused>>

-----------------------------------------------------------------------------
(* The owner *)

\* resize returns at once, grows, or stops every thread and starts anew.
Resize(n) ==
  /\ owner.at = "out" /\ resizes < MaxResizes /\ n # Size
  /\ resizes' = resizes + 1
  /\ IF Size > n
     THEN /\ owner' = [at |-> "stop", to |-> n] /\ stop' = TRUE
          /\ UNCHANGED workers
     ELSE Start(n - Size) /\ UNCHANGED <<owner, stop>>
  /\ UNCHANGED <<tasks, notify, refused, ran>>

\* ~ThreadPool
Destroy ==
  /\ owner.at = "out"
  /\ owner' = [at |-> "stop", to |-> -1] /\ stop' = TRUE
  /\ UNCHANGED <<workers, tasks, resizes, notify, refused, ran>>

\* The workers after a notify_all that finds W asleep.
Woken(W) == [w \in Workers |-> IF w \in W THEN "test" ELSE workers[w]]

NotifyAll ==
  /\ owner.at = "stop" /\ owner' = [owner EXCEPT !.at = "join"]
  /\ workers' = Woken(Asleep)
  /\ UNCHANGED <<tasks, stop, resizes, notify, refused, ran>>

\* Every thread has left.  stop is reset without the mutex.
Joined ==
  /\ owner.at = "join" /\ \A w \in Workers : workers[w] \in {"none", "exited"}
  /\ stop' = FALSE
  /\ owner' = [owner EXCEPT !.at = IF owner.to < 0 THEN "destroyed" ELSE "start"]
  /\ UNCHANGED <<workers, tasks, resizes, notify, refused, ran>>

Restart ==
  /\ owner.at = "start" /\ Start(owner.to)
  /\ owner' = [at |-> "out", to |-> 0]
  /\ UNCHANGED <<tasks, stop, resizes, notify, refused, ran>>

Worker(w) == Take(w) \/ Run(w)
Owner == NotifyAll \/ Joined \/ Restart

Next ==
  \/ \E t \in Tasks : Enqueue(t) \/ NotifyOne(t)
  \/ \E w \in Workers : Worker(w)
  \/ \E n \in Sizes : Resize(n)
  \/ Destroy
  \/ Owner

-----------------------------------------------------------------------------
(* Properties *)

\* Enqueued and neither refused nor run.
Waiting(t) == t \in ToSet(tasks) \cup {workers[w] : w \in Workers}

OwnerBusy == owner.at \in {"stop", "join", "start"}
=============================================================================
