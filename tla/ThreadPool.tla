----------------------------- MODULE ThreadPool -----------------------------
(***************************************************************************)
(* libuv_net::ThreadPool: worker threads that wait on a condition variable *)
(* for tasks or for the end, submit() and enqueue(), and the destructor,   *)
(* which lets the workers empty the queue and joins them.                  *)
(*                                                                         *)
(* What happens between the lock and the unlock of queue_mutex_ is one     *)
(* step.  The notifications come after the unlock and are steps of their   *)
(* own; wait() may return without one.  Tasks may submit tasks themselves. *)
(* A call that finds stop_ set changes nothing: enqueue() returns,         *)
(* submit() throws.                                                        *)
(***************************************************************************)
EXTENDS Naturals, Sequences, FiniteSets

CONSTANTS
    Workers,            \* threads_
    Submitters,         \* threads of the application
    MaxTasks            \* bound: tasks accepted

ASSUME PoolAssumption ==
    /\ IsFiniteSet(Workers) /\ Workers # {}
    /\ Workers \cap Submitters = {}
    /\ MaxTasks \in Nat

VARIABLES
    tasks,              \* tasks_, by number
    stop,               \* stop_
    worker,             \* worker[w]: "check" (has the mutex next and looks
                        \* at the predicate), "waiting", "running", "exited"
    current,            \* current[w]: the task w runs, 0 if none
    notifying,          \* callers between the unlock and notify_one()
    owner,              \* the destructor: "alive" (not called), "stopping"
                        \* (before notify_all), "joining" or "gone"
    accepted,           \* history: number of tasks accepted
    started,            \* history: tasks in the order they were popped
    finished            \* history: tasks that returned

queue == <<tasks, stop, accepted>>
threads == <<worker, current>>
history == <<started, finished>>
vars == <<queue, threads, notifying, owner, history>>

Init ==
    /\ tasks = <<>> /\ stop = FALSE /\ accepted = 0
    /\ worker = [w \in Workers |-> "check"]
    /\ current = [w \in Workers |-> 0]
    /\ notifying = {} /\ owner = "alive"
    /\ started = <<>> /\ finished = {}

Waiting == {w \in Workers : worker[w] = "waiting"}

(***************************************************************************)
(* submit() and enqueue(), from outside or from a running task             *)
(***************************************************************************)
\* Nobody outside calls a pool that is being destroyed.
MayCall(c) ==
    /\ c \notin notifying
    /\ c \in Submitters => owner = "alive"
    /\ c \in Workers => worker[c] = "running"

Enqueue(c) ==
    /\ MayCall(c)
    /\ ~stop
    /\ accepted < MaxTasks
    /\ accepted' = accepted + 1
    /\ tasks' = Append(tasks, accepted + 1)
    /\ notifying' = notifying \cup {c}
    /\ UNCHANGED <<stop, threads, owner, history>>

\* Mutant: the notification is forgotten.
NotifyOne_Nobody(c) ==
    /\ c \in notifying
    /\ notifying' = notifying \ {c}
    /\ UNCHANGED <<queue, threads, owner, history>>

\* condition_.notify_one() wakes one of the threads that wait, if any does.
NotifyOne(c) ==
    /\ c \in notifying
    /\ notifying' = notifying \ {c}
    /\ IF Waiting = {}
       THEN UNCHANGED worker
       ELSE \E w \in Waiting : worker' = [worker EXCEPT ![w] = "check"]
    /\ UNCHANGED <<queue, current, owner, history>>

(***************************************************************************)
(* The workers                                                             *)
(***************************************************************************)
\* Mutant: the task is read but stays in the queue.
TakeTask_NoPop(w) ==
    /\ worker[w] = "check" /\ tasks # <<>>
    /\ worker' = [worker EXCEPT ![w] = "running"]
    /\ current' = [current EXCEPT ![w] = Head(tasks)]
    /\ started' = Append(started, Head(tasks))
    /\ UNCHANGED <<queue, notifying, owner, finished>>

\* The predicate of wait() is true because of a task, stop_ or not.
TakeTask(w) ==
    /\ worker[w] = "check" /\ tasks # <<>>
    /\ worker' = [worker EXCEPT ![w] = "running"]
    /\ current' = [current EXCEPT ![w] = Head(tasks)]
    /\ tasks' = Tail(tasks)
    /\ started' = Append(started, Head(tasks))
    /\ UNCHANGED <<stop, accepted, notifying, owner, finished>>

\* Mutant: the predicate of wait() does not mention stop_.
Sleep_IgnoreStop(w) ==
    /\ worker[w] = "check" /\ tasks = <<>>
    /\ worker' = [worker EXCEPT ![w] = "waiting"]
    /\ UNCHANGED <<queue, current, notifying, owner, history>>

\* The predicate of wait() is false: the mutex is released and w waits.
Sleep(w) ==
    /\ worker[w] = "check" /\ tasks = <<>> /\ ~stop
    /\ worker' = [worker EXCEPT ![w] = "waiting"]
    /\ UNCHANGED <<queue, current, notifying, owner, history>>

\* wait() returns without a notification.
WakeUp(w) ==
    /\ worker[w] = "waiting"
    /\ worker' = [worker EXCEPT ![w] = "check"]
    /\ UNCHANGED <<queue, current, notifying, owner, history>>

\* Mutant: the worker keeps the task's function object while it waits.
FinishTask_KeepTask(w) ==
    /\ worker[w] = "running" /\ w \notin notifying
    /\ worker' = [worker EXCEPT ![w] = "check"]
    /\ finished' = finished \cup {current[w]}
    /\ UNCHANGED <<queue, current, notifying, owner, started>>

\* The task returns and, with the end of its scope, is destroyed.
FinishTask(w) ==
    /\ worker[w] = "running" /\ w \notin notifying
    /\ worker' = [worker EXCEPT ![w] = "check"]
    /\ current' = [current EXCEPT ![w] = 0]
    /\ finished' = finished \cup {current[w]}
    /\ UNCHANGED <<queue, notifying, owner, started>>

\* Mutant: a worker leaves as soon as it sees stop_.
Exit_AtOnce(w) ==
    /\ worker[w] = "check" /\ stop
    /\ worker' = [worker EXCEPT ![w] = "exited"]
    /\ UNCHANGED <<queue, current, notifying, owner, history>>

Exit(w) ==
    /\ worker[w] = "check" /\ stop /\ tasks = <<>>
    /\ worker' = [worker EXCEPT ![w] = "exited"]
    /\ UNCHANGED <<queue, current, notifying, owner, history>>

(***************************************************************************)
(* The destructor; no call from outside is under way any more              *)
(***************************************************************************)
SetStop ==
    /\ owner = "alive"
    /\ notifying \cap Submitters = {}
    /\ stop' = TRUE
    /\ owner' = "stopping"
    /\ UNCHANGED <<tasks, accepted, threads, notifying, history>>

\* Mutant: notify_one() instead of notify_all().
NotifyAll_One ==
    /\ owner = "stopping"
    /\ IF Waiting = {}
       THEN UNCHANGED worker
       ELSE \E w \in Waiting : worker' = [worker EXCEPT ![w] = "check"]
    /\ owner' = "joining"
    /\ UNCHANGED <<queue, current, notifying, history>>

NotifyAll ==
    /\ owner = "stopping"
    /\ worker' = [w \in Workers |-> IF w \in Waiting THEN "check" ELSE worker[w]]
    /\ owner' = "joining"
    /\ UNCHANGED <<queue, current, notifying, history>>

Join ==
    /\ owner = "joining"
    /\ \A w \in Workers : worker[w] = "exited"
    /\ owner' = "gone"
    /\ UNCHANGED <<queue, threads, notifying, history>>

Loop(w) == TakeTask(w) \/ Sleep(w) \/ FinishTask(w) \/ Exit(w)

Destroy == SetStop \/ NotifyAll \/ Join

Next ==
    \/ \E c \in Submitters \cup Workers : Enqueue(c) \/ NotifyOne(c)
    \/ \E w \in Workers : Loop(w) \/ WakeUp(w)
    \/ Destroy

Spec == Init /\ [][Next]_vars

\* Threads that can run do run, and tasks return.  Nothing makes a thread
\* submit, wait() return early or the application destroy the pool.
FairSpec ==
    /\ Spec
    /\ \A w \in Workers : WF_vars(Loop(w))
    /\ \A c \in Submitters \cup Workers : WF_vars(NotifyOne(c))
    /\ WF_vars(NotifyAll) /\ WF_vars(Join)

-----------------------------------------------------------------------------
TypeOK ==
    /\ tasks \in Seq(1..MaxTasks)
    /\ stop \in BOOLEAN
    /\ accepted \in 0..MaxTasks
    /\ worker \in [Workers -> {"check", "waiting", "running", "exited"}]
    /\ current \in [Workers -> 0..MaxTasks]
    /\ \A w \in Workers : current[w] # 0 <=> worker[w] = "running"
    /\ notifying \subseteq Submitters \cup Workers
    /\ owner \in {"alive", "stopping", "joining", "gone"}
    /\ started \in Seq(1..MaxTasks)
    /\ finished \subseteq 1..MaxTasks

\* Every accepted task is in the queue or was started, in the order of
\* acceptance, and in no place twice (tasks_.front() and pop() under the lock).
EachTaskOnce ==
    started \o tasks = [n \in 1..accepted |-> n]

\* No worker sleeps while there is a task nobody was woken for, although the
\* notification comes after the unlock and may find a thread that woke by
\* itself (condition_ and its predicate).
WorkConserving ==
    Waiting # {} =>
        Len(tasks) <= Cardinality(notifying)
                      + Cardinality({w \in Workers : worker[w] = "check"})

\* Once notify_all() was called nobody waits any more: join() would not
\* return.
NobodyMissesStop == owner \in {"joining", "gone"} => Waiting = {}

\* The destructor returns only when every task that was accepted has run,
\* those included that were still queued when stop_ was set.
DestructorDrains == owner = "gone" => finished = 1..accepted

Tasks == INSTANCE TaskQueue WITH started <- Len(started), gone <- owner = "gone"
ImplementsTaskQueue == Tasks!Spec

\* A task that was accepted is run, and the destructor, once called, returns.
PoolFinishes ==
    /\ \A n \in 1..MaxTasks : accepted >= n ~> n \in finished
    /\ owner # "alive" ~> owner = "gone"
=============================================================================
