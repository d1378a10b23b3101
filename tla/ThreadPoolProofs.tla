-------------------------- MODULE ThreadPoolProofs --------------------------
(***************************************************************************)
(* The thread pool runs each task once and in order, never sleeps on work, *)
(* and is drained before its destructor returns: for every set of workers, *)
(* every set of callers, finite or not, and every number of tasks.         *)
(***************************************************************************)
EXTENDS ThreadPool, SequenceFacts, FiniteSetTheorems

(***************************************************************************)
(* The inductive invariant.  DestructorDrains is not inductive: that       *)
(* nothing is left when the last worker has gone follows from what each    *)
(* worker saw when it left, and from where the tasks in hand are.          *)
(***************************************************************************)
\* A task that was started is in a worker's hands until it has returned.
AccountedFor ==
    /\ finished \subseteq 1..Len(started)
    /\ \A w \in Workers : current[w] <= Len(started)
    /\ \A n \in 1..Len(started) :
           n \in finished \/ \E w \in Workers : current[w] = n

\* stop_ is never taken back, a worker leaves an empty queue behind, and
\* from notify_all() on nobody waits.
StopOK ==
    /\ stop <=> owner # "alive"
    /\ \A w \in Workers : worker[w] = "exited" => stop /\ tasks = <<>>
    /\ owner \in {"joining", "gone"} => Waiting = {}
    /\ owner = "gone" => \A w \in Workers : worker[w] = "exited"

IInv == TypeOK /\ EachTaskOnce /\ AccountedFor /\ StopOK

-----------------------------------------------------------------------------
\* Moving an element from one queue to the end of another (front and pop).
LEMMA MoveHead ==
    ASSUME NEW S, NEW s \in Seq(S), NEW t \in Seq(S), t # <<>>
    PROVE  Append(s, Head(t)) \o Tail(t) = s \o t
<1>1. /\ Head(t) \in S /\ Tail(t) \in Seq(S)
      /\ Len(Tail(t)) = Len(t) - 1
      /\ \A i \in 1..Len(Tail(t)) : Tail(t)[i] = t[i + 1]
  BY HeadTailProperties
<1>2. Head(t) = t[1]
  OBVIOUS
<1>3. Len(s) \in Nat /\ Len(t) \in Nat /\ Len(t) > 0
  BY EmptySeq
<1> DEFINE a == Append(s, Head(t))
<1>4. /\ a \in Seq(S) /\ Len(a) = Len(s) + 1
      /\ \A i \in 1..Len(s) : a[i] = s[i]
      /\ a[Len(s) + 1] = t[1]
  BY <1>1, <1>2, AppendElements
<1> HIDE DEF a
<1> DEFINE r == Tail(t)
<1>5. /\ r \in Seq(S) /\ Len(r) = Len(t) - 1
      /\ \A i \in 1..Len(r) : r[i] = t[i + 1]
  BY <1>1
<1> HIDE DEF r
<1>6. /\ a \o r \in Seq(S) /\ Len(a \o r) = Len(a) + Len(r)
      /\ \A i \in 1..(Len(a) + Len(r)) :
             (a \o r)[i] = IF i <= Len(a) THEN a[i] ELSE r[i - Len(a)]
  BY <1>4, <1>5, ConcatProperties
<1>7. /\ s \o t \in Seq(S) /\ Len(s \o t) = Len(s) + Len(t)
      /\ \A i \in 1..(Len(s) + Len(t)) :
             (s \o t)[i] = IF i <= Len(s) THEN s[i] ELSE t[i - Len(s)]
  BY ConcatProperties
<1>8. Len(a \o r) = Len(s \o t)
  BY <1>3, <1>4, <1>5, <1>6, <1>7
<1>9. ASSUME NEW i \in 1..Len(a \o r) PROVE (a \o r)[i] = (s \o t)[i]
  <2>1. i \in Nat /\ 1 <= i /\ i <= Len(s) + Len(t)
    BY <1>3, <1>7, <1>8
  <2>2. CASE i <= Len(s)
    <3>1. (a \o r)[i] = a[i] /\ (s \o t)[i] = s[i] /\ i \in 1..Len(s)
      BY <1>3, <1>4, <1>5, <1>6, <1>7, <2>1, <2>2
    <3> QED
      BY <1>4, <3>1
  <2>3. CASE i = Len(s) + 1
    <3>1. (a \o r)[i] = a[i] /\ (s \o t)[i] = t[i - Len(s)] /\ i - Len(s) = 1
      BY <1>3, <1>4, <1>5, <1>6, <1>7, <2>1, <2>3
    <3> QED
      BY <1>4, <2>3, <3>1
  <2>4. CASE i > Len(s) + 1
    <3>1. /\ (a \o r)[i] = r[i - Len(a)] /\ (s \o t)[i] = t[i - Len(s)]
          /\ i - Len(a) \in 1..Len(r) /\ (i - Len(a)) + 1 = i - Len(s)
      BY <1>3, <1>4, <1>5, <1>6, <1>7, <2>1, <2>4
    <3> QED
      BY <1>5, <3>1
  <2> QED
    BY <1>3, <2>1, <2>2, <2>3, <2>4
<1>10. a \o r = s \o t
  BY <1>6, <1>7, <1>8, <1>9, SeqEqual
<1> QED
  BY <1>10 DEF a, r

\* What EachTaskOnce says of the two ends of the queue.
LEMMA QueueNumbers ==
    ASSUME TypeOK, EachTaskOnce
    PROVE  /\ accepted \in Nat /\ Len(started) \in Nat /\ Len(tasks) \in Nat
           /\ Len(started) + Len(tasks) = accepted
           /\ tasks # <<>> => /\ Head(tasks) = Len(started) + 1
                              /\ Head(tasks) \in 1..MaxTasks
                              /\ Tail(tasks) \in Seq(1..MaxTasks)
           /\ tasks = <<>> <=> Len(tasks) = 0
<1>1. tasks \in Seq(1..MaxTasks) /\ started \in Seq(1..MaxTasks)
  BY DEF TypeOK
<1>2. accepted \in Nat
  BY PoolAssumption DEF TypeOK
<1>3. Len(started) \in Nat /\ Len(tasks) \in Nat
  BY <1>1
<1>4. /\ Len(started \o tasks) = Len(started) + Len(tasks)
      /\ \A i \in 1..Len(tasks) : (started \o tasks)[Len(started) + i] = tasks[i]
  BY <1>1, ConcatElements
<1> DEFINE all == [n \in 1..accepted |-> n]
<1>5. Len(all) = accepted /\ \A n \in 1..accepted : all[n] = n
  BY <1>2
<1>6. started \o tasks = all
  BY DEF EachTaskOnce
<1> HIDE DEF all
<1>7. Len(started) + Len(tasks) = accepted
  BY <1>4, <1>5, <1>6
<1>8. tasks = <<>> <=> Len(tasks) = 0
  BY <1>1, EmptySeq
<1>9. ASSUME tasks # <<>>
      PROVE  /\ Head(tasks) = Len(started) + 1
             /\ Head(tasks) \in 1..MaxTasks /\ Tail(tasks) \in Seq(1..MaxTasks)
  <2>1. Head(tasks) \in 1..MaxTasks /\ Tail(tasks) \in Seq(1..MaxTasks)
    BY <1>1, <1>9, HeadTailProperties
  <2>2. 1 \in 1..Len(tasks) /\ Len(started) + 1 \in 1..accepted
    BY <1>3, <1>7, <1>8, <1>9
  <2>3. Head(tasks) = tasks[1]
    BY <1>1, <1>9
  <2> QED
    BY <1>4, <1>5, <1>6, <2>1, <2>2, <2>3
<1> QED
  BY <1>2, <1>3, <1>7, <1>8, <1>9

-----------------------------------------------------------------------------
LEMMA InitInvariant == Init => IInv
<1> SUFFICES ASSUME Init PROVE IInv
  OBVIOUS
<1>1. TypeOK
  <2>1. <<>> \in Seq(1..MaxTasks) /\ 0 \in 0..MaxTasks
    BY PoolAssumption, EmptySeq
  <2> QED
    BY <2>1 DEF Init, TypeOK
<1>2. EachTaskOnce
  <2>1. started \o tasks = <<>>
    BY DEF Init
  <2>2. [n \in 1..0 |-> n] = <<>>
    OBVIOUS
  <2> QED
    BY <2>1, <2>2 DEF Init, EachTaskOnce
<1>3. AccountedFor
  BY DEF Init, AccountedFor
<1>4. StopOK
  BY DEF Init, StopOK
<1> QED
  BY <1>1, <1>2, <1>3, <1>4 DEF IInv

\* submit() and enqueue() put the next number at the end of the queue.
LEMMA EnqueueStep ==
    ASSUME IInv, NEW c \in Submitters \cup Workers, Enqueue(c)
    PROVE  IInv'
<1>1. /\ TypeOK /\ EachTaskOnce /\ AccountedFor /\ StopOK
      /\ accepted \in Nat /\ accepted < MaxTasks /\ ~stop
      /\ accepted' = accepted + 1 /\ tasks' = Append(tasks, accepted + 1)
      /\ notifying' = notifying \cup {c}
      /\ UNCHANGED <<stop, worker, current, owner, started, finished>>
  BY QueueNumbers DEF IInv, Enqueue, threads, history
<1>2. accepted + 1 \in 1..MaxTasks
  BY <1>1, PoolAssumption
<1>3. tasks \in Seq(1..MaxTasks) /\ started \in Seq(1..MaxTasks)
  BY <1>1 DEF TypeOK
<1>4. tasks' \in Seq(1..MaxTasks)
  BY <1>1, <1>2, <1>3, AppendElements
<1>5. TypeOK'
  BY <1>1, <1>2, <1>4 DEF TypeOK
<1>6. EachTaskOnce'
  <2> DEFINE e == accepted + 1
             all == [n \in 1..accepted |-> n]
  <2>1. <<e>> \in Seq(1..MaxTasks) /\ e \in 1..MaxTasks
    BY <1>2
  <2> HIDE DEF e
  <2>2. Append(tasks, e) = tasks \o <<e>>
    BY <1>3, <2>1, AppendIsConcat
  <2>3. (started \o tasks) \o <<e>> = started \o (tasks \o <<e>>)
    BY <1>3, <2>1, ConcatAssociative
  <2>4. all \in Seq(1..MaxTasks)
    BY <1>1, PoolAssumption
  <2>5. Append(all, e) = all \o <<e>>
    BY <2>1, <2>4, AppendIsConcat
  <2>6. Append(all, accepted + 1) = [n \in 1..(accepted + 1) |-> n]
    BY <1>1
  <2>7. started \o tasks = all
    BY <1>1 DEF EachTaskOnce
  <2>8. tasks' = Append(tasks, e)
    BY <1>1 DEF e
  <2>9. started' \o tasks' = Append(all, e)
    BY <1>1, <2>2, <2>3, <2>5, <2>7, <2>8
  <2> QED
    BY <1>1, <2>6, <2>9 DEF EachTaskOnce, e
<1>7. AccountedFor' /\ StopOK'
  BY <1>1 DEF AccountedFor, StopOK, Waiting
<1> QED
  BY <1>5, <1>6, <1>7 DEF IInv

\* notify_one() changes who waits and nothing else.
LEMMA NotifyOneStep ==
    ASSUME IInv, NEW c \in Submitters \cup Workers, NotifyOne(c)
    PROVE  IInv'
<1>1. /\ TypeOK /\ EachTaskOnce /\ AccountedFor /\ StopOK
      /\ notifying' = notifying \ {c}
      /\ UNCHANGED <<tasks, stop, accepted, current, owner, started, finished>>
  BY DEF IInv, NotifyOne, queue, history
<1>2. \/ worker' = worker
      \/ \E w \in Waiting : worker' = [worker EXCEPT ![w] = "check"]
  BY DEF NotifyOne
<1>3. TypeOK'
  BY <1>1, <1>2 DEF TypeOK, Waiting
<1>4. EachTaskOnce' /\ AccountedFor'
  BY <1>1 DEF EachTaskOnce, AccountedFor
<1>5. StopOK'
  BY <1>1, <1>2 DEF TypeOK, StopOK, Waiting
<1> QED
  BY <1>3, <1>4, <1>5 DEF IInv

\* A worker pops the next task under the lock.
LEMMA TakeTaskStep ==
    ASSUME IInv, NEW w \in Workers, TakeTask(w)
    PROVE  IInv'
<1>1. /\ TypeOK /\ EachTaskOnce /\ AccountedFor /\ StopOK
      /\ worker[w] = "check" /\ tasks # <<>>
      /\ worker' = [worker EXCEPT ![w] = "running"]
      /\ current' = [current EXCEPT ![w] = Head(tasks)]
      /\ tasks' = Tail(tasks) /\ started' = Append(started, Head(tasks))
      /\ UNCHANGED <<stop, accepted, notifying, owner, finished>>
  BY DEF IInv, TakeTask
<1>2. /\ Len(started) \in Nat
      /\ Head(tasks) = Len(started) + 1
      /\ Head(tasks) \in 1..MaxTasks /\ Tail(tasks) \in Seq(1..MaxTasks)
  BY <1>1, QueueNumbers
<1>3. tasks \in Seq(1..MaxTasks) /\ started \in Seq(1..MaxTasks)
  BY <1>1 DEF TypeOK
<1>4. started' \in Seq(1..MaxTasks) /\ Len(started') = Len(started) + 1
  BY <1>1, <1>2, <1>3, AppendElements
<1>5. TypeOK'
  BY <1>1, <1>2, <1>4, PoolAssumption DEF TypeOK
<1>6. EachTaskOnce'
  <2>1. Append(started, Head(tasks)) \o Tail(tasks) = started \o tasks
    BY <1>1, <1>3, MoveHead
  <2> QED
    BY <1>1, <2>1 DEF EachTaskOnce
<1>7. AccountedFor'
  <2>1. current' \in [Workers -> 0..MaxTasks] /\ current'[w] = Len(started')
    BY <1>1, <1>2, <1>4, <1>5 DEF TypeOK
  <2>2. \A v \in Workers \ {w} : current'[v] = current[v]
    BY <1>1 DEF TypeOK
  <2>3. current[w] = 0
    BY <1>1 DEF TypeOK
  <2>4. \A v \in Workers : current'[v] <= Len(started')
    BY <1>1, <1>2, <1>4, <2>1, <2>2 DEF AccountedFor, TypeOK
  <2>5. finished' \subseteq 1..Len(started')
    BY <1>1, <1>2, <1>4 DEF AccountedFor
  <2>6. ASSUME NEW n \in 1..Len(started')
        PROVE  n \in finished' \/ \E v \in Workers : current'[v] = n
    <3>1. CASE n = Len(started')
      BY <2>1, <3>1
    <3>2. CASE n # Len(started')
      <4>1. n \in 1..Len(started) /\ n # 0
        BY <1>2, <1>4, <3>2
      <4> QED
        BY <1>1, <2>2, <2>3, <4>1 DEF AccountedFor
    <3> QED
      BY <3>1, <3>2
  <2> QED
    BY <2>4, <2>5, <2>6 DEF AccountedFor
<1>8. StopOK'
  BY <1>1 DEF TypeOK, StopOK, Waiting
<1> QED
  BY <1>5, <1>6, <1>7, <1>8 DEF IInv

\* A worker whose task has returned looks at the queue again.
LEMMA FinishTaskStep ==
    ASSUME IInv, NEW w \in Workers, FinishTask(w)
    PROVE  IInv'
<1>1. /\ TypeOK /\ EachTaskOnce /\ AccountedFor /\ StopOK
      /\ worker[w] = "running"
      /\ worker' = [worker EXCEPT ![w] = "check"]
      /\ current' = [current EXCEPT ![w] = 0]
      /\ finished' = finished \cup {current[w]}
      /\ UNCHANGED <<tasks, stop, accepted, notifying, owner, started>>
  BY DEF IInv, FinishTask, queue
<1>2. Len(started) \in Nat
  BY <1>1, QueueNumbers
<1>3. current[w] \in 1..MaxTasks /\ current[w] \in 1..Len(started)
  BY <1>1, <1>2, PoolAssumption DEF TypeOK, AccountedFor
<1>4. TypeOK'
  <2>1. worker' \in [Workers -> {"check", "waiting", "running", "exited"}]
    BY <1>1 DEF TypeOK
  <2>2. current' \in [Workers -> 0..MaxTasks]
    BY <1>1, PoolAssumption DEF TypeOK
  <2>3. \A v \in Workers : current'[v] # 0 <=> worker'[v] = "running"
    BY <1>1 DEF TypeOK
  <2>4. finished' \subseteq 1..MaxTasks
    BY <1>1, <1>3 DEF TypeOK
  <2> QED
    BY <1>1, <2>1, <2>2, <2>3, <2>4 DEF TypeOK
<1>5. EachTaskOnce'
  BY <1>1 DEF EachTaskOnce
<1>6. AccountedFor'
  <2>1. \A v \in Workers \ {w} : current'[v] = current[v]
    BY <1>1 DEF TypeOK
  <2>2. current'[w] = 0
    BY <1>1 DEF TypeOK
  <2>3. finished' \subseteq 1..Len(started')
    BY <1>1, <1>3 DEF AccountedFor
  <2>4. \A v \in Workers : current'[v] <= Len(started')
    BY <1>1, <1>2, <2>1, <2>2 DEF AccountedFor
  <2>5. \A n \in 1..Len(started') :
            n \in finished' \/ \E v \in Workers : current'[v] = n
    BY <1>1, <2>1 DEF AccountedFor
  <2> QED
    BY <2>3, <2>4, <2>5 DEF AccountedFor
<1>7. StopOK'
  BY <1>1 DEF TypeOK, StopOK, Waiting
<1> QED
  BY <1>4, <1>5, <1>6, <1>7 DEF IInv

\* The steps that change neither the queue nor the tasks in hand.
LEMMA WaitStep ==
    ASSUME IInv, NEW w \in Workers, Sleep(w) \/ WakeUp(w) \/ Exit(w)
    PROVE  IInv'
<1>1. /\ TypeOK /\ EachTaskOnce /\ AccountedFor /\ StopOK
      /\ UNCHANGED <<tasks, stop, accepted, current, notifying, owner,
                     started, finished>>
  BY DEF IInv, Sleep, WakeUp, Exit, queue, history
<1>2. \/ worker[w] = "check" /\ ~stop /\ worker' = [worker EXCEPT ![w] = "waiting"]
      \/ worker[w] = "waiting" /\ worker' = [worker EXCEPT ![w] = "check"]
      \/ /\ worker[w] = "check" /\ stop /\ tasks = <<>>
         /\ worker' = [worker EXCEPT ![w] = "exited"]
  BY DEF Sleep, WakeUp, Exit
<1>3. TypeOK'
  BY <1>1, <1>2 DEF TypeOK
<1>4. EachTaskOnce' /\ AccountedFor'
  BY <1>1 DEF EachTaskOnce, AccountedFor
<1>5. StopOK'
  BY <1>1, <1>2 DEF TypeOK, StopOK, Waiting
<1> QED
  BY <1>3, <1>4, <1>5 DEF IInv

LEMMA DestroyStep == ASSUME IInv, Destroy PROVE IInv'
<1>1. /\ TypeOK /\ EachTaskOnce /\ AccountedFor /\ StopOK
      /\ UNCHANGED <<tasks, accepted, current, notifying, started, finished>>
  BY DEF IInv, Destroy, SetStop, NotifyAll, Join, queue, threads, history
<1>2. EachTaskOnce' /\ AccountedFor'
  BY <1>1 DEF EachTaskOnce, AccountedFor
<1>3. TypeOK'
  BY <1>1 DEF TypeOK, Destroy, SetStop, NotifyAll, Join, queue, threads, Waiting
<1>4. ASSUME SetStop PROVE StopOK'
  BY <1>1, <1>4 DEF StopOK, SetStop, threads, Waiting
<1>5. ASSUME NotifyAll PROVE StopOK'
  <2>1. /\ stop' = stop /\ tasks' = tasks /\ owner = "stopping" /\ owner' = "joining"
        /\ \A w \in Workers :
              worker'[w] = IF worker[w] = "waiting" THEN "check" ELSE worker[w]
    BY <1>5 DEF NotifyAll, queue, Waiting
  <2> QED
    BY <1>1, <2>1 DEF StopOK, Waiting
<1>6. ASSUME Join PROVE StopOK'
  BY <1>1, <1>6 DEF StopOK, Join, queue, threads, Waiting
<1> QED
  BY <1>2, <1>3, <1>4, <1>5, <1>6 DEF IInv, Destroy

LEMMA StepInvariant == IInv /\ [Next]_vars => IInv'
<1> SUFFICES ASSUME IInv, [Next]_vars PROVE IInv'
  OBVIOUS
<1>1. CASE UNCHANGED vars
  BY <1>1 DEF vars, queue, threads, history, IInv, TypeOK, EachTaskOnce,
              AccountedFor, StopOK, Waiting
<1>2. CASE \E c \in Submitters \cup Workers : Enqueue(c) \/ NotifyOne(c)
  BY <1>2, EnqueueStep, NotifyOneStep
<1>3. CASE \E w \in Workers : Loop(w) \/ WakeUp(w)
  BY <1>3, TakeTaskStep, FinishTaskStep, WaitStep DEF Loop
<1>4. CASE Destroy
  BY <1>4, DestroyStep
<1> QED
  BY <1>1, <1>2, <1>3, <1>4 DEF Next

LEMMA IInvAlways == Spec => []IInv
  BY InitInvariant, StepInvariant, PTL DEF Spec

-----------------------------------------------------------------------------
\* Every variable keeps its type, and a worker holds a task exactly while it
\* runs one.
THEOREM TypeCorrect == Spec => []TypeOK
  BY IInvAlways, PTL DEF IInv

\* Whoever submits and whoever takes, each accepted task is in the queue or
\* was started, once and in the order of acceptance (front and pop).
THEOREM TasksStartOnceInOrder == Spec => []EachTaskOnce
  BY IInvAlways, PTL DEF IInv

\* No worker waits once notify_all() was called, so that join() is not in vain.
THEOREM StopIsNotMissed == Spec => []NobodyMissesStop
<1>1. IInv => NobodyMissesStop
  BY DEF IInv, StopOK, NobodyMissesStop
<1> QED
  BY <1>1, IInvAlways, PTL

\* When every worker has left, every task that was accepted has returned.
LEMMA AllReturned ==
    ASSUME IInv, \A w \in Workers : worker[w] = "exited"
    PROVE  finished = 1..accepted
<1>1. TypeOK /\ EachTaskOnce /\ AccountedFor /\ StopOK
  BY DEF IInv
<1>2. tasks = <<>>
  BY <1>1, PoolAssumption DEF StopOK
<1>3. Len(started) = accepted /\ accepted \in Nat
  BY <1>1, <1>2, QueueNumbers
<1>4. \A w \in Workers : current[w] = 0
  BY <1>1 DEF TypeOK
<1>5. ASSUME NEW n \in 1..Len(started) PROVE n \in finished
  <2>1. n # 0
    BY <1>3
  <2> QED
    BY <1>1, <1>4, <2>1 DEF AccountedFor
<1>6. finished \subseteq 1..Len(started)
  BY <1>1 DEF AccountedFor
<1> QED
  BY <1>3, <1>5, <1>6

\* The destructor returns only when every accepted task has run.
THEOREM PoolIsDrained == Spec => []DestructorDrains
<1>1. IInv => DestructorDrains
  <2> SUFFICES ASSUME IInv, owner = "gone" PROVE finished = 1..accepted
    BY DEF DestructorDrains
  <2>1. \A w \in Workers : worker[w] = "exited"
    BY DEF IInv, StopOK
  <2> QED
    BY <2>1, AllReturned
<1> QED
  BY <1>1, IInvAlways, PTL

-----------------------------------------------------------------------------
(***************************************************************************)
(* No lost wake-up: while somebody waits, there are as many notifications  *)
(* due and workers about to look at the queue as there are tasks in it.    *)
(***************************************************************************)
Checking == {w \in Workers : worker[w] = "check"}

\* What is counted is finite, although the application may have any number
\* of threads.
Countable == IsFiniteSet(notifying)

Conserving ==
    Waiting # {} => Len(tasks) <= Cardinality(notifying) + Cardinality(Checking)

LEMMA CheckingFinite == IsFiniteSet(Checking)
  BY PoolAssumption, FS_Subset DEF Checking

LEMMA CountableStep ==
    ASSUME IInv, Countable, [Next]_vars
    PROVE  Countable'
<1>1. \/ notifying' = notifying
      \/ \E c \in Submitters \cup Workers :
            notifying' = notifying \cup {c} \/ notifying' = notifying \ {c}
  BY DEF Next, Loop, Destroy, Enqueue, NotifyOne, TakeTask, Sleep, WakeUp,
         FinishTask, Exit, SetStop, NotifyAll, Join, vars
<1> QED
  BY <1>1, FS_AddElement, FS_RemoveElement DEF Countable

\* A worker that starts to look at the queue counts, one that stops does not.
LEMMA CheckingCount ==
    ASSUME TypeOK, NEW w \in Workers,
           NEW phase \in {"check", "waiting", "running", "exited"},
           worker' = [worker EXCEPT ![w] = phase]
    PROVE  /\ Cardinality(Checking) \in Nat /\ Cardinality(Checking') \in Nat
           /\ phase = "check" /\ worker[w] # "check"
                => Cardinality(Checking') = Cardinality(Checking) + 1
           /\ phase # "check" /\ worker[w] = "check"
                => Cardinality(Checking') = Cardinality(Checking) - 1
<1>1. \A v \in Workers : worker'[v] = IF v = w THEN phase ELSE worker[v]
  BY DEF TypeOK
<1>2. IsFiniteSet(Checking) /\ Cardinality(Checking) \in Nat
  BY CheckingFinite, FS_CardinalityType
<1>3. IsFiniteSet(Checking')
  BY PoolAssumption, FS_Subset DEF Checking
<1>4. Cardinality(Checking') \in Nat
  BY <1>3, FS_CardinalityType
<1>5. ASSUME phase = "check", worker[w] # "check"
      PROVE  Cardinality(Checking') = Cardinality(Checking) + 1
  <2>1. Checking' = Checking \cup {w} /\ w \notin Checking
    BY <1>1, <1>5 DEF Checking
  <2> QED
    BY <1>2, <2>1, FS_AddElement
<1>6. ASSUME phase # "check", worker[w] = "check"
      PROVE  Cardinality(Checking') = Cardinality(Checking) - 1
  <2>1. Checking' = Checking \ {w} /\ w \in Checking
    BY <1>1, <1>6 DEF Checking
  <2> QED
    BY <1>2, <2>1, FS_RemoveElement
<1> QED
  BY <1>2, <1>4, <1>5, <1>6

LEMMA ConservingStep ==
    ASSUME IInv, IInv', Countable, Conserving, [Next]_vars
    PROVE  Conserving'
<1> SUFFICES ASSUME Waiting' # {}
             PROVE  Len(tasks') <= Cardinality(notifying') + Cardinality(Checking')
  BY DEF Conserving
<1>1. /\ TypeOK /\ EachTaskOnce
      /\ Len(tasks) \in Nat /\ (tasks = <<>> <=> Len(tasks) = 0)
      /\ Len(tasks') \in Nat /\ (tasks' = <<>> <=> Len(tasks') = 0)
  <2>1. /\ TypeOK /\ EachTaskOnce /\ TypeOK' /\ EachTaskOnce'
    BY DEF IInv
  <2>2. Len(tasks) \in Nat /\ (tasks = <<>> <=> Len(tasks) = 0)
    BY <2>1, QueueNumbers
  <2>3. tasks' \in Seq(1..MaxTasks)
    BY <2>1 DEF TypeOK
  <2> QED
    BY <2>1, <2>2, <2>3, EmptySeq
<1>2. /\ IsFiniteSet(notifying) /\ Cardinality(notifying) \in Nat
      /\ IsFiniteSet(Checking) /\ Cardinality(Checking) \in Nat
  BY CheckingFinite, FS_CardinalityType DEF Countable
<1>3. /\ IsFiniteSet(notifying') /\ Cardinality(notifying') \in Nat
      /\ IsFiniteSet(Checking') /\ Cardinality(Checking') \in Nat
  <2>1. IsFiniteSet(notifying')
    BY CountableStep DEF Countable
  <2>2. IsFiniteSet(Checking')
    BY PoolAssumption, FS_Subset DEF Checking
  <2> QED
    BY <2>1, <2>2, FS_CardinalityType
<1>4. ASSUME UNCHANGED <<worker, tasks, notifying>>
      PROVE  Len(tasks') <= Cardinality(notifying') + Cardinality(Checking')
  BY <1>4 DEF Conserving, Waiting, Checking
<1>5. CASE UNCHANGED vars
  BY <1>4, <1>5 DEF vars, queue, threads
<1>6. ASSUME NEW c \in Submitters \cup Workers, Enqueue(c)
      PROVE  Len(tasks') <= Cardinality(notifying') + Cardinality(Checking')
  <2>1. /\ worker' = worker /\ c \notin notifying
        /\ notifying' = notifying \cup {c} /\ tasks' = Append(tasks, accepted + 1)
    BY <1>6 DEF Enqueue, MayCall, threads
  <2>2. Len(tasks') = Len(tasks) + 1
    <3>1. tasks \in Seq(1..MaxTasks)
      BY <1>1 DEF TypeOK
    <3> QED
      BY <2>1, <3>1
  <2>3. Cardinality(notifying') = Cardinality(notifying) + 1
    BY <1>2, <2>1, FS_AddElement
  <2>4. Checking' = Checking /\ Waiting # {}
    BY <2>1 DEF Checking, Waiting
  <2> QED
    BY <1>1, <1>2, <2>2, <2>3, <2>4 DEF Conserving
<1>7. ASSUME NEW c \in Submitters \cup Workers, NotifyOne(c)
      PROVE  Len(tasks') <= Cardinality(notifying') + Cardinality(Checking')
  <2>1. c \in notifying /\ notifying' = notifying \ {c} /\ tasks' = tasks
    BY <1>7 DEF NotifyOne, queue
  <2>2. Cardinality(notifying') = Cardinality(notifying) - 1
    BY <1>2, <2>1, FS_RemoveElement
  <2>3. Waiting # {}
    BY <1>7 DEF NotifyOne, Waiting
  <2>4. PICK w \in Waiting : worker' = [worker EXCEPT ![w] = "check"]
    BY <1>7, <2>3 DEF NotifyOne
  <2>5. Cardinality(Checking') = Cardinality(Checking) + 1
    BY <1>1, <2>4, CheckingCount DEF Waiting
  <2> QED
    BY <1>1, <1>2, <2>1, <2>2, <2>3, <2>5 DEF Conserving
<1>8. ASSUME NEW w \in Workers, TakeTask(w)
      PROVE  Len(tasks') <= Cardinality(notifying') + Cardinality(Checking')
  <2>1. /\ worker[w] = "check" /\ worker' = [worker EXCEPT ![w] = "running"]
        /\ tasks # <<>> /\ tasks' = Tail(tasks) /\ notifying' = notifying
    BY <1>8 DEF TakeTask
  <2>2. Len(tasks') = Len(tasks) - 1
    <3>1. tasks \in Seq(1..MaxTasks)
      BY <1>1 DEF TypeOK
    <3> QED
      BY <2>1, <3>1
  <2>3. Cardinality(Checking') = Cardinality(Checking) - 1
    BY <1>1, <2>1, CheckingCount
  <2>4. Waiting # {}
    BY <1>1, <2>1 DEF TypeOK, Waiting
  <2> QED
    BY <1>1, <1>2, <2>1, <2>2, <2>3, <2>4 DEF Conserving
<1>9. ASSUME NEW w \in Workers, Sleep(w) \/ Exit(w)
      PROVE  Len(tasks') <= Cardinality(notifying') + Cardinality(Checking')
  <2>1. tasks' = <<>>
    BY <1>9 DEF Sleep, Exit, queue
  <2> QED
    BY <1>1, <1>3, <2>1
<1>10. ASSUME NEW w \in Workers, FinishTask(w) \/ WakeUp(w)
       PROVE  Len(tasks') <= Cardinality(notifying') + Cardinality(Checking')
  <2>1. /\ worker[w] # "check" /\ worker' = [worker EXCEPT ![w] = "check"]
        /\ tasks' = tasks /\ notifying' = notifying
    BY <1>10 DEF FinishTask, WakeUp, queue
  <2>2. Cardinality(Checking') = Cardinality(Checking) + 1
    BY <1>1, <2>1, CheckingCount
  <2>3. Waiting # {}
    BY <1>1, <2>1 DEF TypeOK, Waiting
  <2> QED
    BY <1>1, <1>2, <2>1, <2>2, <2>3 DEF Conserving
<1>11. CASE SetStop \/ Join
  BY <1>4, <1>11 DEF SetStop, Join, queue, threads
<1>12. CASE NotifyAll
  <2>1. Waiting' = {}
    BY <1>12 DEF NotifyAll, Waiting
  <2> QED
    BY <2>1
<1> QED
  BY <1>5, <1>6, <1>7, <1>8, <1>9, <1>10, <1>11, <1>12 DEF Next, Loop, Destroy

\* No worker sleeps on a task nobody was woken for, although notify_one()
\* comes after the unlock and wait() may return by itself.
THEOREM NoLostWakeUp == Spec => []WorkConserving
<1>1. Init => Countable /\ Conserving
  BY FS_EmptySet DEF Init, Countable, Conserving, Waiting
<1>2. IInv /\ IInv' /\ Countable /\ Conserving /\ [Next]_vars
        => Countable' /\ Conserving'
  BY CountableStep, ConservingStep
<1>3. Conserving => WorkConserving
  BY DEF Conserving, WorkConserving, Checking
<1> QED
  BY <1>1, <1>2, <1>3, IInvAlways, PTL DEF Spec

-----------------------------------------------------------------------------
\* The pool implements the abstract task queue.
THEOREM PoolImplementsTaskQueue == Spec => ImplementsTaskQueue
<1>1. Init => Tasks!Init
  BY DEF Init, Tasks!Init
<1>2. IInv /\ IInv' /\ [Next]_vars => [Tasks!Next]_(Tasks!vars)
  <2> SUFFICES ASSUME IInv, IInv', [Next]_vars
               PROVE  [Tasks!Next]_(Tasks!vars)
    OBVIOUS
  <2>1. /\ TypeOK /\ EachTaskOnce /\ AccountedFor /\ StopOK
        /\ accepted \in Nat /\ Len(started) \in Nat /\ Len(tasks) \in Nat
        /\ Len(started) + Len(tasks) = accepted
        /\ tasks = <<>> <=> Len(tasks) = 0
    BY QueueNumbers DEF IInv
  <2>2. ASSUME UNCHANGED <<accepted, started, finished, owner>>
        PROVE  UNCHANGED Tasks!vars
    BY <2>2 DEF Tasks!vars
  <2>3. CASE UNCHANGED vars
    BY <2>2, <2>3 DEF vars, queue, history
  <2>4. ASSUME NEW c \in Submitters \cup Workers, Enqueue(c) PROVE Tasks!Accept
    BY <2>1, <2>4 DEF Enqueue, StopOK, history, Tasks!Accept
  <2>5. ASSUME NEW c \in Submitters \cup Workers, NotifyOne(c)
        PROVE  UNCHANGED Tasks!vars
    BY <2>2, <2>5 DEF NotifyOne, queue, history
  <2>6. ASSUME NEW w \in Workers, TakeTask(w) PROVE Tasks!Begin
    <3>1. Head(tasks) \in 1..MaxTasks /\ started \in Seq(1..MaxTasks)
      BY <2>1, <2>6, QueueNumbers DEF TakeTask, TypeOK
    <3>2. Len(started') = Len(started) + 1
      BY <2>6, <3>1, AppendElements DEF TakeTask
    <3>3. Len(started) < accepted
      BY <2>1, <2>6 DEF TakeTask
    <3> QED
      BY <2>6, <3>2, <3>3 DEF TakeTask, Tasks!Begin
  <2>7. ASSUME NEW w \in Workers, FinishTask(w)
        PROVE  Tasks!Finish \/ UNCHANGED Tasks!vars
    <3>1. current[w] \in 1..Len(started)
      BY <2>1, <2>7, PoolAssumption DEF TypeOK, AccountedFor, FinishTask
    <3>2. /\ finished' = finished \cup {current[w]}
          /\ UNCHANGED <<accepted, started, owner>>
      BY <2>7 DEF FinishTask, queue
    <3>3. CASE current[w] \in finished
      BY <2>2, <3>2, <3>3
    <3>4. CASE current[w] \notin finished
      BY <3>1, <3>2, <3>4 DEF Tasks!Finish
    <3> QED
      BY <3>3, <3>4
  <2>8. ASSUME NEW w \in Workers, Sleep(w) \/ WakeUp(w) \/ Exit(w)
        PROVE  UNCHANGED Tasks!vars
    BY <2>2, <2>8 DEF Sleep, WakeUp, Exit, queue, history
  <2>9. CASE SetStop \/ NotifyAll
    BY <2>9 DEF SetStop, NotifyAll, queue, history, Tasks!vars
  <2>10. CASE Join
    <3>1. finished = 1..accepted
      BY <2>10, AllReturned DEF Join
    <3> QED
      BY <2>10, <3>1 DEF Join, queue, history, Tasks!Next, Tasks!End
  <2> QED
    BY <2>3, <2>4, <2>5, <2>6, <2>7, <2>8, <2>9, <2>10
    DEF Next, Loop, Destroy, Tasks!Next
<1> QED
  BY <1>1, <1>2, IInvAlways, PTL DEF Spec, ImplementsTaskQueue, Tasks!Spec
-----------------------------------------------------------------------------
(***************************************************************************)
(* Who has a task, and who still uses the pool                             *)
(***************************************************************************)
\* A task is in the hands of one worker at most, and of none once it returned.
OneHand ==
    /\ \A v, w \in Workers : current[v] # 0 /\ current[v] = current[w] => v = w
    /\ \A w \in Workers : current[w] \notin finished

LEMMA OneHandStep == ASSUME IInv, OneHand, [Next]_vars PROVE OneHand'
<1>0. /\ TypeOK /\ EachTaskOnce /\ AccountedFor
      /\ current \in [Workers -> 0..MaxTasks] /\ finished \subseteq 1..MaxTasks
      /\ Len(started) \in Nat /\ MaxTasks \in Nat
  BY QueueNumbers, PoolAssumption DEF IInv, TypeOK
<1>1. ASSUME NEW w \in Workers, TakeTask(w) PROVE OneHand'
  <2>1. /\ current' = [current EXCEPT ![w] = Head(tasks)]
        /\ finished' = finished /\ Head(tasks) = Len(started) + 1
    BY <1>0, <1>1, QueueNumbers DEF TakeTask
  <2>2. \A v \in Workers : current[v] # Head(tasks)
    BY <1>0, <2>1 DEF AccountedFor
  <2>3. Head(tasks) \notin finished
    BY <1>0, <2>1 DEF AccountedFor
  <2> QED
    BY <1>0, <2>1, <2>2, <2>3 DEF OneHand
<1>2. ASSUME NEW w \in Workers, FinishTask(w) PROVE OneHand'
  <2>1. /\ current' = [current EXCEPT ![w] = 0] /\ current[w] # 0
        /\ finished' = finished \cup {current[w]}
    BY <1>0, <1>2 DEF FinishTask, TypeOK
  <2>2. \A v \in Workers : v # w => current'[v] = current[v]
    BY <1>0, <2>1
  <2>3. current'[w] = 0 /\ 0 \notin finished'
    BY <1>0, <2>1
  <2>4. \A v \in Workers : v # w => current[v] # current[w]
    BY <2>1 DEF OneHand
  <2> QED
    BY <2>1, <2>2, <2>3, <2>4 DEF OneHand
<1>3. CASE UNCHANGED <<current, finished>>
  BY <1>3 DEF OneHand
<1>4. CASE \/ UNCHANGED vars \/ Destroy
           \/ \E c \in Submitters \cup Workers : Enqueue(c) \/ NotifyOne(c)
           \/ \E w \in Workers : Sleep(w) \/ Exit(w) \/ WakeUp(w)
  BY <1>3, <1>4 DEF vars, threads, history, Destroy, SetStop, NotifyAll, Join,
     Enqueue, NotifyOne, Sleep, Exit, WakeUp
<1> QED
  BY <1>1, <1>2, <1>4 DEF Next, Loop

\* No task is run by two workers or, having returned, again, for any number of
\* workers: what the pop under the lock is for.
THEOREM TasksAreInOneHand == Spec => []OneHand
<1>1. Init => OneHand
  BY DEF Init, OneHand
<1> QED
  BY <1>1, OneHandStep, IInvAlways, PTL DEF Spec

\* A notification comes from a task that is still running or, until the
\* destructor is called, from outside.
NotifiersInside ==
    /\ \A w \in Workers : w \in notifying => worker[w] = "running"
    /\ owner # "alive" => notifying \cap Submitters = {}

LEMMA NotifiersStep ==
    ASSUME IInv, NotifiersInside, [Next]_vars PROVE NotifiersInside'
<1>0. /\ TypeOK /\ Workers \cap Submitters = {}
      /\ worker \in [Workers -> {"check", "waiting", "running", "exited"}]
  BY PoolAssumption DEF IInv, TypeOK
<1>1. ASSUME NEW c \in Submitters \cup Workers, Enqueue(c) PROVE NotifiersInside'
  <2>1. /\ notifying' = notifying \cup {c} /\ UNCHANGED <<worker, owner>>
        /\ c \in Submitters => owner = "alive"
        /\ c \in Workers => worker[c] = "running"
    BY <1>1 DEF Enqueue, MayCall, threads
  <2> QED
    BY <1>0, <2>1 DEF NotifiersInside
<1>2. ASSUME NEW c \in Submitters \cup Workers, NotifyOne(c)
      PROVE  NotifiersInside'
  <2>1. notifying' = notifying \ {c} /\ owner' = owner
    BY <1>2 DEF NotifyOne
  <2>2. \/ worker' = worker
        \/ \E w \in Workers : /\ worker[w] = "waiting"
                             /\ worker' = [worker EXCEPT ![w] = "check"]
    BY <1>2 DEF NotifyOne, Waiting
  <2>3. \A w \in Workers : worker[w] = "running" => worker'[w] = "running"
    BY <1>0, <2>2
  <2> QED
    BY <2>1, <2>3 DEF NotifiersInside
<1>3. ASSUME NEW w \in Workers, Loop(w) \/ WakeUp(w)
      PROVE  NotifiersInside'
  <2>1. UNCHANGED <<notifying, owner>>
    BY <1>3 DEF Loop, TakeTask, Sleep, FinishTask, Exit, WakeUp
  <2>2. \A v \in Workers :
            v \in notifying /\ worker[v] = "running" => worker'[v] = "running"
    BY <1>0, <1>3 DEF Loop, TakeTask, Sleep, FinishTask, Exit, WakeUp
  <2> QED
    BY <2>1, <2>2 DEF NotifiersInside
<1>4. CASE SetStop
  BY <1>4 DEF SetStop, threads, NotifiersInside
<1>5. CASE NotifyAll
  <2>1. /\ notifying' = notifying /\ owner # "alive"
        /\ \A w \in Workers : worker[w] = "running" => worker'[w] = "running"
    BY <1>5 DEF NotifyAll, Waiting
  <2> QED
    BY <2>1 DEF NotifiersInside
<1>6. CASE Join \/ UNCHANGED vars
  BY <1>6 DEF Join, vars, threads, NotifiersInside
<1> QED
  BY <1>1, <1>2, <1>3, <1>4, <1>5, <1>6 DEF Next, Destroy

LEMMA NotifiersInsideAlways == Spec => []NotifiersInside
<1>1. Init => NotifiersInside
  BY DEF Init, NotifiersInside
<1> QED
  BY <1>1, NotifiersStep, IInvAlways, PTL DEF Spec

\* When the destructor has returned, nobody is between the unlock and the
\* notification any more: no thread touches the mutex, the condition or the
\* queue of a pool that is gone, tasks that submitted tasks included.
THEOREM NobodyUsesGonePool == Spec => [][owner # "gone"]_vars
<1>1. ASSUME IInv, NotifiersInside, [Next]_vars, owner = "gone"
      PROVE  UNCHANGED vars
  <2>1. /\ \A w \in Workers : worker[w] = "exited"
        /\ notifying \subseteq Submitters \cup Workers
        /\ stop
    BY <1>1 DEF IInv, StopOK, TypeOK
  <2>2. notifying = {}
    BY <1>1, <2>1 DEF NotifiersInside
  <2> QED
    BY <1>1, <2>1, <2>2
    DEF Next, Loop, Destroy, Enqueue, NotifyOne, TakeTask, Sleep, FinishTask,
        Exit, WakeUp, SetStop, NotifyAll, Join
<1>2. IInv /\ NotifiersInside /\ [Next]_vars => [owner # "gone"]_vars
  BY <1>1
<1> QED
  BY <1>2, IInvAlways, NotifiersInsideAlways, PTL DEF Spec
=============================================================================
