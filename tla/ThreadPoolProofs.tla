-------------------------- MODULE ThreadPoolProofs --------------------------
(***************************************************************************)
(* Proofs about ThreadPool, for any number of workers and tasks: the wait  *)
(* group counts exactly the work that is left, no notification is lost,    *)
(* and neither wait_idle() nor stop() returns over an accepted task.       *)
(***************************************************************************)
EXTENDS ThreadPool, FiniteSetTheorems, TLAPS

\* The part of the invariant that is inductive by itself.
Core == TypeOK /\ CountExact /\ Taken /\ Leaving /\ NoLostWakeup

-----------------------------------------------------------------------------
\* The queue and the count.

\* A task that is pushed is queued once, behind the others.
LEMMA PushedQueue ==
    ASSUME NEW s \in Seq(Tasks), IsInjective(s), NEW t \in Tasks, t \notin ToSet(s)
    PROVE  /\ Append(s, t) \in Seq(Tasks) /\ IsInjective(Append(s, t))
           /\ ToSet(Append(s, t)) = ToSet(s) \cup {t}
           /\ Append(s, t) # <<>>
<1>1. /\ Append(s, t) \in Seq(Tasks) /\ Len(Append(s, t)) = Len(s) + 1
      /\ DOMAIN Append(s, t) = 1 .. Len(s) + 1 /\ DOMAIN s = 1 .. Len(s)
      /\ Append(s, t)[Len(s) + 1] = t /\ Len(s) \in Nat
      /\ \A i \in 1 .. Len(s) : Append(s, t)[i] = s[i]
  OBVIOUS
<1>2. IsInjective(Append(s, t))
  BY <1>1 DEF IsInjective, ToSet
<1>3. ToSet(Append(s, t)) = ToSet(s) \cup {t}
  BY <1>1 DEF ToSet
<1> QED
  BY <1>1, <1>2, <1>3

\* The task that is popped was queued and is not any more.
LEMMA PoppedQueue ==
    ASSUME NEW s \in Seq(Tasks), IsInjective(s), s # <<>>
    PROVE  /\ Tail(s) \in Seq(Tasks) /\ IsInjective(Tail(s))
           /\ Head(s) \in ToSet(s) /\ ToSet(Tail(s)) = ToSet(s) \ {Head(s)}
<1>1. /\ Tail(s) \in Seq(Tasks) /\ Len(Tail(s)) = Len(s) - 1 /\ Len(s) \in Nat \ {0}
      /\ DOMAIN Tail(s) = 1 .. Len(s) - 1 /\ DOMAIN s = 1 .. Len(s)
      /\ Head(s) = s[1] /\ \A i \in 1 .. Len(s) - 1 : Tail(s)[i] = s[i + 1]
  OBVIOUS
<1>2. IsInjective(Tail(s))
  BY <1>1 DEF IsInjective
<1>3. ASSUME NEW x PROVE x \in ToSet(Tail(s)) <=> x \in ToSet(s) /\ x # Head(s)
  <2>1. x \in ToSet(Tail(s)) => x \in ToSet(s) /\ x # Head(s)
    BY <1>1 DEF ToSet, IsInjective
  <2>2. ASSUME x \in ToSet(s), x # Head(s) PROVE x \in ToSet(Tail(s))
    <3>1. PICK i \in 1 .. Len(s) : x = s[i]
      BY <1>1, <2>2 DEF ToSet
    <3>2. i - 1 \in 1 .. Len(s) - 1 /\ Tail(s)[i - 1] = x
      BY <1>1, <2>2, <3>1
    <3> QED
      BY <1>1, <3>2 DEF ToSet
  <2> QED
    BY <2>1, <2>2
<1>4. Head(s) \in ToSet(s)
  BY <1>1 DEF ToSet
<1> QED
  BY <1>1, <1>2, <1>3, <1>4

\* There are finitely many tasks and workers to count.
LEMMA Counts ==
    /\ IsFiniteSet(Unfinished) /\ Cardinality(Unfinished) \in Nat
    /\ IsFiniteSet(Finishing) /\ Cardinality(Finishing) \in Nat
<1>1. Unfinished \in SUBSET Tasks /\ Finishing \in SUBSET Workers
  BY DEF Unfinished, Finishing
<1> QED
  BY <1>1, FS_Subset, FS_CardinalityType, PoolAssumption

-----------------------------------------------------------------------------

\* A pool starts idle, with every worker on its way to the queue.
LEMMA InitCore == Init => Core
<1> SUFFICES ASSUME Init PROVE Core
  OBVIOUS
<1>1. TypeOK
  <2>1. q \in Seq(Tasks) /\ IsInjective(q) /\ ToSet(q) = {}
    BY DEF Init, IsInjective, ToSet
  <2>2. {t \in Tasks : task[t] = "queued"} = {}
    BY DEF Init
  <2> QED
    BY <2>1, <2>2 DEF Init, TypeOK
<1>2. CountExact
  <2>1. Unfinished = {} /\ Finishing = {}
    BY DEF Init, Unfinished, Finishing
  <2> QED
    BY <2>1, FS_EmptySet DEF Init, CountExact
<1>3. Taken /\ Leaving /\ NoLostWakeup
  BY DEF Init, Taken, Leaving, NoLostWakeup
<1> QED
  BY <1>1, <1>2, <1>3 DEF Core

\* schedule() counts its task first.
LEMMA AddCore == ASSUME Core, NEW t \in Tasks, Add(t) PROVE Core'
<1> USE DEF Core, Add
<1>1. TypeOK'
  BY DEF TypeOK
<1>2. CountExact'
  <2>1. Unfinished' = Unfinished \cup {t} /\ t \notin Unfinished /\ Finishing' = Finishing
    BY DEF TypeOK, Unfinished, Finishing
  <2>2. Cardinality(Unfinished') = Cardinality(Unfinished) + 1
    BY <2>1, Counts, FS_AddElement
  <2> QED
    BY <2>1, <2>2, Counts DEF CountExact
<1>3. Taken' /\ Leaving' /\ NoLostWakeup'
  BY DEF TypeOK, Taken, Leaving, NoLostWakeup
<1> QED
  BY <1>1, <1>2, <1>3

\* The first task of a batch leaves an awake worker behind.
LEMMA PushCore == ASSUME Core, NEW t \in Tasks, Push(t) PROVE Core'
<1> USE DEF Core, Push
<1>1. /\ q' \in Seq(Tasks) /\ IsInjective(q') /\ ToSet(q') = ToSet(q) \cup {t}
      /\ q' # <<>>
  BY PushedQueue DEF TypeOK
<1>2. asleep' \subseteq asleep
  BY DEF NotifyOne
<1>3. TypeOK'
  BY <1>1, <1>2 DEF TypeOK
<1>4. CountExact'
  <2>1. Unfinished' = Unfinished /\ Finishing' = Finishing
    BY DEF TypeOK, Unfinished, Finishing
  <2> QED
    BY <2>1 DEF CountExact
<1>5. Taken'
  BY DEF TypeOK, Taken
<1>6. Leaving'
  BY DEF Leaving
<1>7. NoLostWakeup'
  <2>1. q = <<>> => asleep' # Workers
    BY PoolAssumption DEF NotifyOne, TypeOK
  <2> QED
    BY <2>1 DEF NoLostWakeup
<1> QED
  BY <1>3, <1>4, <1>5, <1>6, <1>7

\* A task that comes too late is refused, and stays counted.
LEMMA PushRefusedCore == ASSUME Core, NEW t \in Tasks, PushRefused(t) PROVE Core'
<1> USE DEF Core, PushRefused
<1>1. TypeOK'
  BY DEF TypeOK
<1>2. CountExact'
  <2>1. Unfinished' = Unfinished /\ Finishing' = Finishing
    BY DEF TypeOK, Unfinished, Finishing
  <2> QED
    BY <2>1 DEF CountExact
<1>3. Taken' /\ Leaving' /\ NoLostWakeup'
  BY DEF TypeOK, Taken, Leaving, NoLostWakeup
<1> QED
  BY <1>1, <1>2, <1>3

\* A worker takes the oldest task.
LEMMA PopCore == ASSUME Core, NEW w \in Workers, Pop(w) PROVE Core'
<1> USE DEF Core, Pop, Awake
<1>1. /\ q' \in Seq(Tasks) /\ IsInjective(q')
      /\ Head(q) \in Tasks /\ task[Head(q)] = "queued" /\ ToSet(q') = ToSet(q) \ {Head(q)}
  BY PoppedQueue DEF TypeOK
<1>2. /\ task' = [task EXCEPT ![Head(q)] = "taken"]
      /\ current' = [current EXCEPT ![w] = Head(q)]
      /\ worker' = [worker EXCEPT ![w] = "execute"]
      /\ UNCHANGED <<closed, asleep, work, stopper, waiter, seen>>
  OBVIOUS
<1>3. TypeOK'
  BY <1>1, <1>2 DEF TypeOK
<1>4. CountExact'
  <2>1. Unfinished' = Unfinished /\ Finishing' = Finishing
    BY <1>1, <1>2 DEF TypeOK, Unfinished, Finishing
  <2> QED
    BY <2>1 DEF CountExact
<1>5. Taken'
  BY <1>1, <1>2 DEF TypeOK, Taken
<1>6. Leaving'
  BY DEF TypeOK, Leaving
<1>7. NoLostWakeup'
  BY DEF TypeOK, NoLostWakeup
<1> QED
  BY <1>3, <1>4, <1>5, <1>6, <1>7

\* A worker falls asleep only over an empty queue, and leaves only a closed one.
LEMMA IdleWorkerCore ==
    ASSUME Core, NEW w \in Workers, WaitForTask(w) \/ Exit(w) \/ WakeSpuriously(w)
    PROVE  Core'
<1> USE DEF Core, WaitForTask, Exit, WakeSpuriously, Awake
<1>1. TypeOK'
  BY DEF TypeOK
<1>2. CountExact'
  <2>1. Unfinished' = Unfinished /\ Finishing' = Finishing
    BY DEF TypeOK, Unfinished, Finishing
  <2> QED
    BY <2>1 DEF CountExact
<1>3. Taken'
  BY DEF TypeOK, Taken
<1>4. Leaving'
  BY DEF TypeOK, Leaving
<1>5. NoLostWakeup'
  BY DEF TypeOK, NoLostWakeup
<1> QED
  BY <1>1, <1>2, <1>3, <1>4, <1>5

\* A task that ends is still counted, by the worker that has yet to say so.
LEMMA ExecuteCore == ASSUME Core, NEW w \in Workers, Execute(w) PROVE Core'
<1> USE DEF Core, Execute
<1> DEFINE t == current[w]
<1>1. t \in Tasks /\ task[t] = "taken" /\ worker[w] = "execute"
  BY DEF Taken
<1>2. task' = [task EXCEPT ![t] = "done"]
  OBVIOUS
<1>3. \A u \in Workers : u # w /\ worker[u] = "execute" => current[u] # t
  BY DEF Taken
<1> HIDE DEF t
<1>4. TypeOK'
  BY <1>1, <1>2 DEF TypeOK
<1>5. CountExact'
  <2>1. /\ Unfinished' = Unfinished \ {t} /\ t \in Unfinished
        /\ Finishing' = Finishing \cup {w} /\ w \notin Finishing
    BY <1>1, <1>2 DEF TypeOK, Unfinished, Finishing
  <2>2. /\ Cardinality(Unfinished') = Cardinality(Unfinished) - 1
        /\ Cardinality(Finishing') = Cardinality(Finishing) + 1
    BY <2>1, Counts, FS_RemoveElement, FS_AddElement
  <2> QED
    BY <2>2, Counts DEF CountExact
<1>6. Taken'
  BY <1>1, <1>2, <1>3 DEF TypeOK, Taken, t
<1>7. Leaving' /\ NoLostWakeup'
  BY DEF TypeOK, Leaving, NoLostWakeup
<1> QED
  BY <1>4, <1>5, <1>6, <1>7

\* Who takes the count to zero is about to notify.
LEMMA DoneCore == ASSUME Core, NEW w \in Workers, Done(w) PROVE Core'
<1> USE DEF Core, Done
<1>1. /\ Unfinished' = Unfinished
      /\ Finishing' = Finishing \ {w} /\ w \in Finishing
  BY DEF TypeOK, Unfinished, Finishing
<1>2. Cardinality(Finishing') = Cardinality(Finishing) - 1 /\ Cardinality(Finishing) # 0
  BY <1>1, Counts, FS_RemoveElement, FS_EmptySet
<1>3. work' \in Nat /\ CountExact'
  BY <1>1, <1>2, Counts DEF CountExact
<1>4. TypeOK'
  BY <1>3 DEF TypeOK
<1>5. Taken'
  BY DEF TypeOK, Taken
<1>6. Leaving'
  BY DEF TypeOK, Leaving
<1>7. NoLostWakeup'
  <2>1. work' = 0 => worker'[w] = "notify"
    BY DEF TypeOK
  <2> QED
    BY <2>1 DEF TypeOK, NoLostWakeup
<1> QED
  BY <1>3, <1>4, <1>5, <1>6, <1>7

\* The notification of the wait group.
LEMMA NotifyAllCore == ASSUME Core, NEW w \in Workers, NotifyAll(w) PROVE Core'
<1> USE DEF Core, NotifyAll
<1>1. TypeOK'
  BY DEF TypeOK
<1>2. CountExact'
  <2>1. Unfinished' = Unfinished /\ Finishing' = Finishing
    BY DEF TypeOK, Unfinished, Finishing
  <2> QED
    BY <2>1 DEF CountExact
<1>3. Taken'
  BY DEF TypeOK, Taken
<1>4. Leaving' /\ NoLostWakeup'
  BY DEF TypeOK, Leaving, NoLostWakeup
<1> QED
  BY <1>1, <1>2, <1>3, <1>4

\* stop() and wait_idle() neither queue nor execute anything.
LEMMA ControlCore == ASSUME Core, Stop \/ Join \/ WaitIdle PROVE Core'
<1> USE DEF Core, Stop, Join, WaitIdle, LoadWork, WaitWork
<1>1. TypeOK'
  BY DEF TypeOK
<1>2. CountExact'
  BY DEF CountExact, Unfinished, Finishing
<1>3. Taken'
  BY DEF Taken
<1>4. Leaving'
  BY DEF TypeOK, Leaving
<1>5. NoLostWakeup'
  BY PoolAssumption DEF TypeOK, NoLostWakeup
<1> QED
  BY <1>1, <1>2, <1>3, <1>4, <1>5

\* Every step of the threads preserves the core.
LEMMA NextCore == Core /\ [Next]_vars => Core'
<1> SUFFICES ASSUME Core, [Next]_vars PROVE Core'
  OBVIOUS
<1>1. ASSUME NEW t \in Tasks, Schedule(t) PROVE Core'
  BY <1>1, AddCore, PushCore, PushRefusedCore DEF Schedule
<1>2. ASSUME NEW w \in Workers, WorkerJob(w) \/ WakeSpuriously(w) PROVE Core'
  BY <1>2, PopCore, IdleWorkerCore, ExecuteCore, DoneCore, NotifyAllCore DEF WorkerJob
<1>3. CASE UNCHANGED vars
  BY <1>3 DEF vars, Core, TypeOK, CountExact, Unfinished, Finishing, Taken, Leaving,
             NoLostWakeup
<1> QED
  BY <1>1, <1>2, <1>3, ControlCore DEF Next

-----------------------------------------------------------------------------

\* A count of zero leaves no task behind, and neither does a pool whose workers
\* have all left.
LEMMA CoreInv == Core => Inv
<1> SUFFICES ASSUME Core PROVE IdleMeansDone /\ StopDrains
  BY DEF Core, Inv
<1>1. IdleMeansDone
  <2>1. work = 0 => Unfinished = {}
    BY Counts, FS_EmptySet DEF Core, CountExact
  <2> QED
    BY <2>1 DEF IdleMeansDone, Unfinished
<1>2. StopDrains
  <2> SUFFICES ASSUME stopper = "stopped", NEW t \in Tasks
               PROVE  task[t] \in {"new", "added", "refused", "done"}
    BY DEF StopDrains
  <2>1. q = <<>> /\ \A w \in Workers : worker[w] = "exit"
    BY PoolAssumption DEF Core, Leaving
  <2>2. task[t] # "queued"
    BY <2>1 DEF Core, TypeOK, ToSet
  <2>3. task[t] # "taken"
    BY <2>1 DEF Core, Taken
  <2> QED
    BY <2>2, <2>3 DEF Core, TypeOK
<1> QED
  BY <1>1, <1>2

\* The count of the wait group is exact, nobody sleeps through what it waits for,
\* wait_idle() sees zero only when no task is left, and stop() returns with every
\* accepted task executed (monolithic.hpp:41-60), whatever the number of workers.
THEOREM PoolInvariance == Spec => []Inv
<1>1. Init => Core
  BY InitCore
<1>2. Core /\ [Next]_vars => Core'
  BY NextCore
<1> QED
  BY <1>1, <1>2, CoreInv, PTL DEF Spec

=============================================================================
