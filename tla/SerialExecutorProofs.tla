------------------------ MODULE SerialExecutorProofs ------------------------
(***************************************************************************)
(* Proofs about SerialExecutor for every set of threads and tasks and      *)
(* every width of work_: the token invariant, the assertions of the code   *)
(* and that nothing is lost.  The inductive invariant is IInv.             *)
(***************************************************************************)
EXTENDS SerialExecutor, FiniteSetTheorems, TLAPS

\* The thread that walks a batch is the only one that does.
LEMMA RunnerIs ==
    ASSUME OneToken, NEW th \in Threads, Active(th)
    PROVE  Runner = th
<1>1. \A u \in Threads : Active(u) => Holds(u)
  BY DEF Active, Holds
<1>2. Runner \in Threads /\ Active(Runner)
  BY DEF Runner
<1> QED
  BY <1>1, <1>2 DEF OneToken

\* What InBatch is, without the choice in Runner.
LEMMA InBatchIs ==
    ASSUME OneToken
    PROVE  /\ \A th \in Threads : Active(th) => InBatch = size[th] + Len(list[th])
           /\ (\A th \in Threads : ~Active(th)) => InBatch = 0
<1>1. ASSUME NEW th \in Threads, Active(th)
      PROVE  InBatch = size[th] + Len(list[th])
  BY <1>1, RunnerIs DEF InBatch
<1>2. ASSUME \A th \in Threads : ~Active(th)
      PROVE  InBatch = 0
  BY <1>2 DEF InBatch
<1> QED
  BY <1>1, <1>2

\* The set of threads between the push and the addition is small.
LEMMA AddingFinite ==
    /\ IsFiniteSet(Adding)
    /\ Cardinality(Adding) \in Nat
    /\ Cardinality(Adding) < Modulus
<1>1. Adding \in SUBSET Threads
  BY DEF Adding
<1>2. IsFiniteSet(Adding) /\ Cardinality(Adding) <= Cardinality(Threads)
  BY <1>1, FS_Subset, SerialAssumption
<1>3. Cardinality(Adding) \in Nat /\ Cardinality(Threads) \in Nat
  BY <1>2, FS_CardinalityType, SerialAssumption
<1> QED
  BY <1>2, <1>3, SerialAssumption

\* The two facts above in the next state.
InBatchFact ==
    OneToken =>
        /\ \A th \in Threads : Active(th) => InBatch = size[th] + Len(list[th])
        /\ (\A th \in Threads : ~Active(th)) => InBatch = 0

\* It holds in every state and in the next one.
LEMMA InBatchNext == InBatchFact /\ InBatchFact'
<1>1. InBatchFact
  BY InBatchIs DEF InBatchFact
<1>2. QED
  BY <1>1, PTL

\* The same for the set of adding threads.
AddingFact ==
    /\ IsFiniteSet(Adding)
    /\ Cardinality(Adding) \in Nat
    /\ Cardinality(Adding) < Modulus

\* So does the one about Adding.
LEMMA AddingNext == AddingFact /\ AddingFact'
<1>1. AddingFact
  BY AddingFinite DEF AddingFact
<1>2. QED
  BY <1>1, PTL

\* A serial executor begins with nothing pushed and nothing counted.
LEMMA InitIInv == Init => IInv
<1> SUFFICES ASSUME Init PROVE IInv
  OBVIOUS
<1>1. TypeOK
  BY SerialAssumption DEF Init, TypeOK
<1>2. OneToken /\ NoNesting /\ IdleThread
  BY DEF Init, OneToken, NoNesting, IdleThread, Holds, Active
<1>3. Adding = {} /\ Len(batch) = 0
  BY DEF Init, Adding
<1>4. InBatch = 0
  BY <1>2, InBatchIs DEF Init, Active
<1>5. Balance = 0
  BY <1>3, <1>4, FS_EmptySet DEF Balance
<1>6. CounterExact
  BY <1>5 DEF CounterExact, Init, Holds
<1> QED
  BY <1>1, <1>2, <1>3, <1>4, <1>6, SerialAssumption DEF IInv

\* The counters of IInv are numbers.
LEMMA Numbers ==
    ASSUME IInv
    PROVE  /\ Len(batch) \in Nat
           /\ InBatch \in Nat
           /\ Cardinality(Adding) \in Nat
           /\ Balance \in Int
           /\ Balance < Modulus
           /\ Balance + Modulus > 0
<1>1. Len(batch) \in Nat
  BY DEF IInv, TypeOK
<1>2. InBatch \in Nat
  <2>1. CASE \E th \in Threads : Active(th)
    BY <2>1, InBatchIs DEF IInv, TypeOK
  <2>2. CASE \A th \in Threads : ~Active(th)
    BY <2>2, InBatchIs DEF IInv
  <2> QED
    BY <2>1, <2>2
<1> QED
  BY <1>1, <1>2, AddingFinite, SerialAssumption DEF IInv, Balance

\* schedule() pushes: one more in the batch, one more thread that has to add.
LEMMA PushIInv ==
    ASSUME IInv, NEW th \in Threads, NEW t \in Tasks, Push(th, t)
    PROVE  IInv'
<1> USE DEF IInv
<1>1. TypeOK'
  BY DEF Push, TypeOK
<1>2. OneToken' /\ NoNesting' /\ IdleThread'
  BY DEF Push, TypeOK, OneToken, NoNesting, IdleThread, Holds, Active
<1>3. Len(batch') = Len(batch) + 1
  BY DEF Push, TypeOK
<1>4. InBatch' = InBatch
  BY DEF Push, InBatch, Active, Runner
<1>5. Cardinality(Adding') = Cardinality(Adding) + 1
  <2>1. Adding' = Adding \cup {th} /\ th \notin Adding
    BY DEF Push, TypeOK, Adding
  <2> QED
    BY <2>1, AddingFinite, FS_AddElement
<1>6. Balance' = Balance
  BY <1>3, <1>4, <1>5, Numbers DEF Balance
<1>7. CounterExact'
  BY <1>6 DEF Push, TypeOK, CounterExact, Holds
<1>8. Len(batch) + InBatch < MaxOutstanding
  <2>1. CASE \E u \in Threads : Active(u)
    <3>1. PICK u \in Threads : Active(u)
      BY <2>1
    <3>2. InBatch = size[u] + Len(list[u])
      BY <3>1, InBatchIs
    <3>3. Len(batch) + Len(list[u]) + size[u] < MaxOutstanding
      BY DEF Push
    <3> QED
      BY <3>2, <3>3 DEF TypeOK
  <2>2. CASE \A u \in Threads : ~Active(u)
    <3>1. InBatch = 0 /\ size[th] = 0 /\ list[th] = <<>>
      BY <2>2, InBatchIs DEF IdleThread
    <3> QED
      BY <3>1, Numbers DEF Push
  <2> QED
    BY <2>1, <2>2
<1> QED
  BY <1>1, <1>2, <1>3, <1>4, <1>7, <1>8, Numbers, SerialAssumption

\* schedule() counts: work_ moves with the balance, and who moved it from zero
\* gets the token.
LEMMA AddIInv ==
    ASSUME IInv, NEW th \in Threads, Add(th)
    PROVE  IInv'
<1> USE DEF IInv
<1>1. TypeOK'
  BY SerialAssumption DEF Add, TypeOK, FetchAdd
<1>2. InBatch' = InBatch
  BY DEF Add, InBatch, Active, Runner
<1>3. Cardinality(Adding') = Cardinality(Adding) - 1
  <2>1. Adding' = Adding \ {th} /\ th \in Adding
    BY DEF Add, TypeOK, Adding
  <2> QED
    BY <2>1, AddingFinite, FS_RemoveElement
<1>4. Balance' = Balance + 1 /\ batch' = batch
  BY <1>2, <1>3, Numbers DEF Balance, Add
<1>5. work = 0 <=> Balance = 0
  BY Numbers DEF CounterExact
<1>6. work = 0 => inner = 0 /\ \A u \in Threads : ~Holds(u)
  BY <1>5, Numbers DEF CounterExact, OneToken, TypeOK
<1>7. OneToken' /\ NoNesting' /\ IdleThread'
  BY <1>6 DEF Add, TypeOK, OneToken, NoNesting, IdleThread, Holds, Active
<1>8. work' = IF Balance' >= 0 THEN Balance' ELSE Balance' + Modulus
  <2>1. Balance' < Modulus
    BY <1>1, <1>2, <1>4, Numbers, AddingNext, SerialAssumption
       DEF Balance, AddingFact, Add
  <2> QED
    BY <1>4, <2>1, Numbers, SerialAssumption DEF CounterExact, Add, FetchAdd, TypeOK
<1>9. (inner' = 1 \/ \E u \in Threads : Holds(u)') <=> Balance' >= 1
  <2>1. CASE work = 0
    <3>1. Holds(th)'
      BY <2>1 DEF Add, Holds, TypeOK
    <3> QED
      BY <3>1, <2>1, <1>5, <1>4
  <2>2. CASE work # 0
    <3>1. inner' = inner /\ \A u \in Threads : Holds(u)' <=> Holds(u)
      BY <2>2 DEF Add, Holds, TypeOK
    <3> QED
      BY <3>1, <2>2, <1>4, <1>5, Numbers DEF CounterExact
  <2> QED
    BY <2>1, <2>2
<1>10. CounterExact'
  BY <1>8, <1>9 DEF CounterExact
<1> QED
  BY <1>1, <1>2, <1>4, <1>7, <1>10

\* Steps that only pass the token on: the counters and the batches stay.
LEMMA PassIInv ==
    ASSUME IInv, NEW th \in Threads,
           ScheduleInner(th) \/ Execute(th) \/ Cancel(th) \/ Reschedule(th)
    PROVE  IInv'
<1> USE DEF IInv
<1> USE DEF ScheduleInner, Execute, Cancel, Enter, Reschedule
<1>1. TypeOK'
  <2>1. CASE ScheduleInner(th)
    BY <2>1 DEF TypeOK
  <2>2. CASE Execute(th)
    BY <2>2 DEF TypeOK
  <2>3. CASE Cancel(th)
    BY <2>3 DEF TypeOK
  <2>4. CASE Reschedule(th)
    BY <2>4 DEF TypeOK
  <2> QED
    BY <2>1, <2>2, <2>3, <2>4
<1>2. OneToken' /\ NoNesting' /\ IdleThread'
  <2> USE DEF TypeOK, OneToken, NoNesting, IdleThread, Holds, Active
  <2>1. CASE ScheduleInner(th)
    BY <2>1
  <2>2. CASE Execute(th)
    BY <2>2
  <2>3. CASE Cancel(th)
    BY <2>3
  <2>4. CASE Reschedule(th)
    BY <2>4
  <2> QED
    BY <2>1, <2>2, <2>3, <2>4
<1>3. InBatch' = InBatch /\ batch' = batch
  <2>1. \A u \in Threads : Active(u)' <=> Active(u)
    BY DEF TypeOK, Active
  <2>2. Runner' = Runner
    BY <2>1 DEF Runner
  <2> QED
    BY <2>1, <2>2 DEF InBatch
<1>4. Adding' = Adding
  BY DEF TypeOK, Adding
<1>5. Balance' = Balance
  BY <1>3, <1>4 DEF Balance
<1>6. (inner' = 1 \/ \E u \in Threads : Holds(u)')
      /\ (inner = 1 \/ \E u \in Threads : Holds(u))
  BY DEF TypeOK, OneToken, Holds
<1>7. CounterExact'
  BY <1>5, <1>6 DEF CounterExact
<1> QED
  BY <1>1, <1>2, <1>3, <1>7

\* Steps inside a batch: the tasks only move from the stack to the batch and
\* through it.
LEMMA BatchIInv ==
    ASSUME IInv, NEW th \in Threads,
           Extract(th) \/ StartTask(th) \/ FinishTask(th)
    PROVE  IInv'
<1> USE DEF IInv
<1> USE DEF Extract, StartTask, FinishTask
<1>1. TypeOK'
  <2>1. CASE Extract(th)
    BY <2>1 DEF TypeOK
  <2>2. CASE StartTask(th)
    <3>1. Head(list[th]) \in Tasks /\ Tail(list[th]) \in Seq(Tasks)
      BY <2>2 DEF TypeOK
    <3> QED
      BY <2>2, <3>1 DEF TypeOK
  <2>3. CASE FinishTask(th)
    BY <2>3 DEF TypeOK
  <2> QED
    BY <2>1, <2>2, <2>3
<1>2. \A u \in Threads : Holds(u)' <=> Holds(u)
  BY DEF TypeOK, Holds
<1>3. OneToken' /\ NoNesting'
  BY <1>2 DEF TypeOK, OneToken, NoNesting
<1>4. IdleThread'
  <2>1. CASE Extract(th)
    BY <2>1 DEF TypeOK, IdleThread, Active
  <2>2. CASE StartTask(th)
    <3>1. Head(list[th]) \in Tasks
      BY <2>2 DEF TypeOK
    <3> QED
      BY <2>2, <3>1 DEF TypeOK, IdleThread, Active
  <2>3. CASE FinishTask(th)
    BY <2>3 DEF TypeOK, IdleThread, Active
  <2> QED
    BY <2>1, <2>2, <2>3
<1>5. Holds(th) /\ Active(th)'
  BY DEF TypeOK, Holds, Active
<1>6. InBatch' = (size[th] + Len(list[th]))'
  BY <1>3, <1>5, InBatchNext DEF InBatchFact
<1>7. Len(batch)' + InBatch' = Len(batch) + InBatch
  <2>1. CASE Extract(th)
    <3>1. \A u \in Threads : ~Active(u)
      BY <2>1, <1>5 DEF OneToken, Holds, Active
    <3>2. InBatch = 0 /\ size[th] = 0
      BY <3>1, InBatchIs DEF IdleThread
    <3>3. Len(batch)' = 0 /\ Len(list[th])' = Len(batch) /\ size[th]' = 0
      BY <2>1, <3>2 DEF TypeOK
    <3> QED
      BY <3>2, <3>3, <1>6, Numbers
  <2>2. CASE StartTask(th)
    <3>1. InBatch = size[th] + Len(list[th])
      BY <2>2, InBatchIs DEF Active
    <3>2. Len(Tail(list[th])) = Len(list[th]) - 1 /\ Len(list[th]) \in Nat
      BY <2>2 DEF TypeOK
    <3>3. list[th]' = Tail(list[th]) /\ size[th]' = size[th] + 1 /\ batch' = batch
      BY <2>2 DEF TypeOK
    <3> QED
      BY <3>1, <3>2, <3>3, <1>6, Numbers DEF TypeOK
  <2>3. CASE FinishTask(th)
    <3>1. InBatch = size[th] + Len(list[th])
      BY <2>3, InBatchIs DEF Active
    <3> QED
      BY <2>3, <3>1, <1>6
  <2> QED
    BY <2>1, <2>2, <2>3
<1>8. Adding' = Adding
  BY DEF Adding
<1>9. Balance' = Balance
  <2>1. Cardinality(Adding)' = Cardinality(Adding)
    BY <1>8
  <2>2. Len(batch)' \in Nat
    BY <1>1 DEF TypeOK
  <2>3. (Len(list[th]))' \in Nat /\ size'[th] \in Nat
    BY <1>1 DEF TypeOK
  <2>4. InBatch' \in Nat
    BY <2>3, <1>6
  <2> QED
    BY <1>7, <2>1, <2>2, <2>4, Numbers DEF Balance
<1>10. CounterExact'
  BY <1>2, <1>9 DEF CounterExact
<1> QED
  BY <1>1, <1>3, <1>4, <1>7, <1>10

\* execute() or stop() subtracts its batch: the token goes on exactly when the
\* balance without the batch is still positive.
LEMMA SubtractIInv ==
    ASSUME IInv, NEW th \in Threads, Subtract(th)
    PROVE  IInv'
<1> USE DEF IInv
<1>1. Active(th) /\ Holds(th)
  BY DEF Subtract, Active, Holds
<1>2. InBatch = size[th] /\ size[th] \in Nat
  BY <1>1, InBatchIs DEF Subtract, TypeOK
<1>3. Balance >= 1
  BY <1>1 DEF CounterExact
<1>4. work = Balance
  BY <1>3, Numbers DEF CounterExact
<1>5. \A u \in Threads : u # th => ~Holds(u)
  BY <1>1 DEF OneToken
<1>6. size[th] <= MaxOutstanding
  BY <1>2, Numbers, SerialAssumption
<1>7. TypeOK'
  BY <1>2, <1>6, SerialAssumption DEF Subtract, TypeOK, FetchSub
<1>8. OneToken' /\ NoNesting' /\ IdleThread'
  BY DEF Subtract, TypeOK, OneToken, NoNesting, IdleThread, Holds, Active
<1>9. InBatch' = 0
  <2>1. \A u \in Threads : ~Active(u)'
    BY <1>5 DEF Subtract, TypeOK, Active, Holds
  <2> QED
    BY <2>1, <1>8, InBatchNext DEF InBatchFact
<1>10. batch' = batch /\ Adding' = Adding
  BY DEF Subtract, Adding
<1>11. Balance' = Balance - size[th]
  BY <1>2, <1>9, <1>10, Numbers DEF Balance
<1>12. work' = IF Balance' >= 0 THEN Balance' ELSE Balance' + Modulus
  BY <1>2, <1>4, <1>11, Numbers DEF Subtract, FetchSub
<1>13. inner' = 0 /\ \A u \in Threads : u # th => ~Holds(u)'
  BY <1>1, <1>5 DEF Subtract, TypeOK, Holds, OneToken
<1>14. Holds(th)' <=> work > size[th]
  BY <1>1 DEF Subtract, TypeOK, Holds, NoNesting
<1>15. CounterExact'
  BY <1>2, <1>4, <1>11, <1>12, <1>13, <1>14, Numbers DEF CounterExact
<1> QED
  BY <1>7, <1>8, <1>9, <1>10, <1>15, <1>2, Numbers, SerialAssumption

\* Every step keeps the invariant.
LEMMA NextIInv == IInv /\ [Next]_vars => IInv'
<1> SUFFICES ASSUME IInv, [Next]_vars PROVE IInv'
  OBVIOUS
<1>1. ASSUME NEW th \in Threads, NEW t \in Tasks, Push(th, t)
      PROVE  IInv'
  BY <1>1, PushIInv
<1>2. ASSUME NEW th \in Threads, Step(th)
      PROVE  IInv'
  BY <1>2, AddIInv, PassIInv, BatchIInv, SubtractIInv DEF Step
<1>3. ASSUME RunInner
      PROVE  IInv'
  BY <1>3, PassIInv DEF RunInner
<1>4. CASE UNCHANGED vars
  BY <1>4 DEF vars, IInv, TypeOK, OneToken, NoNesting, IdleThread, CounterExact,
              Balance, InBatch, Adding, Runner, Active, Holds
<1> QED
  BY <1>1, <1>2, <1>3, <1>4 DEF Next

\* IInv is an invariant of the serial executor.
THEOREM Invariance == Spec => []IInv
  BY InitIInv, NextIInv, PTL DEF Spec

\* work_ stays a 32-bit unsigned number and every part of the state has its
\* type: the counter of serial.hpp:81 never leaves its width.
THEOREM TypeCorrect == Spec => []TypeOK
<1>1. IInv => TypeOK
  BY DEF IInv
<1> QED
  BY <1>1, Invariance, PTL

\* task_ is never scheduled twice on the inner executor and never scheduled
\* while it executes, so the tasks of a serial executor never overlap
\* (serial.hpp:36-38, 51-54), for any number of threads and tasks.
THEOREM Serial == Spec => [](OneToken /\ NoNesting)
<1>1. IInv => OneToken /\ NoNesting
  BY DEF IInv
<1> QED
  BY <1>1, Invariance, PTL

\* work_ is the number of tasks pushed and not executed less the number of
\* pushes not added, modulo its width, and task_ is in flight exactly while
\* that difference is positive.
THEOREM Counter == Spec => []CounterExact
<1>1. IInv => CounterExact
  BY DEF IInv
<1> QED
  BY <1>1, Invariance, PTL

\* DEBUG_ASSERT(head != nullptr) of execute() and of the stop() that cancels
\* task_ (serial.hpp:25, 60) holds.
THEOREM AssertionHolds == Spec => []BatchNotEmpty
<1>1. IInv => BatchNotEmpty
  <2> SUFFICES ASSUME IInv, NEW th \in Threads, run[th] = "extract"
               PROVE  batch # <<>>
    BY DEF BatchNotEmpty
  <2>1. Holds(th)
    BY DEF Holds
  <2>2. Balance >= 1
    BY <2>1 DEF IInv, CounterExact
  <2>3. \A u \in Threads : ~Active(u)
    BY <2>1 DEF IInv, OneToken, Holds, Active
  <2>4. InBatch = 0
    BY <2>3, InBatchIs DEF IInv
  <2>5. Len(batch) >= 1
    BY <2>2, <2>4, Numbers DEF Balance
  <2> QED
    BY <2>5
<1> QED
  BY <1>1, Invariance, PTL

\* When all threads have left schedule() and execute() and task_ is not on the
\* inner executor, the stack is empty and work_ is zero: no task is stranded
\* by the window between push and fetch_add (serial.hpp:50-51).
THEOREM NoTaskStranded == Spec => []NothingLost
<1>1. IInv => NothingLost
  <2> SUFFICES ASSUME IInv, inner = 0,
                      \A th \in Threads : call[th] = "idle" /\ run[th] = "idle"
               PROVE  batch = <<>> /\ work = 0
    BY DEF NothingLost
  <2>1. \A th \in Threads : ~Holds(th) /\ ~Active(th)
    BY DEF Holds, Active
  <2>2. InBatch = 0
    BY <2>1, InBatchIs DEF IInv
  <2>3. Adding = {}
    BY DEF Adding
  <2>4. Balance = Len(batch)
    BY <2>2, <2>3, FS_EmptySet, Numbers DEF Balance
  <2>5. ~(Balance >= 1)
    BY <2>1 DEF IInv, CounterExact
  <2>6. Len(batch) = 0
    BY <2>4, <2>5, Numbers
  <2> QED
    BY <2>4, <2>6 DEF IInv, TypeOK, CounterExact
<1> QED
  BY <1>1, Invariance, PTL

-----------------------------------------------------------------------------
\* The serial executor implements SerialSpec, without its fairness.

\* What the mapping to SerialSpec is, without the choice in Runner.
MappingFact ==
    OneToken =>
        /\ \A th \in Threads :
              Active(th) => Pending = list[th] \o batch /\ Current = cur[th]
        /\ (\A th \in Threads : ~Active(th)) => Pending = batch /\ Current = NoTask

\* It holds in every state and in the next one.
LEMMA MappingNext == MappingFact /\ MappingFact'
<1>1. MappingFact
  <2> SUFFICES ASSUME OneToken PROVE MappingFact
    BY DEF MappingFact
  <2>1. ASSUME NEW th \in Threads, Active(th)
        PROVE  Pending = list[th] \o batch /\ Current = cur[th]
    BY <2>1, RunnerIs DEF Pending, Current
  <2>2. ASSUME \A th \in Threads : ~Active(th)
        PROVE  Pending = batch /\ Current = NoTask
    BY <2>2 DEF Pending, Current
  <2> QED
    BY <2>1, <2>2 DEF MappingFact
<1>2. QED
  BY <1>1, PTL

\* Steps that touch neither a list nor a task in execution are invisible.
LEMMA Invisible ==
    ASSUME IInv, IInv', UNCHANGED <<batch, list, cur>>,
           \A th \in Threads : Active(th)' <=> Active(th)
    PROVE  UNCHANGED <<Pending, Current>>
<1>1. OneToken /\ OneToken'
  BY DEF IInv
<1>2. CASE \E th \in Threads : Active(th)
  <2>1. PICK th \in Threads : Active(th)
    BY <1>2
  <2> QED
    BY <1>1, <2>1, MappingNext DEF MappingFact
<1>3. CASE \A th \in Threads : ~Active(th)
  BY <1>1, <1>3, MappingNext DEF MappingFact
<1> QED
  BY <1>2, <1>3

\* The push of schedule() hands the task over.
LEMMA PushAccepts ==
    ASSUME IInv, IInv', NEW th \in Threads, NEW t \in Tasks, Push(th, t)
    PROVE  Abstract!Accept(t)
<1>1. /\ OneToken /\ OneToken'
      /\ batch \in Seq(Tasks) /\ list \in [Threads -> Seq(Tasks)]
      /\ batch' = Append(batch, t) /\ list' = list /\ cur' = cur
      /\ \A u \in Threads : Active(u)' <=> Active(u)
  BY DEF IInv, TypeOK, Push, Active
<1>2. t \notin ToSet(batch) /\ \A u \in Threads : t \notin ToSet(list[u])
  BY DEF Push, Linked
<1>3. CASE \E u \in Threads : Active(u)
  <2>1. PICK u \in Threads : Active(u)
    BY <1>3
  <2>2. /\ Pending = list[u] \o batch /\ Current = cur[u]
        /\ Pending' = list[u] \o Append(batch, t) /\ Current' = cur[u]
    BY <2>1, <1>1, MappingNext DEF MappingFact
  <2>3. list[u] \o Append(batch, t) = Append(list[u] \o batch, t)
    BY <1>1
  <2>4. t \notin Abstract!ToSet(list[u] \o batch)
    BY <1>1, <1>2 DEF ToSet, Abstract!ToSet
  <2> QED
    BY <2>2, <2>3, <2>4 DEF Abstract!Accept
<1>4. CASE \A u \in Threads : ~Active(u)
  <2>1. Pending = batch /\ Current = NoTask /\ Pending' = Append(batch, t) /\ Current' = NoTask
    BY <1>4, <1>1, MappingNext DEF MappingFact
  <2> QED
    BY <2>1, <1>2 DEF Abstract!Accept, ToSet, Abstract!ToSet
<1> QED
  BY <1>3, <1>4

\* Taking the batch, and leaving it when it is empty, is invisible.
LEMMA BatchInvisible ==
    ASSUME IInv, IInv', NEW th \in Threads, Extract(th) \/ Subtract(th)
    PROVE  UNCHANGED <<Pending, Current>>
<1>1. /\ OneToken /\ OneToken'
      /\ batch \in Seq(Tasks) /\ list \in [Threads -> Seq(Tasks)]
  BY DEF IInv, TypeOK
<1>2. cur[th] = NoTask
  BY DEF Extract, Subtract, IInv, IdleThread
<1>3. CASE Extract(th)
  <2>1. \A u \in Threads : ~Active(u)
    BY <1>3 DEF Extract, IInv, OneToken, Holds, Active
  <2>2. Active(th)' /\ list'[th] = batch /\ batch' = <<>> /\ cur' = cur
    BY <1>3, <1>1 DEF Extract, IInv, TypeOK, Active
  <2>3. Pending = batch /\ Current = NoTask
    BY <2>1, <1>1, MappingNext DEF MappingFact
  <2>4. Pending' = batch \o <<>> /\ Current' = cur[th]
    BY <2>2, <1>1, MappingNext DEF MappingFact
  <2> QED
    BY <2>3, <2>4, <1>1, <1>2
<1>4. CASE Subtract(th)
  <2>1. Active(th) /\ list[th] = <<>> /\ batch' = batch
    BY <1>4 DEF Subtract, Active
  <2>2. \A u \in Threads : Active(u) => u = th
    BY <2>1 DEF IInv, OneToken, Holds, Active
  <2>3. \A u \in Threads : ~Active(u)'
    BY <1>4, <2>2 DEF Subtract, IInv, TypeOK, Active
  <2>4. Pending = <<>> \o batch /\ Current = cur[th]
    BY <2>1, <1>1, MappingNext DEF MappingFact
  <2>5. Pending' = batch /\ Current' = NoTask
    BY <2>1, <2>3, <1>1, MappingNext DEF MappingFact
  <2> QED
    BY <2>4, <2>5, <1>1, <1>2
<1> QED
  BY <1>3, <1>4

\* A task of the batch begins or ends.
LEMMA TaskVisible ==
    ASSUME IInv, IInv', NEW th \in Threads, StartTask(th) \/ FinishTask(th)
    PROVE  Abstract!Start \/ Abstract!Finish
<1>1. /\ OneToken /\ OneToken'
      /\ batch \in Seq(Tasks) /\ list[th] \in Seq(Tasks)
      /\ batch' = batch
      /\ Active(th) /\ Active(th)'
  BY DEF IInv, TypeOK, StartTask, FinishTask, Active
<1>2. /\ Pending = list[th] \o batch /\ Current = cur[th]
      /\ Pending' = list'[th] \o batch /\ Current' = cur'[th]
  BY <1>1, MappingNext DEF MappingFact
<1>3. CASE StartTask(th)
  <2>1. /\ cur[th] = NoTask /\ list[th] # <<>>
        /\ cur'[th] = Head(list[th]) /\ list'[th] = Tail(list[th])
    BY <1>3 DEF StartTask, IInv, TypeOK, IdleThread
  <2>2. /\ list[th] \o batch # <<>>
        /\ Head(list[th] \o batch) = Head(list[th])
        /\ Tail(list[th] \o batch) = Tail(list[th]) \o batch
    <3> DEFINE s == list[th]  l == Tail(s \o batch)  r == Tail(s) \o batch
    <3>1. s \in Seq(Tasks) /\ s # <<>> /\ batch \in Seq(Tasks)
      BY <1>1, <2>1
    <3> HIDE DEF s
    <3>2. s \o batch \in Seq(Tasks) /\ s \o batch # <<>> /\ Head(s \o batch) = Head(s)
      BY <3>1
    <3>3. /\ l \in Seq(Tasks) /\ r \in Seq(Tasks)
          /\ Len(l) = Len(s) + Len(batch) - 1 /\ Len(r) = Len(l)
      BY <3>1, <3>2
    <3>4. ASSUME NEW i \in 1 .. Len(l)
          PROVE  l[i] = r[i]
      <4>1. l[i] = (s \o batch)[i + 1]
        BY <3>1, <3>2, <3>3
      <4>2. CASE i < Len(s)
        BY <4>1, <4>2, <3>1, <3>3
      <4>3. CASE i >= Len(s)
        BY <4>1, <4>3, <3>1, <3>3
      <4> QED
        BY <4>2, <4>3, <3>1, <3>3
    <3>5. l = r
      BY <3>3, <3>4
    <3> QED
      BY <3>2, <3>5 DEF s
  <2> QED
    BY <1>2, <2>1, <2>2 DEF Abstract!Start
<1>4. CASE FinishTask(th)
  <2>1. cur[th] # NoTask /\ cur'[th] = NoTask /\ list' = list
    BY <1>4, SerialAssumption DEF FinishTask, IInv, TypeOK, IdleThread
  <2> QED
    BY <1>2, <2>1 DEF Abstract!Finish
<1> QED
  BY <1>3, <1>4

\* Every step is a step of SerialSpec or invisible.
LEMMA StepSimulates ==
    ASSUME IInv, IInv', [Next]_vars
    PROVE  [Abstract!Next]_(Abstract!vars)
<1>1. ASSUME NEW th \in Threads, NEW t \in Tasks, Push(th, t)
      PROVE  Abstract!Next
  BY <1>1, PushAccepts DEF Abstract!Next
<1>2. ASSUME NEW th \in Threads, StartTask(th) \/ FinishTask(th)
      PROVE  Abstract!Next
  BY <1>2, TaskVisible DEF Abstract!Next
<1>3. ASSUME NEW th \in Threads, Extract(th) \/ Subtract(th)
      PROVE  UNCHANGED Abstract!vars
  BY <1>3, BatchInvisible DEF Abstract!vars
<1>4. ASSUME NEW th \in Threads,
             \/ Add(th) \/ ScheduleInner(th) \/ Reschedule(th)
             \/ Execute(th) \/ Cancel(th)
      PROVE  UNCHANGED Abstract!vars
  <2>1. UNCHANGED <<batch, list, cur>>
    BY <1>4 DEF Add, ScheduleInner, Reschedule, Execute, Cancel, Enter
  <2>2. \A u \in Threads : Active(u)' <=> Active(u)
    <3>1. CASE Add(th) \/ ScheduleInner(th)
      BY <3>1 DEF Active, Add, ScheduleInner
    <3>2. CASE Reschedule(th)
      BY <3>2 DEF IInv, TypeOK, Active, Reschedule
    <3>3. CASE Execute(th)
      BY <3>3 DEF IInv, TypeOK, Active, Execute, Enter
    <3>4. CASE Cancel(th)
      BY <3>4 DEF IInv, TypeOK, Active, Cancel, Enter
    <3> QED
      BY <1>4, <3>1, <3>2, <3>3, <3>4
  <2> QED
    BY <2>1, <2>2, Invisible DEF Abstract!vars
<1>5. ASSUME UNCHANGED vars
      PROVE  UNCHANGED Abstract!vars
  BY <1>5, Invisible DEF vars, Active, Abstract!vars
<1> QED
  BY <1>1, <1>2, <1>3, <1>4, <1>5 DEF Next, Step, RunInner

\* Tasks are executed one at a time in the order in which they were pushed,
\* whatever the inner executor and the other threads do (serial.hpp:23-65).
\* This is the safety part of Refinement; it is also why a mutex, whose lock()
\* continues on a serial executor (mutex.hpp:40), excludes.
THEOREM SerialRefines == Spec => Abstract!Init /\ [][Abstract!Next]_(Abstract!vars)
<1>1. Init => Abstract!Init
  <2> SUFFICES ASSUME Init PROVE Abstract!Init
    OBVIOUS
  <2>1. OneToken /\ batch = <<>> /\ \A th \in Threads : ~Active(th)
    BY InitIInv DEF Init, IInv, Active
  <2> QED
    BY <2>1, MappingNext DEF MappingFact, Abstract!Init
<1> QED
  BY <1>1, StepSimulates, Invariance, PTL DEF Spec

=============================================================================
