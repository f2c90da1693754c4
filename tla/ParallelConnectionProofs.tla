---------------------- MODULE ParallelConnectionProofs ----------------------
(***************************************************************************)
(* Proofs about ParallelConnection, for any number of children and each of *)
(* any, all and select: the slot is completed once and with the right      *)
(* result, nobody uses the connection after its deletion, and only         *)
(* children beside the winner are cancelled, in time.                      *)
(***************************************************************************)
EXTENDS ParallelConnection, FiniteSetTheorems, TLAPS

\* The part of the invariant that is inductive by itself.
Core ==
    /\ TypeOK /\ CountedOnce /\ Progress /\ OneDelivers /\ TasksOrdered /\ CancelsOthers
    /\ Len(delivered) <= 1 /\ RightResult

CountedSet == {i \in Children : Counted(i)}

-----------------------------------------------------------------------------
\* The queue of the serial executor and the count.

\* A task is scheduled behind the others.
LEMMA ScheduledQueue ==
    ASSUME NEW s \in Seq(TaskKinds), IsInjective(s), NEW k \in TaskKinds, k \notin ToSet(s)
    PROVE  /\ Append(s, k) \in Seq(TaskKinds) /\ IsInjective(Append(s, k))
           /\ ToSet(Append(s, k)) = ToSet(s) \cup {k}
           /\ DOMAIN Append(s, k) = 1 .. Len(s) + 1 /\ DOMAIN s = 1 .. Len(s)
           /\ Append(s, k)[Len(s) + 1] = k /\ Len(s) \in Nat
           /\ \A i \in 1 .. Len(s) : Append(s, k)[i] = s[i]
<1>1. /\ Append(s, k) \in Seq(TaskKinds) /\ Len(Append(s, k)) = Len(s) + 1
      /\ DOMAIN Append(s, k) = 1 .. Len(s) + 1 /\ DOMAIN s = 1 .. Len(s)
      /\ Append(s, k)[Len(s) + 1] = k /\ Len(s) \in Nat
      /\ \A i \in 1 .. Len(s) : Append(s, k)[i] = s[i]
  OBVIOUS
<1>2. IsInjective(Append(s, k))
  BY <1>1 DEF IsInjective, ToSet
<1>3. ToSet(Append(s, k)) = ToSet(s) \cup {k}
  BY <1>1 DEF ToSet
<1> QED
  BY <1>1, <1>2, <1>3

\* The task that is popped was the first one.
LEMMA PoppedQueue ==
    ASSUME NEW s \in Seq(TaskKinds), IsInjective(s), s # <<>>
    PROVE  /\ Tail(s) \in Seq(TaskKinds) /\ IsInjective(Tail(s))
           /\ Head(s) \in ToSet(s) /\ ToSet(Tail(s)) = ToSet(s) \ {Head(s)}
           /\ DOMAIN Tail(s) = 1 .. Len(s) - 1 /\ DOMAIN s = 1 .. Len(s)
           /\ Head(s) = s[1] /\ \A i \in 1 .. Len(s) - 1 : Tail(s)[i] = s[i + 1]
           /\ Len(s) \in Nat \ {0}
<1>1. /\ Tail(s) \in Seq(TaskKinds) /\ Len(Tail(s)) = Len(s) - 1 /\ Len(s) \in Nat \ {0}
      /\ DOMAIN Tail(s) = 1 .. Len(s) - 1 /\ DOMAIN s = 1 .. Len(s)
      /\ Head(s) = s[1] /\ \A i \in 1 .. Len(s) - 1 : Tail(s)[i] = s[i + 1]
  OBVIOUS
<1>2. IsInjective(Tail(s))
  BY <1>1 DEF IsInjective
<1>3. ASSUME NEW x PROVE x \in ToSet(Tail(s)) <=> x \in ToSet(s) /\ x # Head(s)
  <2>1. x \in ToSet(Tail(s)) => x \in ToSet(s) /\ x # Head(s)
    BY <1>1 DEF ToSet, IsInjective
  <2>2. ASSUME x \in ToSet(s), x # Head(s) PROVE x \in ToSet(Tail(s))
    <3>1. PICK i \in 1 .. Len(s) : x = s[i]
      BY <1>1, <2>2 DEF ToSet
    <3>2. i - 1 \in 1 .. Len(s) - 1 /\ Tail(s)[i - 1] = x
      BY <1>1, <2>2, <3>1
    <3> QED
      BY <1>1, <3>2 DEF ToSet
  <2> QED
    BY <2>1, <2>2
<1>4. Head(s) \in ToSet(s)
  BY <1>1 DEF ToSet
<1> QED
  BY <1>1, <1>2, <1>3, <1>4

\* A task that is scheduled for the first time keeps the order.
LEMMA ScheduleOrdered ==
    ASSUME TypeOK, TasksOrdered, NEW k \in TaskKinds, scheduled[k] = 0, Schedule(k),
           k = "cancel" => scheduled["delete"] = 0, UNCHANGED state
    PROVE  /\ TasksOrdered' /\ queue' \in Seq(TaskKinds)
           /\ scheduled' \in [TaskKinds -> {0, 1}] /\ scheduled'[k] = 1
           /\ \A l \in TaskKinds \ {k} : scheduled'[l] = scheduled[l]
           /\ UNCHANGED <<dropped, current, todo>>
<1>1. k \notin ToSet(queue)
  BY DEF TasksOrdered
<1>2. /\ queue' \in Seq(TaskKinds) /\ IsInjective(queue')
      /\ ToSet(queue') = ToSet(queue) \cup {k}
      /\ DOMAIN queue' = 1 .. Len(queue) + 1 /\ DOMAIN queue = 1 .. Len(queue)
      /\ queue'[Len(queue) + 1] = k /\ Len(queue) \in Nat
      /\ \A i \in 1 .. Len(queue) : queue'[i] = queue[i]
  BY <1>1, ScheduledQueue DEF Schedule, TypeOK, TasksOrdered
<1>3. /\ scheduled' \in [TaskKinds -> {0, 1}] /\ scheduled'[k] = 1
      /\ \A l \in TaskKinds \ {k} : scheduled'[l] = scheduled[l]
      /\ UNCHANGED <<dropped, current, todo>>
  BY DEF Schedule, TypeOK
<1>4. \A l \in ToSet(queue') : scheduled'[l] = 1
  BY <1>2, <1>3 DEF TasksOrdered, ToSet, TypeOK
<1>5. \A m, n \in DOMAIN queue' : queue'[m] = "delete" /\ queue'[n] = "cancel" => n < m
  <2> SUFFICES ASSUME NEW m \in DOMAIN queue', NEW n \in DOMAIN queue',
                      queue'[m] = "delete", queue'[n] = "cancel"
               PROVE  n < m
    OBVIOUS
  <2>1. CASE m = Len(queue) + 1
    BY <1>2, <2>1
  <2>2. CASE m # Len(queue) + 1
    <3>1. m \in DOMAIN queue /\ queue[m] = "delete"
      BY <1>2, <2>2
    <3>2. scheduled["delete"] = 1
      BY <3>1 DEF TasksOrdered, ToSet
    <3>3. n \in DOMAIN queue /\ queue[n] = "cancel"
      BY <1>2, <3>2
    <3> QED
      BY <3>1, <3>3 DEF TasksOrdered
  <2> QED
    BY <2>1, <2>2
<1>6. scheduled'["delete"] = 1 /\ "delete" \notin ToSet(queue') => "cancel" \notin ToSet(queue')
  BY <1>2, <1>3 DEF TasksOrdered, TypeOK, TaskKinds
<1>7. /\ handles' => scheduled'["emit"] = 1 /\ "emit" \notin ToSet(queue')
      /\ request' => ~handles' /\ scheduled'["cancel"] = 1
      /\ deleting' \/ freed' => scheduled'["delete"] = 1 /\ "delete" \notin ToSet(queue')
  BY <1>2, <1>3 DEF TasksOrdered, TypeOK, TaskKinds, state
<1>8. /\ freed' => handles' /\ todo' = {}
      /\ current' = "emit" => handles'
      /\ current' = "none" => todo' = {}
  BY <1>3 DEF TasksOrdered, state
<1> QED
  BY <1>2, <1>3, <1>4, <1>5, <1>6, <1>7, <1>8 DEF TasksOrdered

\* There are finitely many children, and a full count means all of them.
LEMMA Counts ==
    /\ IsFiniteSet(CountedSet) /\ Cardinality(CountedSet) \in Nat
    /\ Cardinality(CountedSet) <= N
    /\ Cardinality(CountedSet) = N => \A i \in Children : Counted(i)
<1>1. IsFiniteSet(Children) /\ Cardinality(Children) = N
  BY FS_Interval, ParallelAssumption DEF Children
<1>2. CountedSet \in SUBSET Children
  BY DEF CountedSet
<1>3. /\ IsFiniteSet(CountedSet) /\ Cardinality(CountedSet) <= N
      /\ N = Cardinality(CountedSet) => Children = CountedSet
  BY <1>1, <1>2, FS_Subset
<1>4. Cardinality(CountedSet) \in Nat
  BY <1>3, FS_CardinalityType
<1> QED
  BY <1>3, <1>4 DEF CountedSet

\* A step of child i leaves the others where they are.
LEMMA OthersStay ==
    ASSUME TypeOK, NEW i \in Children, NEW pc \in ChildSteps, Goto(i, pc)
    PROVE  /\ child' \in [Children -> ChildSteps] /\ child'[i] = pc
           /\ \A j \in Children \ {i} : child'[j] = child[j]
  BY DEF TypeOK, Goto

-----------------------------------------------------------------------------

\* A connection starts with nothing emitted.
LEMMA InitCore == Init => Core
<1> SUFFICES ASSUME Init PROVE Core
  OBVIOUS
<1> USE ParallelAssumption DEF Init
<1>1. 1 \in Children
  BY DEF Children
<1>2. TypeOK
  <2>1. /\ queue \in Seq(TaskKinds) /\ delivered \in Seq(Outcomes)
        /\ counter \in 0 .. N /\ winner \in 0 .. N
    OBVIOUS
  <2>2. /\ child \in [Children -> ChildSteps] /\ outcome \in [Children -> Outcomes \cup {"none"}]
        /\ scheduled \in [TaskKinds -> {0, 1}]
    BY DEF ChildSteps
  <2> QED
    BY <2>1, <2>2 DEF TypeOK
<1>3. CountedOnce
  <2>1. {i \in Children : Counted(i)} = {}
    BY DEF Counted
  <2> QED
    BY <2>1, FS_EmptySet DEF CountedOnce, LastOne, Counted, TaskKinds
<1>4. Progress
  BY <1>1 DEF Progress, TaskKinds
<1>5. OneDelivers
  BY DEF OneDelivers, TaskKinds
<1>6. TasksOrdered
  <2>1. ToSet(queue) = {} /\ IsInjective(queue) /\ DOMAIN queue = {}
    BY DEF ToSet, IsInjective
  <2> QED
    BY <2>1 DEF TasksOrdered, TaskKinds
<1>7. CancelsOthers
  BY DEF CancelsOthers
<1>8. Len(delivered) <= 1 /\ RightResult
  BY DEF RightResult
<1> QED
  BY <1>2, <1>3, <1>4, <1>5, <1>6, <1>7, <1>8 DEF Core

\* emit() goes through the children, and schedules the task after the last one.
LEMMA EmitterCore == ASSUME Core, Emitter PROVE Core'
<1> USE DEF Core
<1>1. ASSUME NEW i \in Children, Emit(i) PROVE Core'
  <2> USE <1>1 DEF Emit
  <2>1. /\ child' \in [Children -> ChildSteps] /\ child'[i] = "live"
        /\ \A j \in Children \ {i} : child'[j] = child[j]
    BY OthersStay DEF ChildSteps
  <2>2. /\ UNCHANGED <<kind, outcome, done, results, counter, winner, cancelled, delivered>>
        /\ UNCHANGED <<queue, dropped, scheduled, current, todo>>
        /\ UNCHANGED <<handles, request, deleting, freed>>
    BY DEF serial, state
  <2>3. TypeOK'
    BY <2>1, <2>2 DEF TypeOK
  <2>4. CountedOnce'
    <3>1. {j \in Children : Counted(j)}' = {j \in Children : Counted(j)}
      BY <2>1, <2>2 DEF Counted, Decisive
    <3> QED
      BY <2>1, <2>2, <3>1 DEF CountedOnce, LastOne, Counted, Decisive, TypeOK
  <2>5. Progress'
    BY <2>1, <2>2 DEF Progress, TypeOK
  <2>6. OneDelivers'
    BY <2>1, <2>2 DEF OneDelivers, Decisive
  <2>7. TasksOrdered' /\ CancelsOthers' /\ (Len(delivered) <= 1)' /\ RightResult'
    BY <2>2 DEF TasksOrdered, CancelsOthers, RightResult
  <2> QED
    BY <2>3, <2>4, <2>5, <2>6, <2>7
<1>2. ASSUME EmitImpl PROVE Core'
  <2> USE <1>2 DEF EmitImpl
  <2>1. scheduled["emit"] = 0 /\ "emit" \in TaskKinds
    BY DEF Progress, TypeOK, TaskKinds
  <2>2. /\ TasksOrdered' /\ queue' \in Seq(TaskKinds)
        /\ scheduled' \in [TaskKinds -> {0, 1}] /\ scheduled'["emit"] = 1
        /\ \A l \in TaskKinds \ {"emit"} : scheduled'[l] = scheduled[l]
        /\ UNCHANGED <<dropped, current, todo>>
    BY <2>1, ScheduleOrdered
  <2>3. /\ scheduled'["delete"] = scheduled["delete"]
        /\ scheduled'["cancel"] = scheduled["cancel"]
        /\ UNCHANGED <<kind, child, outcome, done, results, counter, winner>>
        /\ UNCHANGED <<handles, request, deleting, freed, cancelled, delivered>>
    BY <2>2 DEF TaskKinds, state
  <2>4. TypeOK'
    BY <2>2, <2>3 DEF TypeOK
  <2>5. CountedOnce'
    BY <2>3 DEF CountedOnce, LastOne, Counted, Decisive
  <2>6. Progress'
    BY <2>2, <2>3 DEF Progress
  <2>7. OneDelivers'
    BY <2>3 DEF OneDelivers, Decisive
  <2>8. CancelsOthers' /\ (Len(delivered) <= 1)' /\ RightResult'
    BY <2>2, <2>3 DEF CancelsOthers, RightResult
  <2> QED
    BY <2>2, <2>4, <2>5, <2>6, <2>7, <2>8
<1> QED
  BY <1>1, <1>2 DEF Emitter

\* A child completes: the decisive ones go for done_, the others count.
LEMMA CompleteCore ==
    ASSUME Core, NEW i \in Children, NEW o \in Outcomes, Complete(i, o)
    PROVE  Core'
<1> USE DEF Core, Complete
<1>1. /\ child' \in [Children -> ChildSteps]
      /\ child'[i] = IF Decisive(o) THEN "check_done" ELSE "count"
      /\ \A j \in Children \ {i} : child'[j] = child[j]
  BY OthersStay DEF ChildSteps
<1>2. /\ UNCHANGED <<kind, emitter, done, counter, winner, cancelled, delivered>>
      /\ UNCHANGED <<queue, dropped, scheduled, current, todo>>
      /\ UNCHANGED <<handles, request, deleting, freed>>
  BY DEF serial, state
<1>3. /\ outcome' \in [Children -> Outcomes \cup {"none"}] /\ outcome'[i] = o
      /\ \A j \in Children \ {i} : outcome'[j] = outcome[j]
      /\ o # "none" /\ child[i] = "live" /\ outcome[i] = "none"
  BY DEF TypeOK, Outcomes, Progress
<1>4. TypeOK'
  BY <1>1, <1>2, <1>3 DEF TypeOK
<1>5. CountedOnce'
  <2>1. ASSUME NEW j \in Children PROVE Counted(j)' <=> Counted(j)
    BY <1>1, <1>2, <1>3 DEF Counted, Decisive
  <2>2. {j \in Children : Counted(j)}' = {j \in Children : Counted(j)}
    BY <2>1
  <2>3. \A j \in Children : ~LastOne(j)
    BY <1>3 DEF CountedOnce, LastOne, Counted
  <2>4. \A j \in Children : ~LastOne(j)' /\ child'[j] # "schedule_delete"
    BY <1>1, <1>3, <2>1, <2>3 DEF LastOne, Counted
  <2>5. scheduled["delete"] # 1
    BY <1>3 DEF CountedOnce
  <2> QED
    BY <1>2, <2>2, <2>4, <2>5 DEF CountedOnce
<1>6. Progress'
  <2>1. emitter' = "emitting" <=> \E j \in Children : child'[j] = "idle"
    BY <1>1, <1>2, <1>3 DEF Progress
  <2>2. \A j \in Children : outcome'[j] = "none" <=> child'[j] \in {"idle", "live"}
    BY <1>1, <1>2, <1>3 DEF Progress
  <2>3. kind' = "all" => results' = {j \in Children : outcome'[j] = "value"}
    BY <1>2, <1>3 DEF Progress
  <2> QED
    BY <1>2, <2>1, <2>2, <2>3 DEF Progress
<1>7. OneDelivers'
  <2>1. \A j \in Children : ~(child[j] = "deliver" /\ ~Decisive(outcome[j]))
    BY <1>3 DEF CountedOnce, LastOne, Counted
  <2>2. \A j \in Children \ {i} : child'[j] = child[j] /\ outcome'[j] = outcome[j]
    BY <1>1, <1>3
  <2>3. child'[i] \in {"check_done", "count"} /\ (child'[i] = "count" => ~Decisive(outcome'[i]))
    BY <1>1, <1>3
  <2> QED
    BY <1>2, <2>1, <2>2, <2>3, <1>3 DEF OneDelivers, Decisive
<1>8. TasksOrdered' /\ CancelsOthers' /\ (Len(delivered) <= 1)'
  BY <1>2 DEF TasksOrdered, CancelsOthers
<1>9. RightResult'
  <2> SUFFICES ASSUME NEW n \in DOMAIN delivered
               PROVE  IF kind = "all"
                      THEN /\ delivered[n] = "value" => results' = Children
                           /\ delivered[n] # "value" =>
                                  \E j \in Children : outcome'[j] = delivered[n]
                      ELSE /\ delivered[n] = "value" =>
                                  \E j \in Children : outcome'[j] = "value"
                           /\ delivered[n] # "value" =>
                                  \A j \in Children : outcome'[j] \in {"error", "null"}
    BY <1>2 DEF RightResult
  <2>1. delivered[n] \in Outcomes
    BY DEF TypeOK
  <2>2. delivered[n] # "none"
    BY <2>1 DEF Outcomes
  <2>3. results = Children => results' = Children
    OBVIOUS
  <2> QED
    BY <1>3, <2>2, <2>3 DEF RightResult
<1> QED
  BY <1>4, <1>5, <1>6, <1>7, <1>8, <1>9

\* A select case whose channel has set done_ delivers at once.
LEMMA SkipDoneCore ==
    ASSUME Core, NEW i \in Children, CompleteSkipDone(i)
    PROVE  Core'
<1> USE DEF Core, CompleteSkipDone
<1>1. /\ child' \in [Children -> ChildSteps] /\ child'[i] = "deliver"
      /\ \A j \in Children \ {i} : child'[j] = child[j]
  BY OthersStay DEF ChildSteps
<1>2. /\ UNCHANGED <<kind, emitter, results, counter, winner, cancelled, delivered>>
      /\ UNCHANGED <<queue, dropped, scheduled, current, todo>>
      /\ UNCHANGED <<handles, request, deleting, freed>>
      /\ done' = TRUE /\ ~done /\ kind = "select"
  BY DEF serial, state
<1>3. /\ outcome' \in [Children -> Outcomes \cup {"none"}] /\ outcome'[i] = "value"
      /\ \A j \in Children \ {i} : outcome'[j] = outcome[j]
      /\ child[i] = "live" /\ outcome[i] = "none"
  BY DEF TypeOK, Outcomes, Progress
<1>4. TypeOK'
  BY <1>1, <1>2, <1>3 DEF TypeOK
<1>5. CountedOnce'
  <2>1. ASSUME NEW j \in Children PROVE Counted(j)' <=> Counted(j)
    BY <1>1, <1>2, <1>3 DEF Counted, Decisive
  <2>2. {j \in Children : Counted(j)}' = {j \in Children : Counted(j)}
    BY <2>1
  <2>3. \A j \in Children : ~LastOne(j)
    BY <1>3 DEF CountedOnce, LastOne, Counted
  <2>4. \A j \in Children : ~LastOne(j)' /\ child'[j] # "schedule_delete"
    BY <1>1, <1>3, <2>1, <2>3 DEF LastOne, Counted
  <2>5. scheduled["delete"] # 1
    BY <1>3 DEF CountedOnce
  <2> QED
    BY <1>2, <2>2, <2>4, <2>5 DEF CountedOnce
<1>6. Progress'
  BY <1>1, <1>2, <1>3 DEF Progress
<1>7. OneDelivers'
  <2>1. \A j \in Children \ {i} : child'[j] = child[j] /\ outcome'[j] = outcome[j]
    BY <1>1, <1>3
  <2> QED
    BY <1>1, <1>2, <2>1, <1>3 DEF OneDelivers, Decisive
<1>8. TasksOrdered' /\ CancelsOthers' /\ (Len(delivered) <= 1)'
  BY <1>2 DEF TasksOrdered, CancelsOthers
<1>9. RightResult'
  BY <1>2, <1>3 DEF RightResult, TypeOK, OneDelivers
<1> QED
  BY <1>4, <1>5, <1>6, <1>7, <1>8, <1>9

\* Of those who exchange done_ one delivers.
LEMMA CheckDoneCore ==
    ASSUME Core, NEW i \in Children, CheckDone(i)
    PROVE  Core'
<1> USE DEF Core, CheckDone
<1>1. /\ child' \in [Children -> ChildSteps]
      /\ child'[i] = IF ~done THEN "deliver"
                     ELSE IF Decisive(outcome[i]) THEN "count" ELSE "schedule_delete"
      /\ \A j \in Children \ {i} : child'[j] = child[j]
      /\ child[i] = "check_done"
  BY OthersStay DEF ChildSteps
<1>2. /\ UNCHANGED <<kind, emitter, outcome, results, counter, winner, cancelled, delivered>>
      /\ UNCHANGED <<queue, dropped, scheduled, current, todo>>
      /\ UNCHANGED <<handles, request, deleting, freed>>
      /\ done' = TRUE
  BY DEF serial, state
<1>3. TypeOK'
  BY <1>1, <1>2 DEF TypeOK
<1>4. ~Decisive(outcome[i]) => \A j \in Children \ {i} : child[j] = "end"
  BY <1>1 DEF CountedOnce, LastOne, Counted
<1>5. CountedOnce'
  <2>1. ASSUME NEW j \in Children PROVE Counted(j)' <=> Counted(j)
    BY <1>1, <1>2 DEF Counted, Decisive
  <2>2. {j \in Children : Counted(j)}' = {j \in Children : Counted(j)}
    BY <2>1
  <2>3. child'[i] = "schedule_delete" => delivered # <<>>
    BY <1>1, <1>4 DEF OneDelivers
  <2> QED
    BY <1>1, <1>2, <2>1, <2>2, <2>3 DEF CountedOnce, LastOne
<1>6. Progress'
  BY <1>1, <1>2 DEF Progress
<1>7. OneDelivers'
  <2>1. ~done /\ ~Decisive(outcome[i]) => \A j \in Children : ~Decisive(outcome[j])
    BY <1>4 DEF OneDelivers
  <2> QED
    BY <1>1, <1>2, <2>1 DEF OneDelivers, Decisive
<1>8. TasksOrdered' /\ CancelsOthers' /\ (Len(delivered) <= 1)' /\ RightResult'
  BY <1>2 DEF TasksOrdered, CancelsOthers, RightResult
<1> QED
  BY <1>3, <1>5, <1>6, <1>7, <1>8

\* What is delivered is right for all children.
LEMMA DeliverCore ==
    ASSUME Core, NEW i \in Children, Deliver(i)
    PROVE  Core'
<1> USE DEF Core, Deliver
<1>1. /\ child' \in [Children -> ChildSteps]
      /\ child'[i] = IF Decisive(outcome[i]) THEN "schedule_cancel" ELSE "schedule_delete"
      /\ \A j \in Children \ {i} : child'[j] = child[j]
      /\ child[i] = "deliver"
  BY OthersStay DEF ChildSteps
<1>2. /\ UNCHANGED <<kind, emitter, outcome, done, results, counter, winner, cancelled>>
      /\ UNCHANGED <<queue, dropped, scheduled, current, todo>>
      /\ UNCHANGED <<handles, request, deleting, freed>>
  BY DEF serial, state
<1>3. outcome[i] \in Outcomes /\ delivered = <<>> /\ delivered' = <<outcome[i]>>
  <2>1. outcome[i] \in Outcomes
    BY <1>1 DEF TypeOK, Progress
  <2>2. delivered = <<>>
    BY <1>1 DEF OneDelivers
  <2> QED
    BY <2>1, <2>2
<1>4. /\ delivered' \in Seq(Outcomes) /\ Len(delivered') = 1 /\ delivered' # <<>>
      /\ DOMAIN delivered' = {1} /\ delivered'[1] = outcome[i]
  BY <1>3
<1>5. TypeOK'
  BY <1>1, <1>2, <1>4 DEF TypeOK
<1>6. CountedOnce'
  <2>1. ASSUME NEW j \in Children PROVE Counted(j)' <=> Counted(j)
    BY <1>1, <1>2 DEF Counted, Decisive
  <2>2. {j \in Children : Counted(j)}' = {j \in Children : Counted(j)}
    BY <2>1
  <2> QED
    BY <1>1, <1>2, <1>4, <2>1, <2>2 DEF CountedOnce, LastOne
<1>7. Progress'
  BY <1>1, <1>2 DEF Progress
<1>8. OneDelivers'
  BY <1>1, <1>2, <1>4 DEF OneDelivers, Decisive
<1>9. TasksOrdered' /\ CancelsOthers' /\ (Len(delivered) <= 1)'
  BY <1>2, <1>4 DEF TasksOrdered, CancelsOthers
<1>10. RightResult'
  <2>1. ~Decisive(outcome[i]) => \A j \in Children : ~Decisive(outcome[j])
    BY <1>1 DEF OneDelivers
  <2>2. ~Decisive(outcome[i]) => \A j \in Children : outcome[j] \in Outcomes
    <3>1. ~Decisive(outcome[i]) => \A j \in Children \ {i} : child[j] = "end"
      BY <1>1 DEF CountedOnce, LastOne, Counted
    <3> QED
      BY <3>1, <1>3 DEF Progress, TypeOK
  <2>3. CASE kind = "all"
    <3>1. outcome[i] = "value" => results = Children
      BY <2>1, <2>2, <2>3 DEF Decisive, Progress
    <3> QED
      BY <1>2, <1>4, <2>3, <3>1 DEF RightResult
  <2>4. CASE kind # "all"
    <3>1. outcome[i] # "value" => \A j \in Children : outcome[j] \in {"error", "null"}
      BY <2>1, <2>2, <2>4 DEF Decisive, Outcomes
    <3> QED
      BY <1>2, <1>4, <2>4, <3>1 DEF RightResult
  <2> QED
    BY <2>3, <2>4
<1> QED
  BY <1>5, <1>6, <1>7, <1>8, <1>9, <1>10

\* The one that has delivered schedules the cancellation of the others.
LEMMA ScheduleCancelCore ==
    ASSUME Core, NEW i \in Children, ScheduleTryCancelBeside(i)
    PROVE  Core'
<1> USE DEF Core, ScheduleTryCancelBeside
<1>1. /\ child' \in [Children -> ChildSteps] /\ child'[i] = "count"
      /\ \A j \in Children \ {i} : child'[j] = child[j]
      /\ child[i] = "schedule_cancel"
  BY OthersStay DEF ChildSteps
<1>2. scheduled["cancel"] = 0 /\ "cancel" \in TaskKinds /\ scheduled["delete"] = 0
  BY <1>1 DEF OneDelivers, CountedOnce, TaskKinds, TypeOK
<1>3. /\ TasksOrdered' /\ queue' \in Seq(TaskKinds)
      /\ scheduled' \in [TaskKinds -> {0, 1}] /\ scheduled'["cancel"] = 1
      /\ \A l \in TaskKinds \ {"cancel"} : scheduled'[l] = scheduled[l]
      /\ UNCHANGED <<dropped, current, todo>>
  BY <1>2, ScheduleOrdered
<1>4. /\ scheduled'["delete"] = scheduled["delete"]
      /\ scheduled'["emit"] = scheduled["emit"]
      /\ UNCHANGED <<kind, emitter, outcome, done, results, counter, delivered, cancelled>>
      /\ UNCHANGED <<handles, request, deleting, freed>>
      /\ winner' = i
  BY <1>3 DEF TaskKinds, state
<1>5. TypeOK'
  BY <1>1, <1>3, <1>4 DEF TypeOK, Children
<1>6. CountedOnce'
  <2>1. ASSUME NEW j \in Children PROVE Counted(j)' <=> Counted(j)
    BY <1>1, <1>4 DEF Counted, Decisive
  <2>2. {j \in Children : Counted(j)}' = {j \in Children : Counted(j)}
    BY <2>1
  <2> QED
    BY <1>1, <1>4, <2>1, <2>2 DEF CountedOnce, LastOne
<1>7. Progress'
  BY <1>1, <1>4 DEF Progress
<1>8. OneDelivers'
  BY <1>1, <1>4 DEF OneDelivers, Decisive
<1>9. CancelsOthers'
  BY <1>2, <1>3, <1>4 DEF CancelsOthers
<1>10. (Len(delivered) <= 1)' /\ RightResult'
  BY <1>4 DEF RightResult
<1> QED
  BY <1>3, <1>5, <1>6, <1>7, <1>8, <1>9, <1>10

\* The increment that reaches N is the last one, when all others have returned.
LEMMA IncrementCore ==
    ASSUME Core, NEW i \in Children, Increment(i)
    PROVE  Core'
<1> USE DEF Core, Increment
<1>1. /\ child' \in [Children -> ChildSteps]
      /\ child'[i] = IF counter + 1 # N THEN "end"
                     ELSE IF Decisive(outcome[i]) THEN "schedule_delete" ELSE "check_done"
      /\ \A j \in Children \ {i} : child'[j] = child[j]
      /\ child[i] = "count"
  BY OthersStay DEF ChildSteps
<1>2. /\ UNCHANGED <<kind, emitter, outcome, done, results, winner, cancelled, delivered>>
      /\ UNCHANGED <<queue, dropped, scheduled, current, todo>>
      /\ UNCHANGED <<handles, request, deleting, freed>>
      /\ counter' = counter + 1
  BY DEF serial, state
<1>3. Counted(i)' /\ ~Counted(i) /\ \A j \in Children \ {i} : Counted(j)' <=> Counted(j)
  BY <1>1, <1>2 DEF Counted, Decisive
<1>4. CountedSet' = CountedSet \cup {i} /\ i \notin CountedSet
  BY <1>3 DEF CountedSet
<1>5. /\ Cardinality(CountedSet') = counter + 1 /\ counter = Cardinality(CountedSet)
      /\ counter \in Nat
  BY <1>4, Counts, FS_AddElement DEF CountedOnce, CountedSet
<1>6. /\ Cardinality(CountedSet') <= N
      /\ Cardinality(CountedSet') = N => \A j \in Children : Counted(j)'
  <2>1. Counts'
    BY Counts, PTL
  <2> QED
    BY <2>1
<1>7. counter' \in 0 .. N
  BY <1>2, <1>5, <1>6, ParallelAssumption
<1>8. TypeOK'
  BY <1>1, <1>2, <1>7 DEF TypeOK
<1>9. ASSUME counter + 1 = N
      PROVE  /\ \A j \in Children \ {i} : child[j] = "end"
             /\ Decisive(outcome[i]) => delivered # <<>>
  <2>1. \A j \in Children \ {i} : Counted(j)
    BY <1>3, <1>5, <1>6, <1>9
  <2>2. \A j \in Children \ {i} : child[j] = "end"
    BY <1>1, <2>1 DEF CountedOnce, LastOne
  <2>3. Decisive(outcome[i]) => delivered # <<>>
    BY <1>1, <2>2 DEF OneDelivers
  <2> QED
    BY <2>2, <2>3
<1>10. scheduled["delete"] = 0
  BY <1>1 DEF CountedOnce, TypeOK, TaskKinds
<1>11. CountedOnce'
  <2>1. (counter = Cardinality({j \in Children : Counted(j)}))'
    BY <1>2, <1>5 DEF CountedSet
  <2>2. ASSUME NEW j \in Children, LastOne(j)'
        PROVE  (scheduled["delete"] = 0 /\ \A l \in Children \ {j} : child[l] = "end")'
    <3>1. CASE j = i
      BY <1>1, <1>2, <1>9, <1>10, <2>2, <3>1 DEF LastOne
    <3>2. CASE j # i
      BY <1>1, <1>3, <2>2, <3>2 DEF LastOne, CountedOnce
    <3> QED
      BY <3>1, <3>2
  <2>3. ASSUME NEW j \in Children, child'[j] = "schedule_delete" PROVE delivered' # <<>>
    BY <1>1, <1>2, <1>9, <2>3 DEF CountedOnce
  <2> QED
    BY <1>2, <1>10, <2>1, <2>2, <2>3 DEF CountedOnce
<1>12. Progress'
  BY <1>1, <1>2 DEF Progress
<1>13. OneDelivers'
  BY <1>1, <1>2 DEF OneDelivers, Decisive
<1>14. TasksOrdered' /\ CancelsOthers' /\ (Len(delivered) <= 1)' /\ RightResult'
  BY <1>2 DEF TasksOrdered, CancelsOthers, RightResult
<1> QED
  BY <1>8, <1>11, <1>12, <1>13, <1>14

\* The last child has the connection deleted.
LEMMA ScheduleDeleteCore ==
    ASSUME Core, NEW i \in Children, ScheduleDeleteThis(i)
    PROVE  Core'
<1> USE DEF Core, ScheduleDeleteThis
<1>1. /\ child' \in [Children -> ChildSteps] /\ child'[i] = "end"
      /\ \A j \in Children \ {i} : child'[j] = child[j]
      /\ child[i] = "schedule_delete"
  BY OthersStay DEF ChildSteps
<1>2. /\ scheduled["delete"] = 0 /\ "delete" \in TaskKinds
      /\ \A j \in Children \ {i} : child[j] = "end"
      /\ delivered # <<>>
  BY <1>1 DEF CountedOnce, LastOne, Counted, TaskKinds
<1>3. /\ TasksOrdered' /\ queue' \in Seq(TaskKinds)
      /\ scheduled' \in [TaskKinds -> {0, 1}] /\ scheduled'["delete"] = 1
      /\ \A l \in TaskKinds \ {"delete"} : scheduled'[l] = scheduled[l]
      /\ UNCHANGED <<dropped, current, todo>>
  BY <1>2, ScheduleOrdered
<1>4. /\ scheduled'["cancel"] = scheduled["cancel"]
      /\ scheduled'["emit"] = scheduled["emit"]
      /\ UNCHANGED <<kind, emitter, outcome, done, results, counter, winner>>
      /\ UNCHANGED <<handles, request, deleting, freed, delivered, cancelled>>
  BY <1>3 DEF TaskKinds, state
<1>5. TypeOK'
  BY <1>1, <1>3, <1>4 DEF TypeOK
<1>6. CountedOnce'
  <2>1. ASSUME NEW j \in Children PROVE Counted(j)' <=> Counted(j)
    BY <1>1, <1>4 DEF Counted, Decisive
  <2>2. {j \in Children : Counted(j)}' = {j \in Children : Counted(j)}
    BY <2>1
  <2> QED
    BY <1>1, <1>2, <1>4, <2>2 DEF CountedOnce, LastOne
<1>7. Progress'
  BY <1>1, <1>4 DEF Progress
<1>8. OneDelivers'
  BY <1>1, <1>4 DEF OneDelivers, Decisive
<1>9. CancelsOthers' /\ (Len(delivered) <= 1)' /\ RightResult'
  BY <1>3, <1>4 DEF CancelsOthers, RightResult
<1> QED
  BY <1>3, <1>5, <1>6, <1>7, <1>8, <1>9

-----------------------------------------------------------------------------
\* The tasks.

\* A task leaves what the children keep alone.
LEMMA ConnectionStays ==
    ASSUME Core, UNCHANGED <<conn, scheduled, delivered>>
    PROVE  /\ CountedOnce' /\ Progress' /\ OneDelivers' /\ (Len(delivered) <= 1)' /\ RightResult'
           /\ kind' \in Kinds /\ emitter' \in {"emitting", "emit_impl", "left"}
           /\ child' \in [Children -> ChildSteps]
           /\ outcome' \in [Children -> Outcomes \cup {"none"}]
           /\ results' \subseteq Children /\ counter' \in 0 .. N /\ winner' \in 0 .. N
           /\ scheduled' \in [TaskKinds -> {0, 1}] /\ done' \in BOOLEAN
           /\ delivered' \in Seq(Outcomes)
<1>1. UNCHANGED <<kind, emitter, child, outcome, done, results, counter, winner>>
  BY DEF conn
<1>2. CountedOnce'
  BY <1>1 DEF Core, CountedOnce, LastOne, Counted, Decisive
<1>3. Progress'
  BY <1>1 DEF Core, Progress
<1>4. OneDelivers'
  BY <1>1 DEF Core, OneDelivers, Decisive
<1>5. (Len(delivered) <= 1)' /\ RightResult'
  BY <1>1 DEF Core, RightResult
<1> QED
  BY <1>1, <1>2, <1>3, <1>4, <1>5 DEF Core, TypeOK

\* A task that is taken from the queue had been scheduled; when it is the deletion
\* the cancellation has gone before.
LEMMA PopOrdered ==
    ASSUME TypeOK, TasksOrdered, NEW k \in TaskKinds, Pop(k)
    PROVE  /\ queue' \in Seq(TaskKinds) /\ IsInjective(queue')
           /\ \A l \in ToSet(queue') : scheduled'[l] = 1
           /\ \A m, n \in DOMAIN queue' : queue'[m] = "delete" /\ queue'[n] = "cancel" => n < m
           /\ scheduled'["delete"] = 1 /\ "delete" \notin ToSet(queue') =>
                  "cancel" \notin ToSet(queue')
           /\ k \in ToSet(queue) /\ ToSet(queue') = ToSet(queue) \ {k}
           /\ scheduled[k] = 1
<1>1. queue \in Seq(TaskKinds) /\ IsInjective(queue) /\ queue # <<>> /\ Head(queue) = k
  BY DEF Pop, TypeOK, TasksOrdered
<1>2. /\ queue' \in Seq(TaskKinds) /\ IsInjective(queue')
      /\ k \in ToSet(queue) /\ ToSet(queue') = ToSet(queue) \ {k}
      /\ DOMAIN queue' = 1 .. Len(queue) - 1 /\ DOMAIN queue = 1 .. Len(queue)
      /\ k = queue[1] /\ \A i \in 1 .. Len(queue) - 1 : queue'[i] = queue[i + 1]
      /\ Len(queue) \in Nat \ {0}
  BY <1>1, PoppedQueue DEF Pop
<1>3. scheduled' = scheduled /\ scheduled[k] = 1
  BY <1>2 DEF Pop, TasksOrdered
<1>4. \A m, n \in DOMAIN queue' : queue'[m] = "delete" /\ queue'[n] = "cancel" => n < m
  <2> SUFFICES ASSUME NEW m \in DOMAIN queue', NEW n \in DOMAIN queue',
                      queue'[m] = "delete", queue'[n] = "cancel"
               PROVE  n < m
    OBVIOUS
  <2>1. m + 1 \in DOMAIN queue /\ n + 1 \in DOMAIN queue
    BY <1>2
  <2>2. queue[m + 1] = "delete" /\ queue[n + 1] = "cancel"
    BY <1>2
  <2>3. n + 1 < m + 1
    BY <2>1, <2>2 DEF TasksOrdered
  <2> QED
    BY <1>2, <2>3
<1>5. k = "delete" => "cancel" \notin ToSet(queue)
  <2> SUFFICES ASSUME k = "delete", NEW n \in DOMAIN queue, queue[n] = "cancel" PROVE FALSE
    BY DEF ToSet
  <2>1. 1 \in DOMAIN queue /\ queue[1] = "delete"
    BY <1>2
  <2>2. n < 1
    BY <2>1 DEF TasksOrdered
  <2> QED
    BY <1>2, <2>2
<1>6. scheduled["delete"] = 1 /\ "delete" \notin ToSet(queue') => "cancel" \notin ToSet(queue')
  BY <1>2, <1>5 DEF TasksOrdered
<1> QED
  BY <1>2, <1>3, <1>4, <1>6 DEF TasksOrdered

\* The handles arrive: a cancellation that was asked for begins now.
LEMMA SerializedEmitCore == ASSUME Core, SerializedEmit PROVE Core'
<1> USE DEF Core, SerializedEmit, Start
<1>1. Pop("emit") /\ "emit" \in TaskKinds
  BY DEF TaskKinds
<1>2. UNCHANGED <<conn, scheduled, delivered, cancelled, winner>>
  BY DEF Pop, conn
<1>3. UNCHANGED <<dropped, deleting, freed>> /\ handles' = TRUE /\ request' = FALSE
  OBVIOUS
<1>4. "emit" \in ToSet(queue) /\ scheduled["emit"] = 1
  BY <1>1, PopOrdered
<1>5. ~handles /\ ~freed
  BY <1>4 DEF TasksOrdered
<1>6. todo' \subseteq Children \ {winner} /\ (todo' # {} => scheduled["cancel"] = 1)
  BY DEF Beside, TasksOrdered
<1>7. TypeOK'
  BY <1>1, <1>2, <1>3, <1>6, ConnectionStays, PopOrdered DEF TypeOK
<1>8. TasksOrdered'
  BY <1>1, <1>2, <1>3, <1>4, <1>5, PopOrdered DEF TasksOrdered
<1>9. CancelsOthers'
  BY <1>2, <1>3, <1>5, <1>6 DEF CancelsOthers
<1> QED
  BY <1>2, <1>7, <1>8, <1>9, ConnectionStays

\* The cancellation begins, or waits for the handles.
LEMMA SerializedTryCancelCore == ASSUME Core, SerializedTryCancelBeside PROVE Core'
<1> USE DEF Core, SerializedTryCancelBeside, Start
<1>1. Pop("cancel") /\ "cancel" \in TaskKinds
  BY DEF TaskKinds
<1>2. UNCHANGED <<conn, scheduled, delivered, cancelled, winner>>
  BY DEF Pop, conn
<1>3. /\ UNCHANGED <<dropped, handles, deleting, freed>> /\ request' = (request \/ ~handles)
      /\ current' = "cancel"
  OBVIOUS
<1>4. "cancel" \in ToSet(queue) /\ scheduled["cancel"] = 1
  BY <1>1, PopOrdered
<1>5. ~freed
  BY <1>4 DEF TasksOrdered
<1>6. todo' \subseteq Children \ {winner} /\ (todo' # {} => handles)
  BY DEF Beside
<1>7. TypeOK'
  BY <1>1, <1>2, <1>3, <1>6, ConnectionStays, PopOrdered DEF TypeOK, TaskKinds
<1>8. TasksOrdered'
  BY <1>1, <1>2, <1>3, <1>4, <1>5, PopOrdered DEF TasksOrdered, TypeOK
<1>9. CancelsOthers'
  BY <1>2, <1>3, <1>4, <1>6 DEF CancelsOthers
<1> QED
  BY <1>2, <1>7, <1>8, <1>9, ConnectionStays

\* The deletion happens, or waits for the handles.
LEMMA SerializedDeleteCore == ASSUME Core, SerializedDeleteThis PROVE Core'
<1> USE DEF Core, SerializedDeleteThis, Start
<1>1. Pop("delete") /\ "delete" \in TaskKinds
  BY DEF TaskKinds
<1>2. UNCHANGED <<conn, scheduled, delivered, cancelled, winner>>
  BY DEF Pop, conn
<1>3. /\ UNCHANGED <<dropped, handles, request, todo>> /\ freed' = handles
      /\ deleting' = ~handles /\ current' = "delete" /\ current = "none"
  BY DEF Pop
<1>4. "delete" \in ToSet(queue) /\ scheduled["delete"] = 1 /\ todo = {}
  BY <1>1, <1>3, PopOrdered DEF TasksOrdered
<1>5. TypeOK'
  BY <1>1, <1>2, <1>3, ConnectionStays, PopOrdered DEF TypeOK
<1>6. TasksOrdered'
  BY <1>1, <1>2, <1>3, <1>4, PopOrdered DEF TasksOrdered
<1>7. CancelsOthers'
  BY <1>2, <1>3 DEF CancelsOthers
<1> QED
  BY <1>2, <1>5, <1>6, <1>7, ConnectionStays

\* A stopped executor takes a task away that does nothing.
LEMMA CancelTaskCore == ASSUME Core, NEW k \in TaskKinds, CancelTask(k) PROVE Core'
<1> USE DEF Core, CancelTask
<1>1. UNCHANGED <<conn, scheduled, delivered, cancelled, winner>>
  BY DEF Pop, conn
<1>2. UNCHANGED <<handles, request, deleting, freed, current, todo>> /\ dropped' = TRUE
  BY DEF state
<1>3. TypeOK'
  BY <1>1, <1>2, ConnectionStays, PopOrdered DEF TypeOK
<1>4. TasksOrdered'
  BY <1>1, <1>2, PopOrdered DEF TasksOrdered
<1>5. CancelsOthers'
  BY <1>1, <1>2 DEF CancelsOthers
<1> QED
  BY <1>1, <1>3, <1>4, <1>5, ConnectionStays

\* A task goes on and returns.
LEMMA RunningCore ==
    ASSUME Core, Finish \/ \E i \in Children : TryCancel(i)
    PROVE  Core'
<1> USE DEF Core
<1>1. ASSUME NEW i \in Children, TryCancel(i) PROVE Core'
  <2> USE <1>1 DEF TryCancel
  <2>1. /\ UNCHANGED <<conn, scheduled, delivered, queue, dropped, current, winner>>
        /\ UNCHANGED <<handles, request, deleting, freed>>
    BY DEF state, conn
  <2>2. TypeOK'
    BY <2>1, ConnectionStays DEF TypeOK
  <2>3. TasksOrdered'
    BY <2>1 DEF TasksOrdered
  <2>4. CancelsOthers'
    BY <2>1 DEF CancelsOthers
  <2> QED
    BY <2>1, <2>2, <2>3, <2>4, ConnectionStays
<1>2. ASSUME Finish PROVE Core'
  <2> USE <1>2 DEF Finish
  <2>1. /\ UNCHANGED <<conn, scheduled, delivered, queue, dropped, todo, winner, cancelled>>
        /\ UNCHANGED <<handles, request, deleting>> /\ todo = {} /\ current' = "none"
        /\ freed' = (freed \/ (current = "emit" /\ deleting))
    BY DEF conn
  <2>2. TypeOK'
    BY <2>1, ConnectionStays DEF TypeOK
  <2>3. TasksOrdered'
    <3>1. deleting \/ freed' => scheduled["delete"] = 1 /\ "delete" \notin ToSet(queue)
      BY <2>1 DEF TasksOrdered
    <3>2. freed' => handles
      BY <2>1 DEF TasksOrdered
    <3> QED
      BY <2>1, <3>1, <3>2 DEF TasksOrdered
  <2>4. CancelsOthers'
    BY <2>1 DEF CancelsOthers
  <2> QED
    BY <2>1, <2>2, <2>3, <2>4, ConnectionStays
<1> QED
  BY <1>1, <1>2

-----------------------------------------------------------------------------

\* Every step of the emitter, of the children and of the tasks preserves the core.
LEMMA NextCore == Core /\ [Next]_vars => Core'
<1> SUFFICES ASSUME Core, [Next]_vars PROVE Core'
  OBVIOUS
<1>1. ASSUME NEW i \in Children, Completes(i) \/ Handler(i) PROVE Core'
  BY <1>1, CompleteCore, SkipDoneCore, CheckDoneCore, DeliverCore, ScheduleCancelCore,
     IncrementCore, ScheduleDeleteCore DEF Completes, Handler
<1>2. ASSUME Serial PROVE Core'
  BY <1>2, SerializedEmitCore, SerializedTryCancelCore, SerializedDeleteCore, RunningCore
     DEF Serial
<1>3. ASSUME UNCHANGED vars PROVE Core'
  <2>1. /\ UNCHANGED <<conn, scheduled, delivered, queue, dropped, current, todo, cancelled>>
        /\ UNCHANGED <<handles, request, deleting, freed, winner>>
    BY <1>3 DEF vars, serial, state, conn
  <2>2. TypeOK' /\ TasksOrdered' /\ CancelsOthers'
    BY <2>1, ConnectionStays DEF Core, TypeOK, TasksOrdered, CancelsOthers
  <2> QED
    BY <2>1, <2>2, ConnectionStays DEF Core
<1> QED
  BY <1>1, <1>2, <1>3, EmitterCore, CancelTaskCore DEF Next, Stopped

\* What the core says once the connection is deleted, and while it cancels.
LEMMA CoreProperties == Core => Inv /\ NoUseAfterFree /\ CancelInTime
<1> SUFFICES ASSUME Core PROVE Inv /\ NoUseAfterFree /\ CancelInTime
  OBVIOUS
<1>0. \A n \in Nat : n <= 1 /\ n # 0 => n = 1
  OBVIOUS
<1> USE DEF Core
<1>1. ASSUME freed
      PROVE  /\ emitter = "left" /\ \A i \in Children : child[i] = "end"
             /\ delivered # <<>> /\ todo = {} /\ ~request
             /\ \A k \in TaskKinds : k \notin ToSet(queue)
  BY <1>1 DEF TasksOrdered, CountedOnce, Progress, TaskKinds
<1>2. DeliveredOnce
  <2>1. /\ Len(delivered) \in Nat /\ Len(delivered) <= 1
        /\ delivered # <<>> => Len(delivered) # 0
    BY DEF TypeOK
  <2>2. delivered # <<>> => Len(delivered) = 1
    BY <1>0, <2>1, Zenon
  <2> QED
    BY <1>1, <2>2 DEF DeliveredOnce
<1>3. NoUseAfterFree
  <2>1. (\A k \in TaskKinds : k \notin ToSet(queue)) => queue = <<>>
    <3>1. queue # <<>> => Head(queue) \in TaskKinds /\ Head(queue) \in ToSet(queue)
      BY PoppedQueue DEF TypeOK, TasksOrdered
    <3> QED
      BY <3>1
  <2> QED
    BY <1>1, <2>1 DEF NoUseAfterFree
<1>4. CancelInTime
  BY DEF CancelInTime, CancelsOthers, TasksOrdered, Progress
<1> QED
  BY <1>2, <1>3, <1>4 DEF Inv

\* The slot of any, all or select is completed at most once, exactly once when
\* the connection is deleted, and with a result that is right for all children,
\* however many there are (any.hpp:74, all.hpp:87, select.hpp:135).
THEOREM ParallelInvariance == Spec => []Inv
<1>1. Init => Core
  BY InitCore
<1>2. Core /\ [Next]_vars => Core'
  BY NextCore
<1>3. Core => Inv
  BY CoreProperties
<1> QED
  BY <1>1, <1>2, <1>3, PTL DEF Spec

\* No thread, child or task uses the connection after delete_this_(), although it
\* is deleted by whichever of emit and the deletion comes second (parallel.hpp:130-190).
THEOREM NobodyUsesFreed == Spec => []NoUseAfterFree
<1>1. Init => Core
  BY InitCore
<1>2. Core /\ [Next]_vars => Core'
  BY NextCore
<1>3. Core => NoUseAfterFree
  BY CoreProperties
<1> QED
  BY <1>1, <1>2, <1>3, PTL DEF Spec

\* No handle is told to cancel before all are there, and the winner never is
\* (parallel.hpp:125-180).
THEOREM CancelsInTime == Spec => []CancelInTime
<1>1. Init => Core
  BY InitCore
<1>2. Core /\ [Next]_vars => Core'
  BY NextCore
<1>3. Core => CancelInTime
  BY CoreProperties
<1> QED
  BY <1>1, <1>2, <1>3, PTL DEF Spec

=============================================================================
