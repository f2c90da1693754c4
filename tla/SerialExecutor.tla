--------------------------- MODULE SerialExecutor ---------------------------
(***************************************************************************)
(* algo/sync/serial.hpp: an executor that serialises the tasks scheduled   *)
(* on it over another executor.  schedule() pushes the task on a lock-free *)
(* stack and then counts it in work_; whoever moves work_ from 0 schedules *)
(* the single intrusive node task_ on the inner executor.  Executing task_ *)
(* takes the whole stack, executes it oldest first, subtracts the size of  *)
(* the batch from work_ and schedules task_ again when more was counted.   *)
(*                                                                         *)
(* The push and the count are two steps, so a batch may hold tasks that    *)
(* are not counted yet and the unsigned work_ may wrap below zero.         *)
(*                                                                         *)
(* Every thread can schedule, and can be the one on which the inner        *)
(* executor executes or cancels task_.  A thread in the body of a task may *)
(* schedule more tasks.                                                    *)
(***************************************************************************)
EXTENDS Integers, Sequences, SequencesExt, FiniteSets

CONSTANTS Threads,
          Tasks,           \* the task nodes, each in at most one list at a time
          Modulus,         \* 2^32 for the std::uint32_t work_
          MaxOutstanding,  \* bound on the tasks pushed and not yet subtracted
          NoTask

ASSUME SerialAssumption ==
    /\ IsFiniteSet(Threads)
    /\ NoTask \notin Tasks
    /\ Modulus \in Nat
    /\ MaxOutstanding \in Nat
    /\ MaxOutstanding < Modulus
    /\ Cardinality(Threads) < Modulus

VARIABLES
    batch,    \* batch_: the stack, oldest first (execute() reverses the list)
    work,     \* work_
    inner,    \* how many times task_ is in the queue of the inner executor
    call,     \* call[th]: where th is in schedule()
    run,      \* run[th]: where th is in execute() or stop()
    mode,     \* mode[th]: "execute" for task_.execute(), "cancel" for stop()
    list,     \* list[th]: what is left of the batch th has extracted
    size,     \* size[th]: batch_size, the tasks taken from that batch so far
    cur       \* cur[th]: the task whose execute() or cancel() th is in

vars == <<batch, work, inner, call, run, mode, list, size, cur>>

Init ==
    /\ batch = <<>>
    /\ work = 0
    /\ inner = 0
    /\ call = [th \in Threads |-> "idle"]
    /\ run = [th \in Threads |-> "idle"]
    /\ mode = [th \in Threads |-> "execute"]
    /\ list = [th \in Threads |-> <<>>]
    /\ size = [th \in Threads |-> 0]
    /\ cur = [th \in Threads |-> NoTask]

\* Unsigned arithmetic of work_.
FetchAdd(w) == IF w + 1 = Modulus THEN 0 ELSE w + 1

FetchSub(w, n) == IF w >= n THEN w - n ELSE (w - n) + Modulus

-----------------------------------------------------------------------------
\* schedule(): batch_.push, then work_.fetch_add, then executor_.schedule(task_).

Linked(t) == t \in ToSet(batch) \/ \E th \in Threads : t \in ToSet(list[th])

Push(th, t) ==
    /\ call[th] = "idle"
    /\ run[th] \in {"idle", "body"}
    /\ ~Linked(t)
    /\ \A u \in Threads : Len(batch) + Len(list[u]) + size[u] < MaxOutstanding
    /\ batch' = Append(batch, t)
    /\ call' = [call EXCEPT ![th] = "add"]
    /\ UNCHANGED <<work, inner, run, mode, list, size, cur>>

Add(th) ==
    /\ call[th] = "add"
    /\ work' = FetchAdd(work)
    /\ call' = [call EXCEPT ![th] = IF work = 0 THEN "sched" ELSE "idle"]
    /\ UNCHANGED <<batch, inner, run, mode, list, size, cur>>

ScheduleInner(th) ==
    /\ call[th] = "sched"
    /\ inner' = inner + 1
    /\ call' = [call EXCEPT ![th] = "idle"]
    /\ UNCHANGED <<batch, work, run, mode, list, size, cur>>

-----------------------------------------------------------------------------
\* task_.execute(), task_.cancel() and stop().

Enter(th, m) ==
    /\ call[th] = "idle"
    /\ run[th] = "idle"
    /\ run' = [run EXCEPT ![th] = "extract"]
    /\ mode' = [mode EXCEPT ![th] = m]
    /\ UNCHANGED <<batch, work, call, list, size, cur>>

\* The inner executor executes task_, or cancels it when it is stopped.
Execute(th) ==
    /\ inner > 0
    /\ inner' = inner - 1
    /\ Enter(th, "execute")

Cancel(th) ==
    /\ inner > 0
    /\ inner' = inner - 1
    /\ Enter(th, "cancel")

\* Mutant: the batch is counted off before it is executed.
ExtractAndSubtract(th) ==
    /\ run[th] = "extract"
    /\ list' = [list EXCEPT ![th] = batch]
    /\ batch' = <<>>
    /\ work' = FetchSub(work, Len(batch))
    /\ run' = [run EXCEPT ![th] = "batch"]
    /\ UNCHANGED <<inner, call, mode, size, cur>>

Extract(th) ==
    /\ run[th] = "extract"
    /\ list' = [list EXCEPT ![th] = batch]
    /\ batch' = <<>>
    /\ run' = [run EXCEPT ![th] = "batch"]
    /\ UNCHANGED <<work, inner, call, mode, size, cur>>

\* Mutant: the extracted list is walked without reversing it.
StartTaskNewestFirst(th) ==
    /\ run[th] = "batch"
    /\ list[th] # <<>>
    /\ cur' = [cur EXCEPT ![th] = Last(list[th])]
    /\ list' = [list EXCEPT ![th] = Front(@)]
    /\ size' = [size EXCEPT ![th] = @ + 1]
    /\ run' = [run EXCEPT ![th] = "body"]
    /\ UNCHANGED <<batch, work, inner, call, mode>>

StartTask(th) ==
    /\ run[th] = "batch"
    /\ list[th] # <<>>
    /\ cur' = [cur EXCEPT ![th] = Head(list[th])]
    /\ list' = [list EXCEPT ![th] = Tail(@)]
    /\ size' = [size EXCEPT ![th] = @ + 1]
    /\ run' = [run EXCEPT ![th] = "body"]
    /\ UNCHANGED <<batch, work, inner, call, mode>>

FinishTask(th) ==
    /\ run[th] = "body"
    /\ call[th] = "idle"
    /\ cur' = [cur EXCEPT ![th] = NoTask]
    /\ run' = [run EXCEPT ![th] = "batch"]
    /\ UNCHANGED <<batch, work, inner, call, mode, list, size>>

\* Mutant: the comparison after the batch is >= instead of >.
SubtractOffByOne(th) ==
    /\ run[th] = "batch"
    /\ list[th] = <<>>
    /\ work' = FetchSub(work, size[th])
    /\ run' = [run EXCEPT ![th] =
                   IF work >= size[th]
                   THEN IF mode[th] = "execute" THEN "resched" ELSE "extract"
                   ELSE "idle"]
    /\ size' = [size EXCEPT ![th] = 0]
    /\ UNCHANGED <<batch, inner, call, mode, list, cur>>

\* Mutant: task_ is not scheduled again after the batch.
SubtractAndLeave(th) ==
    /\ run[th] = "batch"
    /\ list[th] = <<>>
    /\ work' = FetchSub(work, size[th])
    /\ run' = [run EXCEPT ![th] = "idle"]
    /\ size' = [size EXCEPT ![th] = 0]
    /\ UNCHANGED <<batch, inner, call, mode, list, cur>>

\* After the batch: execute() hands task_ back to the inner executor while more
\* was counted than executed, stop() calls itself again.
Subtract(th) ==
    /\ run[th] = "batch"
    /\ list[th] = <<>>
    /\ work' = FetchSub(work, size[th])
    /\ run' = [run EXCEPT ![th] =
                   IF work > size[th]
                   THEN IF mode[th] = "execute" THEN "resched" ELSE "extract"
                   ELSE "idle"]
    /\ size' = [size EXCEPT ![th] = 0]
    /\ UNCHANGED <<batch, inner, call, mode, list, cur>>

Reschedule(th) ==
    /\ run[th] = "resched"
    /\ inner' = inner + 1
    /\ run' = [run EXCEPT ![th] = "idle"]
    /\ UNCHANGED <<batch, work, call, mode, list, size, cur>>

-----------------------------------------------------------------------------

Step(th) ==
    \/ Add(th)
    \/ ScheduleInner(th)
    \/ Extract(th)
    \/ StartTask(th)
    \/ FinishTask(th)
    \/ Subtract(th)
    \/ Reschedule(th)

RunInner == \E th \in Threads : Execute(th) \/ Cancel(th)

Next ==
    \/ \E th \in Threads, t \in Tasks : Push(th, t)
    \/ \E th \in Threads : Step(th)
    \/ RunInner

\* Threads keep running, bodies of tasks end, and the inner executor executes
\* or cancels what is scheduled on it.  Nobody has to schedule.
Fairness ==
    /\ \A th \in Threads : WF_vars(Step(th))
    /\ WF_vars(RunInner)

Spec == Init /\ [][Next]_vars /\ Fairness

-----------------------------------------------------------------------------
\* Properties

\* Types; work_ stays within its width (serial.hpp:81) although a batch may be
\* subtracted before it was added.
TypeOK ==
    /\ batch \in Seq(Tasks)
    /\ work \in 0 .. Modulus - 1
    /\ inner \in Nat
    /\ call \in [Threads -> {"idle", "add", "sched"}]
    /\ run \in [Threads -> {"idle", "extract", "batch", "body", "resched"}]
    /\ mode \in [Threads -> {"execute", "cancel"}]
    /\ list \in [Threads -> Seq(Tasks)]
    /\ size \in [Threads -> Nat]
    /\ cur \in [Threads -> Tasks \cup {NoTask}]

\* A thread holds the token from the moment it must schedule task_ until it has
\* done so, and while it executes task_.
Holds(th) == call[th] = "sched" \/ run[th] # "idle"

\* task_ is a single intrusive node (serial.hpp:53, 37): it is never in the
\* inner executor twice, nor in it while some thread is still executing it or
\* about to schedule it.  This is what makes the tasks serial.
OneToken ==
    /\ \A th, u \in Threads : Holds(th) /\ Holds(u) => th = u
    /\ inner <= 1
    /\ inner = 1 => \A th \in Threads : ~Holds(th)

\* schedule() from the body of a task never schedules task_ itself, so over an
\* inline executor no task ever runs inside another one.
NoNesting == \A th \in Threads : ~(run[th] # "idle" /\ call[th] = "sched")

\* DEBUG_ASSERT(head != nullptr), serial.hpp:25 and :60.
BatchNotEmpty == \A th \in Threads : run[th] = "extract" => batch # <<>>

\* No task is left behind: once every thread is out of schedule() and
\* execute() and task_ is not in the inner executor, nothing is pushed and the
\* counter is back at zero, however it wrapped on the way.
NothingLost ==
    (inner = 0 /\ \A th \in Threads : call[th] = "idle" /\ run[th] = "idle")
        => batch = <<>> /\ work = 0

\* Every task pushed is eventually executed (or cancelled by a stopped inner
\* executor), also when the push is not counted yet.
EventuallyTaken ==
    \A t \in Tasks : Linked(t) ~> \E th \in Threads : cur[th] = t

\* The thread that walks an extracted batch, if there is one.
Active(th) == run[th] \in {"batch", "body"}
Runner == CHOOSE th \in Threads : Active(th)

\* work_ without its width: what is pushed and not yet subtracted, less what is
\* pushed and not yet added.
Adding == {th \in Threads : call[th] = "add"}
InBatch == IF \E th \in Threads : Active(th)
           THEN size[Runner] + Len(list[Runner]) ELSE 0
Balance == Len(batch) + InBatch - Cardinality(Adding)

\* work_ is the balance, shifted by 2^32 while a batch has executed tasks that
\* their threads have not added yet (serial.hpp:35, 51), and the token exists
\* exactly while the balance is positive.
CounterExact ==
    /\ work = IF Balance >= 0 THEN Balance ELSE Balance + Modulus
    /\ (inner = 1 \/ \E th \in Threads : Holds(th)) <=> Balance >= 1

\* The executor implements SerialSpec: one task at a time, in push order.
Pending == IF \E th \in Threads : Active(th) THEN list[Runner] \o batch ELSE batch
Current == IF \E th \in Threads : Active(th) THEN cur[Runner] ELSE NoTask

Abstract == INSTANCE SerialSpec WITH pending <- Pending, current <- Current

Refinement == Abstract!Spec

-----------------------------------------------------------------------------
\* The inductive invariant of the proofs in SerialExecutorProofs.

IdleThread ==
    \A th \in Threads :
        /\ ~Active(th) => list[th] = <<>> /\ size[th] = 0
        /\ run[th] # "body" => cur[th] = NoTask
        /\ run[th] = "body" => cur[th] \in Tasks

IInv ==
    /\ TypeOK
    /\ OneToken
    /\ NoNesting
    /\ IdleThread
    /\ Len(batch) + InBatch <= MaxOutstanding
    /\ CounterExact

=============================================================================
