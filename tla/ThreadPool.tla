----------------------------- MODULE ThreadPool -----------------------------
(***************************************************************************)
(* thread/pool/monolithic.hpp over thread/detail/unbound_blocking_queue    *)
(* and thread/sync/wait_group.hpp.  Every task has a thread that schedules *)
(* it; the workers pop and execute; one thread may call stop() and one     *)
(* calls wait_idle().  A push, a pop and a close are one step each: they   *)
(* hold the mutex of the queue throughout, except while they sleep.        *)
(***************************************************************************)
EXTENDS Integers, Sequences, SequencesExt, FiniteSets

CONSTANTS Workers, Tasks, NoTask

ASSUME PoolAssumption ==
    /\ IsFiniteSet(Workers) /\ Workers # {}
    /\ IsFiniteSet(Tasks)
    /\ NoTask \notin Tasks

VARIABLES
    q,        \* the tasks in the queue
    closed,   \* is_closed_ of the queue
    asleep,   \* the workers that sleep on the condition variable
    work,     \* work_ of the wait group
    task,     \* task[t]: "new", "added", "queued", "refused", "taken" or "done"
    worker,   \* worker[w]: "pop", "execute", "done", "notify" or "exit"
    current,  \* current[w]: the task it has popped, or NoTask
    stopper,  \* the thread that calls stop(): "idle", "join" or "stopped"
    waiter,   \* the thread in wait_idle(): "load", "wait", "asleep" or "returned"
    seen      \* the count it has loaded

vars == <<q, closed, asleep, work, task, worker, current, stopper, waiter, seen>>

Init ==
    /\ q = <<>>
    /\ closed = FALSE
    /\ asleep = {}
    /\ work = 0
    /\ task = [t \in Tasks |-> "new"]
    /\ worker = [w \in Workers |-> "pop"]
    /\ current = [w \in Workers |-> NoTask]
    /\ stopper = "idle"
    /\ waiter = "load"
    /\ seen = 0

-----------------------------------------------------------------------------
\* schedule(): first the wait group, then the queue.

Add(t) ==
    /\ task[t] = "new"
    /\ task' = [task EXCEPT ![t] = "added"]
    /\ work' = work + 1
    /\ UNCHANGED <<q, closed, asleep, worker, current, stopper, waiter, seen>>

\* notify_one wakes any one of the sleepers, if there are any.
NotifyOne == IF asleep = {} THEN UNCHANGED asleep
             ELSE \E w \in asleep : asleep' = asleep \ {w}

\* Mutant: the condition for the notification is inverted.
PushNotifiesLater(t) ==
    /\ task[t] = "added"
    /\ ~closed
    /\ q' = Append(q, t)
    /\ task' = [task EXCEPT ![t] = "queued"]
    /\ IF q = <<>> THEN UNCHANGED asleep ELSE NotifyOne
    /\ UNCHANGED <<closed, work, worker, current, stopper, waiter, seen>>

\* A worker is only woken for the first task of a batch.
Push(t) ==
    /\ task[t] = "added"
    /\ ~closed
    /\ q' = Append(q, t)
    /\ task' = [task EXCEPT ![t] = "queued"]
    /\ IF q = <<>> THEN NotifyOne ELSE UNCHANGED asleep
    /\ UNCHANGED <<closed, work, worker, current, stopper, waiter, seen>>

\* schedule() does not look at what push() returned.
PushRefused(t) ==
    /\ task[t] = "added"
    /\ closed
    /\ task' = [task EXCEPT ![t] = "refused"]
    /\ UNCHANGED <<q, closed, asleep, work, worker, current, stopper, waiter, seen>>

-----------------------------------------------------------------------------
\* worker_job()

Awake(w) == worker[w] = "pop" /\ w \notin asleep

Pop(w) ==
    /\ Awake(w)
    /\ q # <<>>
    /\ q' = Tail(q)
    /\ task' = [task EXCEPT ![Head(q)] = "taken"]
    /\ current' = [current EXCEPT ![w] = Head(q)]
    /\ worker' = [worker EXCEPT ![w] = "execute"]
    /\ UNCHANGED <<closed, asleep, work, stopper, waiter, seen>>

WaitForTask(w) ==
    /\ Awake(w)
    /\ q = <<>>
    /\ ~closed
    /\ asleep' = asleep \cup {w}
    /\ UNCHANGED <<q, closed, work, task, worker, current, stopper, waiter, seen>>

\* Mutant: a closed queue is left as it is.
ExitAtOnce(w) ==
    /\ Awake(w)
    /\ closed
    /\ worker' = [worker EXCEPT ![w] = "exit"]
    /\ UNCHANGED <<q, closed, asleep, work, task, current, stopper, waiter, seen>>

Exit(w) ==
    /\ Awake(w)
    /\ q = <<>>
    /\ closed
    /\ worker' = [worker EXCEPT ![w] = "exit"]
    /\ UNCHANGED <<q, closed, asleep, work, task, current, stopper, waiter, seen>>

WakeSpuriously(w) ==
    /\ w \in asleep
    /\ asleep' = asleep \ {w}
    /\ UNCHANGED <<q, closed, work, task, worker, current, stopper, waiter, seen>>

Execute(w) ==
    /\ worker[w] = "execute"
    /\ task' = [task EXCEPT ![current[w]] = "done"]
    /\ worker' = [worker EXCEPT ![w] = "done"]
    /\ UNCHANGED <<q, closed, asleep, work, current, stopper, waiter, seen>>

\* Mutant: off by one, the last task notifies nobody.
DoneOffByOne(w) ==
    /\ worker[w] = "done"
    /\ work' = work - 1
    /\ worker' = [worker EXCEPT ![w] = IF work = 0 THEN "notify" ELSE "pop"]
    /\ current' = [current EXCEPT ![w] = NoTask]
    /\ UNCHANGED <<q, closed, asleep, task, stopper, waiter, seen>>

\* wait_group::done(): only who takes the count to zero notifies, afterwards.
Done(w) ==
    /\ worker[w] = "done"
    /\ work' = work - 1
    /\ worker' = [worker EXCEPT ![w] = IF work = 1 THEN "notify" ELSE "pop"]
    /\ current' = [current EXCEPT ![w] = NoTask]
    /\ UNCHANGED <<q, closed, asleep, task, stopper, waiter, seen>>

NotifyAll(w) ==
    /\ worker[w] = "notify"
    /\ worker' = [worker EXCEPT ![w] = "pop"]
    /\ waiter' = IF waiter = "asleep" THEN "load" ELSE waiter
    /\ UNCHANGED <<q, closed, asleep, work, task, current, stopper, seen>>

-----------------------------------------------------------------------------
\* stop() and wait_idle()

\* Mutant: only one of the sleepers is woken.
StopNotifiesOne ==
    /\ stopper = "idle"
    /\ stopper' = "join"
    /\ closed' = TRUE
    /\ NotifyOne
    /\ UNCHANGED <<q, work, task, worker, current, waiter, seen>>

Stop ==
    /\ stopper = "idle"
    /\ stopper' = "join"
    /\ closed' = TRUE
    /\ asleep' = {}
    /\ UNCHANGED <<q, work, task, worker, current, waiter, seen>>

Join ==
    /\ stopper = "join"
    /\ \A w \in Workers : worker[w] = "exit"
    /\ stopper' = "stopped"
    /\ UNCHANGED <<q, closed, asleep, work, task, worker, current, waiter, seen>>

LoadWork ==
    /\ waiter = "load"
    /\ waiter' = IF work = 0 THEN "returned" ELSE "wait"
    /\ seen' = work
    /\ UNCHANGED <<q, closed, asleep, work, task, worker, current, stopper>>

\* atomic::wait(seen) sleeps only if the count still is what was seen.
WaitWork ==
    /\ waiter = "wait"
    /\ waiter' = IF work = seen THEN "asleep" ELSE "load"
    /\ UNCHANGED <<q, closed, asleep, work, task, worker, current, stopper, seen>>

-----------------------------------------------------------------------------

Schedule(t) == Add(t) \/ Push(t) \/ PushRefused(t)

WorkerJob(w) ==
    \/ Pop(w) \/ WaitForTask(w) \/ Exit(w)
    \/ Execute(w) \/ Done(w) \/ NotifyAll(w)

WaitIdle == LoadWork \/ WaitWork

Next ==
    \/ \E t \in Tasks : Schedule(t)
    \/ \E w \in Workers : WorkerJob(w) \/ WakeSpuriously(w)
    \/ Stop
    \/ Join
    \/ WaitIdle

\* A schedule() that has begun ends, tasks end, awake threads run; nobody has to
\* schedule or to stop, and no sleeper has to wake by itself.
Fairness ==
    /\ \A t \in Tasks : WF_vars(Push(t) \/ PushRefused(t))
    /\ \A w \in Workers : WF_vars(WorkerJob(w))
    /\ WF_vars(Join)
    /\ WF_vars(WaitIdle)

Spec == Init /\ [][Next]_vars /\ Fairness

-----------------------------------------------------------------------------
\* Properties

Unfinished == {t \in Tasks : task[t] \notin {"new", "done"}}
Finishing == {w \in Workers : worker[w] = "done"}

\* Types; the queue holds the queued tasks, each once, and sleepers are popping.
TypeOK ==
    /\ q \in Seq(Tasks) /\ IsInjective(q)
    /\ ToSet(q) = {t \in Tasks : task[t] = "queued"}
    /\ closed \in BOOLEAN
    /\ asleep \subseteq {w \in Workers : worker[w] = "pop"}
    /\ task \in [Tasks -> {"new", "added", "queued", "refused", "taken", "done"}]
    /\ worker \in [Workers -> {"pop", "execute", "done", "notify", "exit"}]
    /\ current \in [Workers -> Tasks \cup {NoTask}]
    /\ stopper \in {"idle", "join", "stopped"}
    /\ waiter \in {"load", "wait", "asleep", "returned"}
    /\ work \in Nat /\ seen \in Nat

\* The wait group counts exactly the tasks that were added and are not done, with
\* the workers that have yet to tell it (monolithic.hpp:41, 58).
CountExact == work = Cardinality(Unfinished) + Cardinality(Finishing)

\* A task that has left the queue is in the hands of one worker.
Taken ==
    /\ \A t \in Tasks :
           task[t] = "taken" => \E w \in Workers : worker[w] = "execute" /\ current[w] = t
    /\ \A w \in Workers :
           worker[w] = "execute" => current[w] \in Tasks /\ task[current[w]] = "taken"
    /\ \A w, u \in Workers :
           worker[w] = "execute" /\ worker[u] = "execute" /\ current[w] = current[u] => w = u

\* A worker leaves only a closed and empty queue, and stop() waits for all.
Leaving ==
    /\ stopper # "idle" <=> closed
    /\ \A w \in Workers : worker[w] = "exit" => closed /\ q = <<>>
    /\ stopper = "stopped" => \A w \in Workers : worker[w] = "exit"

\* Nobody sleeps through what it waits for: while a task is queued some worker is
\* awake although only the first push notified one, after close() all are, and
\* a wait_idle() that sleeps on a count that has become zero is about to be woken
\* (unbound_blocking_queue.hpp:27, 45, wait_group.hpp:19, 29).
NoLostWakeup ==
    /\ q # <<>> => asleep # Workers
    /\ closed => asleep = {}
    /\ waiter = "wait" => seen # 0
    /\ waiter = "asleep" /\ work = 0 => \E w \in Workers : worker[w] = "notify"

\* wait_idle() is right to return on a zero: nothing is queued or executing then.
IdleMeansDone ==
    work = 0 => \A t \in Tasks : task[t] \in {"new", "done"}

\* stop() returns with every accepted task executed: closing the queue does not
\* empty it.
StopDrains ==
    stopper = "stopped" => \A t \in Tasks : task[t] \in {"new", "added", "refused", "done"}

\* Queue, wait group and workers agree, so that neither wait_idle() nor stop()
\* returns while an accepted task is left (monolithic.hpp:41-60).
Inv ==
    /\ TypeOK /\ CountExact /\ Taken /\ Leaving /\ NoLostWakeup
    /\ IdleMeansDone /\ StopDrains

\* Every task that is accepted is executed, although a worker is only woken for
\* the first one in the queue.
EveryTaskRuns == \A t \in Tasks : (task[t] = "queued") ~> (task[t] = "done")

\* stop() returns: every worker notices.
StopReturns == (stopper = "join") ~> (stopper = "stopped")

\* wait_idle() returns, unless a task is scheduled after stop(): that one is
\* counted, refused and never done.
WaitIdleReturns ==
    <>(waiter = "returned" \/ \E t \in Tasks : task[t] = "refused")

=============================================================================
