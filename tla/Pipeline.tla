------------------------------ MODULE Pipeline ------------------------------
(***************************************************************************)
(* Sequential signal chains and the manual executor.                       *)
(*                                                                         *)
(* A pipeline is what                                                      *)
(*     source | map(f) | continue_on(ex) | or_else(g) | ... | detach()     *)
(* builds: a chain of slots, each of which either forwards the completion  *)
(* it is given or keeps it and schedules a task on an executor, whose      *)
(* execute() calls the functor and completes the next slot and whose       *)
(* cancel() completes it with null.  The inline executor runs such a task  *)
(* inside schedule(); a manual_executor queues it until its owner calls    *)
(* execute_batch() or execute_at_most(), or stop().                        *)
(*                                                                         *)
(* A manual_executor has no lock, so all of this happens on one thread; at *)
(* any moment at most one pipeline is on the call stack.  Several          *)
(* pipelines share the executors, a functor may call stop(), and the owner *)
(* drives the executors in any order.                                      *)
(*                                                                         *)
(* Three kinds of stages connect a chain to a coroutine: as_signal(async)  *)
(* begins a chain that a coroutine completes, coro_schedule is a chain     *)
(* whose only task resumes a new coroutine, and co_await ends a chain with *)
(* the slot that resumes the coroutine that awaits it.  Module Coroutine   *)
(* adds the coroutines and the specification of the whole.                 *)
(***************************************************************************)
EXTENDS Naturals, Sequences, FiniteSets, FiniteSetsExt, SequencesExt

CONSTANTS
    Pipelines,   \* the chains that are built
    Executors,   \* the manual executors
    Stages,      \* Stages[p]: the sequence of stages of pipeline p
    Detached,    \* the chains that are emitted by detach() or coro_schedule()
    MostPerCall  \* bound on the n of execute_at_most(n)

Inline == "inline"
Tags == {"emit", "val", "err", "null"}

(* Sources complete their slot when they are emitted, whatever the executor; *)
(* schedule(ex, f) queues the call of f.                                     *)
Result   == [takes |-> {"emit"}, gives |-> {"val", "err", "null"}]
ScheduleSignal == [takes |-> {"emit"}, gives |-> {"val", "err"}]
(* What each combinator's slot keeps for its task, and what the task's       *)
(* functor may complete the next slot with.                                  *)
Map      == [takes |-> {"val"}, gives |-> {"val"}]
MapError == [takes |-> {"err"}, gives |-> {"err"}]
AndThen  == [takes |-> {"val"}, gives |-> {"val", "err"}]
OrElse   == [takes |-> {"err"}, gives |-> {"val", "err"}]
(* flatten() subscribes to the signal it is given, here a schedule(ex, f).   *)
Flatten  == [takes |-> {"val"}, gives |-> ScheduleSignal.gives]
(* continue_on() keeps nothing: it only changes get_executor().              *)
ContinueOn == [takes |-> {}, gives |-> {}]
(* box() hands the completion through a callback on the heap, and            *)
(* query_executor() adds get_executor() to it; both forward everything.      *)
Box == [takes |-> {}, gives |-> {}]
QueryExecutor == [takes |-> {}, gives |-> {}]
(* async_connection::emit() starts a coroutine, which completes the chain.   *)
AsyncSignal == [takes |-> {"emit"}, gives |-> {"val", "err"}]
(* coro_schedule(ex, c) queues the promise of c, whose execute() resumes it. *)
CoroSchedule == [takes |-> {"emit"}, gives |-> {"val"}]
(* awaiter_slot keeps a value or an error and schedules the resumption.      *)
CoAwait == [takes |-> {"val", "err"}, gives |-> {"val", "err"}]

KindOf ==
    [result |-> Result, schedule |-> ScheduleSignal, map |-> Map, map_error |-> MapError,
     and_then |-> AndThen, or_else |-> OrElse, flatten |-> Flatten, continue_on |-> ContinueOn,
     box |-> Box, query_executor |-> QueryExecutor,
     as_signal |-> AsyncSignal, coro_schedule |-> CoroSchedule, co_await |-> CoAwait]

(* A stage: its kind, the executor given to continue_on, schedule,           *)
(* coro_schedule or to the signal that flatten subscribes to, and the        *)
(* executors its functor stops.                                              *)
IsStage(s) ==
    /\ DOMAIN s = {"kind", "on", "stops"}
    /\ s.kind \in DOMAIN KindOf
    /\ s.on \in Executors \cup {Inline}
    /\ s.stops \subseteq Executors

Kind(p, i) == KindOf[Stages[p][i].kind]

ASSUME StagesAssumption ==
    /\ IsFiniteSet(Pipelines) /\ IsFiniteSet(Executors) /\ Inline \notin Executors
    /\ DOMAIN Stages = Pipelines /\ Detached \subseteq Pipelines
    /\ \A p \in Pipelines :
         /\ Len(Stages[p]) > 0
         /\ \A i \in DOMAIN Stages[p] :
              /\ IsStage(Stages[p][i])
              /\ i = 1 <=> "emit" \in Kind(p, i).takes
              /\ Stages[p][i].kind = "co_await" => i = Len(Stages[p])

ASSUME MostPerCallAssumption == MostPerCall \in Nat

VARIABLES
    slot,      \* slot[p]: where the pipeline's completion is
    queue,     \* queue[e]: task_queue_ of executor e, each task named by its pipeline
    loop,      \* the execute_...() call in progress
    \* history
    fn,        \* fn[p][i]: what stage i's functor has returned
    order,     \* order[e]: the tasks that wait on e, in the order in which they were scheduled
    stopped,   \* the executors on which stop() was called
    out        \* out[p]: the completions the pipeline's last slot was given

vars == <<fn, slot, queue, loop, order, stopped, out>>

Outcome == [tag : Tags, by : Nat]

(* get_executor() of the signal in front of stage i: the nearest continue_on *)
(* decides; sources answer with the inline executor, the others forward.     *)
Upstream(p, i) ==
    LET hops == {j \in 1..(i - 1) : Stages[p][j].kind = "continue_on"}
    IN  IF hops = {} THEN Inline ELSE Stages[p][Max(hops)].on

(* The executor on which stage i schedules its functor.                      *)
ExecutorOf(p, i) ==
    CASE Stages[p][i].kind \in {"schedule", "flatten", "coro_schedule"} -> Stages[p][i].on
      [] Stages[p][i].kind = "result" -> Inline
      [] Stages[p][i].kind = "as_signal" -> "coroutine"
      [] OTHER -> Upstream(p, i)

NoLoop == [kind |-> "none", on |-> Inline, left |-> <<>>, calls |-> 0, count |-> 0]

PipelineInit ==
    /\ fn = [p \in Pipelines |-> [i \in DOMAIN Stages[p] |-> "not called"]]
    /\ slot = [p \in Pipelines |-> [mode |-> "new", at |-> 1, got |-> [tag |-> "emit", by |-> 0]]]
    /\ queue = [e \in Executors |-> <<>>]
    /\ loop = NoLoop
    /\ order = [e \in Executors |-> <<>>]
    /\ stopped = {}
    /\ out = [p \in Pipelines |-> <<>>]

Flowing == {p \in Pipelines : slot[p].mode = "flowing"}
Takes(p, i) == slot[p].got.tag \in Kind(p, i).takes
(* What stage i may complete the next slot with; co_await adds no functor.   *)
Gives(p, i) == IF Stages[p][i].kind = "co_await" THEN {slot[p].got.tag} ELSE Kind(p, i).gives

StillQueued == [e \in Executors |-> SelectSeq(order[e], LAMBDA p : slot'[p].mode = "queued")]

(* Mutant: stop() clears the queue without cancelling its tasks. *)
StopForgets(es, s, q) ==
    /\ slot' = s
    /\ queue' = [e \in Executors |-> IF e \in es THEN <<>> ELSE q[e]]
    /\ stopped' = stopped \cup es
    /\ order' = StillQueued
    /\ UNCHANGED out

(* Mutant: stop() does not clear the queue. *)
StopKeepsQueue(es, s, q) ==
    LET cancelled == UNION {ToSet(q[e]) : e \in es}
        Null(p) == [tag |-> "null", by |-> s[p].at]
    IN  /\ slot' = [p \in Pipelines |->
                      IF p \in cancelled THEN [s[p] EXCEPT !.mode = "done", !.got = Null(p)] ELSE s[p]]
        /\ out' = [p \in Pipelines |-> IF p \in cancelled THEN Append(out[p], Null(p)) ELSE out[p]]
        /\ queue' = q
        /\ stopped' = stopped \cup es
        /\ order' = StillQueued

(* manual_executor::stop(), wherever it is called: every queued task is      *)
(* cancelled, and as every slot forwards null each of those pipelines is     *)
(* completed with null there and then; the queue is cleared.  s and q are    *)
(* the slots and the queues at the call.                                     *)
StopAll(es, s, q) ==
    LET cancelled == UNION {ToSet(q[e]) : e \in es}
        Null(p) == [tag |-> "null", by |-> s[p].at]
    IN  /\ slot' = [p \in Pipelines |->
                      IF p \in cancelled THEN [s[p] EXCEPT !.mode = "done", !.got = Null(p)] ELSE s[p]]
        /\ out' = [p \in Pipelines |-> IF p \in cancelled THEN Append(out[p], Null(p)) ELSE out[p]]
        /\ queue' = [e \in Executors |-> IF e \in es THEN <<>> ELSE q[e]]
        /\ stopped' = stopped \cup es
        /\ order' = StillQueued

(* Mutant: what the functor returns is taken for a value. *)
ApplySetsValue(p, q) ==
    LET i == slot[p].at
        next == [mode |-> "flowing", at |-> i + 1, got |-> [tag |-> "val", by |-> i]]
    IN  \E r \in Gives(p, i) :
            /\ fn' = [fn EXCEPT ![p][i] = r]
            /\ StopAll(Stages[p][i].stops, [slot EXCEPT ![p] = next], q)

(* The functor of stage i is called and the next slot completed with what it *)
(* returns; q are the queues without the task that calls it.                 *)
Apply(p, q) ==
    LET i == slot[p].at
        Completed(r) == [mode |-> "flowing", at |-> i + 1, got |-> [tag |-> r, by |-> i]]
    IN  \E r \in Gives(p, i) :
            /\ fn' = [fn EXCEPT ![p][i] = r]
            /\ StopAll(Stages[p][i].stops, [slot EXCEPT ![p] = Completed(r)], q)

-----------------------------------------------------------------------------
(* The completion moves down the chain.                                      *)

(* emit() of the chain, by the owner.                                        *)
Emit(p) ==
    /\ loop.kind = "none" /\ Flowing = {}
    /\ p \in Detached
    /\ slot[p].mode = "new"
    /\ slot' = [slot EXCEPT ![p].mode = "flowing"]
    /\ UNCHANGED <<fn, queue, loop, order, stopped, out>>

(* A slot forwards what is not for it.                                       *)
Forward(p) ==
    /\ slot[p].mode = "flowing"
    /\ slot[p].at <= Len(Stages[p])
    /\ ~Takes(p, slot[p].at)
    /\ slot' = [slot EXCEPT ![p].at = @ + 1]
    /\ UNCHANGED <<fn, queue, loop, order, stopped, out>>

(* Mutant: an error is handled where it is met. *)
RunInlineErrors(p) ==
    /\ slot[p].mode = "flowing"
    /\ slot[p].at <= Len(Stages[p])
    /\ Takes(p, slot[p].at)
    /\ ExecutorOf(p, slot[p].at) = Inline \/ slot[p].got.tag = "err"
    /\ Apply(p, queue)
    /\ UNCHANGED loop

(* The task is scheduled on the inline executor, which executes it at once.  *)
RunInline(p) ==
    /\ slot[p].mode = "flowing"
    /\ slot[p].at <= Len(Stages[p])
    /\ Takes(p, slot[p].at)
    /\ ExecutorOf(p, slot[p].at) = Inline
    /\ Apply(p, queue)
    /\ UNCHANGED loop

(* The task is pushed to the back of a manual executor's queue.              *)
Schedule(p) ==
    LET e == ExecutorOf(p, slot[p].at)
    IN  /\ slot[p].mode = "flowing"
        /\ slot[p].at <= Len(Stages[p])
        /\ Takes(p, slot[p].at)
        /\ e \in Executors
        /\ queue' = [queue EXCEPT ![e] = Append(@, p)]
        /\ slot' = [slot EXCEPT ![p].mode = "queued"]
        /\ order' = [order EXCEPT ![e] = Append(@, p)]
        /\ UNCHANGED <<fn, loop, stopped, out>>

(* The slot at the end of the chain is completed.                            *)
Deliver(p) ==
    /\ slot[p].mode = "flowing"
    /\ slot[p].at > Len(Stages[p])
    /\ slot' = [slot EXCEPT ![p].mode = "done"]
    /\ out' = [out EXCEPT ![p] = Append(@, slot[p].got)]
    /\ UNCHANGED <<fn, queue, loop, order, stopped>>

-----------------------------------------------------------------------------
(* The owner drives a manual executor.                                       *)

(* execute_batch() takes the whole queue and runs what it took.              *)
ExecuteBatch(e) ==
    /\ loop.kind = "none" /\ Flowing = {}
    /\ loop' = [kind |-> "batch", on |-> e, left |-> queue[e], calls |-> Len(queue[e]), count |-> 0]
    /\ queue' = [queue EXCEPT ![e] = <<>>]
    /\ UNCHANGED <<fn, slot, order, stopped, out>>

(* execute_at_most(n) pops one task after the other.                         *)
ExecuteAtMost(e, n) ==
    /\ loop.kind = "none" /\ Flowing = {}
    /\ loop' = [kind |-> "at_most", on |-> e, left |-> <<>>, calls |-> n, count |-> 0]
    /\ UNCHANGED <<fn, slot, queue, order, stopped, out>>

RunOfBatch ==
    /\ loop.kind = "batch" /\ Flowing = {}
    /\ loop.left # <<>>
    /\ Apply(Head(loop.left), queue)
    /\ loop' = [loop EXCEPT !.left = Tail(@), !.count = @ + 1]

RunOfQueue ==
    /\ loop.kind = "at_most" /\ Flowing = {}
    /\ loop.count # loop.calls
    /\ queue[loop.on] # <<>>
    /\ Apply(Head(queue[loop.on]), [queue EXCEPT ![loop.on] = Tail(@)])
    /\ loop' = [loop EXCEPT !.count = @ + 1]

(* The call returns the number of tasks it executed.                         *)
LoopEnds ==
    /\ Flowing = {}
    /\ \/ loop.kind = "batch" /\ loop.left = <<>>
       \/ loop.kind = "at_most" /\ (loop.count = loop.calls \/ queue[loop.on] = <<>>)
    /\ loop' = NoLoop
    /\ UNCHANGED <<fn, slot, queue, order, stopped, out>>

Stop(e) ==
    /\ loop.kind = "none" /\ Flowing = {}
    /\ StopAll({e}, slot, queue)
    /\ UNCHANGED <<fn, loop>>

-----------------------------------------------------------------------------
Flow(p) == Forward(p) \/ RunInline(p) \/ Schedule(p) \/ Deliver(p)
Run == RunOfBatch \/ RunOfQueue \/ LoopEnds
Drive(e) == ExecuteBatch(e) \/ (\E n \in 0..MostPerCall : ExecuteAtMost(e, n))
Owner == (\E p \in Pipelines : Emit(p)) \/ (\E e \in Executors : Drive(e) \/ Stop(e))

-----------------------------------------------------------------------------
(* Types, and that one pipeline at most is on the call stack.                 *)
TypeOK ==
    /\ \A p \in Pipelines :
         /\ slot[p].mode \in {"new", "flowing", "queued", "coroutine", "done"}
         /\ slot[p].at \in 1..(Len(Stages[p]) + 1)
         /\ slot[p].got \in Outcome
         /\ out[p] \in Seq(Outcome)
    /\ queue \in [Executors -> Seq(Pipelines)]
    /\ loop.kind \in {"none", "batch", "at_most"}
    /\ loop.on \in Executors \cup {Inline}
    /\ loop.left \in Seq(Pipelines)
    /\ Cardinality(Flowing) <= 1

(* What the chain as a whole computes: every combinator applied in turn.      *)
Reference(p) ==
    LET Step(o, i) == IF o.tag \in Kind(p, i).takes THEN [tag |-> fn[p][i], by |-> i] ELSE o
    IN  FoldLeft(Step, [tag |-> "emit", by |-> 0], [i \in 1..Len(Stages[p]) |-> i])

(* The last slot of a chain is completed at most once, with what the          *)
(* composition of the functors gives, or with null because the executor of    *)
(* one of its stages was stopped.                                             *)
Composes ==
    \A p \in Pipelines :
        /\ Len(out[p]) = IF slot[p].mode = "done" THEN 1 ELSE 0
        /\ out[p] # <<>> =>
             \/ out[p][1] = Reference(p)
             \/ out[p][1].tag = "null" /\ ExecutorOf(p, out[p][1].by) \in stopped

(* A kept completion has exactly one task: in the queue of the executor of    *)
(* its stage or in the batch that took it from there.  Neither a completion   *)
(* without a task, which would be lost, nor a task without one, whose         *)
(* execute() would find maybe_value_ empty.                                   *)
TaskForCompletion ==
    \A p \in Pipelines :
        LET in(s) == Cardinality({i \in DOMAIN s : s[i] = p})
            tasks == in(loop.left) + MapThenSumSet(LAMBDA e : in(queue[e]), Executors)
        IN  /\ tasks = IF slot[p].mode = "queued" THEN 1 ELSE 0
            /\ \A e \in Executors : in(queue[e]) > 0 => ExecutorOf(p, slot[p].at) = e
            /\ in(loop.left) > 0 => ExecutorOf(p, slot[p].at) = loop.on

(* execute_batch() executes exactly the tasks that were scheduled when it     *)
(* began, although those schedule others on the same executor, and            *)
(* execute_at_most(n) never more than n.                                      *)
BatchIsFinite ==
    /\ loop.count <= loop.calls
    /\ loop.kind = "batch" => loop.count + Len(loop.left) = loop.calls

(* An executor executes its tasks in the order in which they were scheduled,  *)
(* batches, single pops and stops mixed as they may be: what is left of the   *)
(* batch comes before the queue.                                              *)
InOrder ==
    \A e \in Executors : order[e] = (IF loop.on = e THEN loop.left ELSE <<>>) \o queue[e]

(* Queues, batches and kept completions agree at every call of the manual     *)
(* executors (manual.cpp:17-46).                                              *)
Inv == TypeOK /\ TaskForCompletion /\ BatchIsFinite /\ InOrder

(* The functor of a stage behind continue_on(e) is called while e executes    *)
(* its tasks, also when the completion it is given comes from another         *)
(* executor or has bypassed earlier stages.                                   *)
OnItsExecutor ==
    [][\A p \in Pipelines :
         slot'[p].got.by # slot[p].got.by /\ slot'[p].got.tag # "null"
           => ExecutorOf(p, slot'[p].got.by) \in {Inline, "coroutine", loop.on}]_vars

=============================================================================
