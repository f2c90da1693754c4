------------------------- MODULE ParallelConnection -------------------------
(***************************************************************************)
(* algo/sync/detail/parallel.hpp with its three users: any                 *)
(* (algo/tf/par/any.hpp), all (algo/tf/par/all.hpp) and select             *)
(* (algo/sync/select.hpp).  A parallel connection emits N children, which  *)
(* complete concurrently, also while the others are still being emitted.   *)
(* The first decisive completion is delivered to the slot and the others   *)
(* are cancelled; the completion that counts to N has the connection       *)
(* deleted.  Storing the cancel handles, cancelling and deleting are tasks *)
(* of a serial executor, so that neither a cancellation nor the deletion   *)
(* happens before emit() has returned all the handles.                     *)
(*                                                                         *)
(* The serial executor is taken at its word (SerialSpec): tasks run one at *)
(* a time in the order they were scheduled, unless the executor beneath is *)
(* stopped and they are cancelled.  Every access to a member of the        *)
(* connection is a step, so that a step after the deletion is a use after  *)
(* free.                                                                   *)
(***************************************************************************)
EXTENDS Integers, Sequences, SequencesExt, FiniteSets

CONSTANT N   \* the number of children

ASSUME ParallelAssumption == N \in Nat \ {0}

Children == 1 .. N
Outcomes == {"value", "error", "null"}
TaskKinds == {"emit", "cancel", "delete"}
Kinds == {"any", "all", "select"}

VARIABLES
    kind,       \* which of any, all and select it is; never changes
    emitter,    \* "emitting" in emit(), "emit_impl" after the last child, "left"
    child,      \* child[i]: where child i is in its life and in set_..._impl
    outcome,    \* outcome[i]: with what it completes
    cancelled,  \* the children whose handle was told to try_cancel()
    done,       \* done_
    results,    \* the children whose maybe_results_ is set (all only)
    counter,    \* counter_
    winner,     \* excluded_index of the cancel task
    queue,      \* the tasks on the serial executor, oldest first
    dropped,    \* has the executor cancelled a task that does nothing then?
    scheduled,  \* scheduled[k]: how often tasks_.k was emplaced and scheduled
    current,    \* the task that is executing, or "none"
    todo,       \* the children it still has to cancel
    handles,    \* state_.cancel_handles.has_value()
    request,    \* state_.cancel_request.has_value()
    deleting,   \* state_.delete_requested
    freed,      \* delete_this_() has run
    delivered   \* the calls of slot_.set_...

conn == <<kind, emitter, child, outcome, done, results, counter, winner>>
serial == <<queue, dropped, scheduled, current, todo>>
state == <<handles, request, deleting, freed>>
vars == <<conn, serial, state, cancelled, delivered>>

\* The outcomes that decide the result on their own: the first value of any and
\* select, the first failure of all.
Decisive(o) == IF kind = "all" THEN o # "value" ELSE o = "value"

Init ==
    /\ kind \in Kinds
    /\ emitter = "emitting"
    /\ child = [i \in Children |-> "idle"]
    /\ outcome = [i \in Children |-> "none"]
    /\ cancelled = {}
    /\ done = FALSE
    /\ results = {}
    /\ counter = 0
    /\ winner = 0
    /\ queue = <<>>
    /\ dropped = FALSE
    /\ scheduled = [k \in TaskKinds |-> 0]
    /\ current = "none"
    /\ todo = {}
    /\ handles = FALSE
    /\ request = FALSE
    /\ deleting = FALSE
    /\ freed = FALSE
    /\ delivered = <<>>

Goto(i, pc) == child' = [child EXCEPT ![i] = pc]

\* executor_.schedule(tasks_.k.emplace(...))
Schedule(k) ==
    /\ queue' = Append(queue, k)
    /\ scheduled' = [scheduled EXCEPT ![k] = @ + 1]
    /\ UNCHANGED <<dropped, current, todo>>

-----------------------------------------------------------------------------
\* emit() and emit_ordered(): the children one after another, in the order of
\* their indices or of get_connection_ordering, then emit_impl.

Emit(i) ==
    /\ emitter = "emitting"
    /\ child[i] = "idle"
    /\ Goto(i, "live")
    /\ emitter' = IF \A j \in Children \ {i} : child[j] # "idle"
                  THEN "emit_impl" ELSE "emitting"
    /\ UNCHANGED <<kind, outcome, done, results, counter, winner, serial, state,
                   cancelled, delivered>>

EmitImpl ==
    /\ emitter = "emit_impl"
    /\ emitter' = "left"
    /\ Schedule("emit")
    /\ UNCHANGED <<kind, child, outcome, done, results, counter, winner, state,
                   cancelled, delivered>>

-----------------------------------------------------------------------------
\* A child completes: set_value_impl, set_error_impl, set_null_impl.

\* A decisive outcome goes for done_ first, any other one counts first; all
\* stores a value before it counts.
Complete(i, o) ==
    /\ child[i] = "live"
    /\ outcome' = [outcome EXCEPT ![i] = o]
    /\ Goto(i, IF Decisive(o) THEN "check_done" ELSE "count")
    /\ results' = IF kind = "all" /\ o = "value" THEN results \cup {i} ELSE results
    /\ UNCHANGED <<kind, emitter, done, counter, winner, serial, state, cancelled,
                   delivered>>

\* set_value_skip_done of a select case: the channel has moved done_ from 0 to 1
\* in its kcas before it calls.
CompleteSkipDone(i) ==
    /\ kind = "select"
    /\ child[i] = "live"
    /\ ~done
    /\ done' = TRUE
    /\ outcome' = [outcome EXCEPT ![i] = "value"]
    /\ Goto(i, "deliver")
    /\ UNCHANGED <<kind, emitter, results, counter, winner, serial, state, cancelled,
                   delivered>>

\* Mutant: done_ is loaded and never set.
CheckDoneLoad(i) ==
    /\ child[i] = "check_done"
    /\ Goto(i, IF ~done THEN "deliver"
               ELSE IF Decisive(outcome[i]) THEN "count" ELSE "schedule_delete")
    /\ UNCHANGED <<kind, emitter, outcome, done, results, counter, winner, serial,
                   state, cancelled, delivered>>

\* done_.exchange(true), or the kcas of select's check_done().
CheckDone(i) ==
    /\ child[i] = "check_done"
    /\ done' = TRUE
    /\ Goto(i, IF ~done THEN "deliver"
               ELSE IF Decisive(outcome[i]) THEN "count" ELSE "schedule_delete")
    /\ UNCHANGED <<kind, emitter, outcome, results, counter, winner, serial, state,
                   cancelled, delivered>>

Deliver(i) ==
    /\ child[i] = "deliver"
    /\ delivered' = Append(delivered, outcome[i])
    /\ Goto(i, IF Decisive(outcome[i]) THEN "schedule_cancel" ELSE "schedule_delete")
    /\ UNCHANGED <<kind, emitter, outcome, done, results, counter, winner, serial,
                   state, cancelled>>

\* schedule_try_cancel_beside(index)
ScheduleTryCancelBeside(i) ==
    /\ child[i] = "schedule_cancel"
    /\ winner' = i
    /\ Schedule("cancel")
    /\ Goto(i, "count")
    /\ UNCHANGED <<kind, emitter, outcome, done, results, counter, state, cancelled,
                   delivered>>

\* Mutant: the last completion deletes without looking at done_.
IncrementAndDelete(i) ==
    /\ child[i] = "count"
    /\ counter' = counter + 1
    /\ Goto(i, IF counter + 1 # N THEN "end" ELSE "schedule_delete")
    /\ UNCHANGED <<kind, emitter, outcome, done, results, winner, serial, state,
                   cancelled, delivered>>

\* increment_and_check()
Increment(i) ==
    /\ child[i] = "count"
    /\ counter' = counter + 1
    /\ Goto(i, IF counter + 1 # N THEN "end"
               ELSE IF Decisive(outcome[i]) THEN "schedule_delete"
               ELSE "check_done")
    /\ UNCHANGED <<kind, emitter, outcome, done, results, winner, serial, state,
                   cancelled, delivered>>

ScheduleDeleteThis(i) ==
    /\ child[i] = "schedule_delete"
    /\ Schedule("delete")
    /\ Goto(i, "end")
    /\ UNCHANGED <<kind, emitter, outcome, done, results, counter, winner, state,
                   cancelled, delivered>>

-----------------------------------------------------------------------------
\* The tasks, on the serial executor.

Pop(k) ==
    /\ current = "none"
    /\ queue # <<>>
    /\ Head(queue) = k
    /\ queue' = Tail(queue)
    /\ UNCHANGED <<scheduled, conn, cancelled, delivered>>

Start(k) == Pop(k) /\ UNCHANGED dropped

\* The executor is stopped and cancels its tasks: emit_task and
\* try_cancel_beside_task do nothing then ("leaking for now"), delete_this_task
\* executes, which SerializedDeleteThis covers.
CancelTask(k) ==
    /\ k \in {"emit", "cancel"}
    /\ Pop(k)
    /\ dropped' = TRUE
    /\ UNCHANGED <<current, todo, state>>

Beside == Children \ {winner}

\* Mutant: a cancellation that came before the handles is forgotten.
SerializedEmitForgets ==
    /\ Start("emit")
    /\ handles' = TRUE
    /\ request' = FALSE
    /\ todo' = {}
    /\ current' = "emit"
    /\ UNCHANGED <<deleting, freed>>

SerializedEmit ==
    /\ Start("emit")
    /\ handles' = TRUE
    /\ todo' = IF request THEN Beside ELSE {}
    /\ request' = FALSE
    /\ current' = "emit"
    /\ UNCHANGED <<deleting, freed>>

\* Mutant: the cancellation does not wait for the handles.
SerializedTryCancelAtOnce ==
    /\ Start("cancel")
    /\ current' = "cancel"
    /\ todo' = Beside
    /\ UNCHANGED <<handles, request, deleting, freed>>

SerializedTryCancelBeside ==
    /\ Start("cancel")
    /\ current' = "cancel"
    /\ request' = (request \/ ~handles)
    /\ todo' = IF ~request /\ handles THEN Beside ELSE {}
    /\ UNCHANGED <<handles, deleting, freed>>

\* Mutant: the deletion does not wait for the handles.
SerializedDeleteAtOnce ==
    /\ Start("delete")
    /\ freed' = TRUE
    /\ current' = "delete"
    /\ UNCHANGED <<todo, handles, request, deleting>>

SerializedDeleteThis ==
    /\ Start("delete")
    /\ freed' = handles
    /\ deleting' = ~handles
    /\ current' = "delete"
    /\ UNCHANGED <<todo, handles, request>>

\* One try_cancel() of try_cancel_beside_impl, in the order of the indices.
TryCancel(i) ==
    /\ i \in todo
    /\ \A j \in todo : i <= j
    /\ todo' = todo \ {i}
    /\ cancelled' = cancelled \cup {i}
    /\ UNCHANGED <<conn, queue, dropped, scheduled, current, state, delivered>>

\* The task returns; serialized_emit first deletes when that was requested.
Finish ==
    /\ current # "none"
    /\ todo = {}
    /\ freed' = (freed \/ (current = "emit" /\ deleting))
    /\ current' = "none"
    /\ UNCHANGED <<conn, queue, dropped, scheduled, todo, handles, request, deleting,
                   cancelled, delivered>>

-----------------------------------------------------------------------------

Emitter == (\E i \in Children : Emit(i)) \/ EmitImpl

Handler(i) ==
    \/ CheckDone(i)
    \/ Deliver(i)
    \/ ScheduleTryCancelBeside(i)
    \/ Increment(i)
    \/ ScheduleDeleteThis(i)

Serial ==
    \/ SerializedEmit
    \/ SerializedTryCancelBeside
    \/ SerializedDeleteThis
    \/ \E i \in Children : TryCancel(i)
    \/ Finish

Completes(i) == (\E o \in Outcomes : Complete(i, o)) \/ CompleteSkipDone(i)

\* Nothing is left to do: the connection is deleted, or leaks because a task was
\* dropped.
Stopped ==
    /\ freed \/ dropped
    /\ UNCHANGED vars

Next ==
    \/ Emitter
    \/ \E i \in Children : Completes(i) \/ Handler(i)
    \/ Serial
    \/ \E k \in TaskKinds : CancelTask(k)
    \/ Stopped

\* Threads run on, and a child that was told to cancel completes, with null or
\* with what it was about to complete with.  Any other child may never complete.
Fairness ==
    /\ WF_vars(Emitter)
    /\ WF_vars(Serial)
    /\ \A i \in Children : WF_vars(Handler(i))
    /\ \A i \in Children : WF_vars(i \in cancelled /\ Completes(i))

Spec == Init /\ [][Next]_vars /\ Fairness

-----------------------------------------------------------------------------
\* Properties

ChildSteps == {"idle", "live", "check_done", "deliver", "schedule_cancel", "count",
               "schedule_delete", "end"}

\* Types; tasks_.emit, tasks_.try_cancel_beside and tasks_.delete_this are each
\* emplaced at most once (parallel.hpp:114, 126, 131), and counter_ stops at N.
TypeOK ==
    /\ kind \in Kinds
    /\ emitter \in {"emitting", "emit_impl", "left"}
    /\ child \in [Children -> ChildSteps]
    /\ outcome \in [Children -> Outcomes \cup {"none"}]
    /\ cancelled \subseteq Children
    /\ results \subseteq Children
    /\ counter \in 0 .. N
    /\ winner \in 0 .. N
    /\ queue \in Seq(TaskKinds)
    /\ scheduled \in [TaskKinds -> {0, 1}]
    /\ current \in TaskKinds \cup {"none"}
    /\ todo \subseteq Children
    /\ done \in BOOLEAN /\ handles \in BOOLEAN /\ request \in BOOLEAN
    /\ deleting \in BOOLEAN /\ freed \in BOOLEAN /\ dropped \in BOOLEAN
    /\ delivered \in Seq(Outcomes)

\* The children whose increment_and_check() has run; the last of them has all the
\* rest to itself.
Counted(i) ==
    \/ child[i] \in {"schedule_delete", "end"}
    \/ child[i] \in {"check_done", "deliver"} /\ ~Decisive(outcome[i])

LastOne(i) == Counted(i) /\ child[i] # "end"

\* counter_ is exact, so that one child finds itself the last, when the others
\* have returned, and deletes after the delivery (parallel.hpp:119, 130).
CountedOnce ==
    /\ counter = Cardinality({i \in Children : Counted(i)})
    /\ \A i \in Children :
           LastOne(i) => scheduled["delete"] = 0 /\ \A j \in Children \ {i} : child[j] = "end"
    /\ \A i \in Children : child[i] = "schedule_delete" => delivered # <<>>
    /\ scheduled["delete"] = 1 =>
           delivered # <<>> /\ \A i \in Children : child[i] = "end"

\* Where the children are and what they have left behind.
Progress ==
    /\ emitter = "emitting" <=> \E i \in Children : child[i] = "idle"
    /\ scheduled["emit"] = 1 <=> emitter = "left"
    /\ \A i \in Children : outcome[i] = "none" <=> child[i] \in {"idle", "live"}
    /\ kind = "all" => results = {i \in Children : outcome[i] = "value"}

\* Who sets done_ delivers, alone; no child passes by done_ that has to go for it,
\* and the last child gives up only if no child had to.
OneDelivers ==
    /\ ~done => scheduled["cancel"] = 0 /\ delivered = <<>>
    /\ \A i \in Children :
           /\ child[i] \in {"deliver", "schedule_cancel"} =>
                  /\ done /\ scheduled["cancel"] = 0
                  /\ \A j \in Children \ {i} : child[j] \notin {"deliver", "schedule_cancel"}
           /\ child[i] = "deliver" => delivered = <<>>
           /\ child[i] = "deliver" /\ ~Decisive(outcome[i]) =>
                  \A j \in Children : ~Decisive(outcome[j])
           /\ child[i] = "schedule_cancel" => delivered # <<>> /\ Decisive(outcome[i])
           /\ child[i] \in {"count", "schedule_delete", "end"} /\ Decisive(outcome[i]) => done
    /\ done /\ delivered = <<>> => \E i \in Children : child[i] = "deliver"

\* The serial executor has each task once and the deletion after the cancellation;
\* what the tasks leave in state_ tells which of them have run.
TasksOrdered ==
    /\ IsInjective(queue)
    /\ \A k \in ToSet(queue) : scheduled[k] = 1
    /\ \A m, n \in DOMAIN queue : queue[m] = "delete" /\ queue[n] = "cancel" => n < m
    /\ scheduled["delete"] = 1 /\ "delete" \notin ToSet(queue) =>
           "cancel" \notin ToSet(queue)
    /\ handles => scheduled["emit"] = 1 /\ "emit" \notin ToSet(queue)
    /\ request => ~handles /\ scheduled["cancel"] = 1
    /\ deleting \/ freed => scheduled["delete"] = 1 /\ "delete" \notin ToSet(queue)
    /\ freed => handles /\ todo = {}
    /\ current = "emit" => handles
    /\ current = "none" => todo = {}

\* Only others than the winner are cancelled, with the handles there.
CancelsOthers ==
    todo # {} \/ cancelled # {} =>
        /\ handles /\ scheduled["cancel"] = 1
        /\ winner \notin todo /\ winner \notin cancelled

\* The slot is completed at most once, and exactly once when the connection is
\* deleted.
DeliveredOnce ==
    /\ Len(delivered) <= 1
    /\ freed => Len(delivered) = 1

\* any and select give up only when no child has a value, however the
\* completions interleave; all succeeds only when every child has stored its
\* value, so the assertion on maybe_results_ (all.hpp:99) holds.
RightResult ==
    \A n \in DOMAIN delivered :
        IF kind = "all"
        THEN /\ delivered[n] = "value" => results = Children
             /\ delivered[n] # "value" => \E i \in Children : outcome[i] = delivered[n]
        ELSE /\ delivered[n] = "value" => \E i \in Children : outcome[i] = "value"
             /\ delivered[n] # "value" =>
                    \A i \in Children : outcome[i] \in {"error", "null"}

\* The slot of any, all or select is completed once and with the right result,
\* whatever order the children complete in (any.hpp:74, all.hpp:87, select.hpp:135).
Inv ==
    /\ TypeOK /\ CountedOnce /\ Progress /\ OneDelivers /\ TasksOrdered /\ CancelsOthers
    /\ DeliveredOnce /\ RightResult

\* Once delete_this_() has run nobody is left who would touch the connection:
\* not the emitting thread, no completing child and no task; also when a stopped
\* executor has dropped some tasks and executed others.
NoUseAfterFree ==
    freed =>
        /\ emitter = "left"
        /\ \A i \in Children : child[i] = "end"
        /\ queue = <<>>
        /\ todo = {}
        /\ ~request

\* A handle is used only while its connection exists, and only after all
\* children were emitted; the winner is never told to cancel.
CancelInTime ==
    /\ cancelled # {} => emitter = "left" /\ handles
    /\ winner \notin cancelled

\* Whatever is delivered, the remaining children are cancelled and the
\* connection is deleted: nothing leaks, also when the cancellation or the
\* deletion was asked for before the handles were stored, unless the executor
\* has cancelled one of the tasks (parallel.hpp:33, 47).
Reclaimed == (delivered # <<>>) ~> (freed \/ dropped)

\* No completion is lost: when every child has completed the slot is completed,
\* on a stopped executor too.
AllCompleteDelivers ==
    (\A i \in Children : outcome[i] # "none") ~> (delivered # <<>>)

=============================================================================
