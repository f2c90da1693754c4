----------------------------- MODULE SerialSpec -----------------------------
(***************************************************************************)
(* What a serial executor promises, whatever executor it runs on: the      *)
(* tasks handed to schedule() are executed one at a time, in the order in  *)
(* which they were handed over, each exactly once, and never inside the    *)
(* call that handed them over when that call was made by another task.     *)
(* stop() and the cancellation of the underlying task drop tasks in the    *)
(* same order.                                                             *)
(***************************************************************************)
EXTENDS Sequences, SequencesExt

CONSTANTS Tasks,    \* the task nodes
          NoTask

VARIABLES pending,  \* accepted tasks, oldest first
          current   \* the task being executed or cancelled, or NoTask

vars == <<pending, current>>

Init ==
    /\ pending = <<>>
    /\ current = NoTask

\* A task node is intrusive: it may be handed over again only once it has been
\* taken out of the queue.
Accept(t) ==
    /\ t \notin ToSet(pending)
    /\ pending' = Append(pending, t)
    /\ UNCHANGED current

Start ==
    /\ current = NoTask
    /\ pending # <<>>
    /\ current' = Head(pending)
    /\ pending' = Tail(pending)

Finish ==
    /\ current # NoTask
    /\ current' = NoTask
    /\ UNCHANGED pending

Next ==
    \/ \E t \in Tasks : Accept(t)
    \/ Start
    \/ Finish

Spec == Init /\ [][Next]_vars /\ WF_vars(Start) /\ WF_vars(Finish)

=============================================================================
