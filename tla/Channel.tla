------------------------------- MODULE Channel -------------------------------
(***************************************************************************)
(* algo/sync/channel.hpp (channel_impl: send, receive, close, unsend,      *)
(* unreceive) together with the part of algo/sync/select.hpp it shares     *)
(* state with: the done_ word of a select and the completion of its cases. *)
(*                                                                         *)
(* A node is one send or receive operation on one channel, on its own or   *)
(* as a case of a select.  An agent is the thread that emits a plain node, *)
(* or the cases of a select one after another.  The mutex of a channel is  *)
(* held across the pops and the kcas attempts of one operation, which      *)
(* therefore interleave with operations on other channels; kcas and        *)
(* kcas_read are single steps here (module Kcas).  That the siblings of a  *)
(* winning case are cancelled by one task, after all cases were emitted,   *)
(* is what module ParallelConnection shows.                                *)
(***************************************************************************)
EXTENDS Naturals, Sequences, SequencesExt, FiniteSets

CONSTANTS
    Channels,
    Nodes,      \* the send and receive operations
    Chan,       \* Chan[n]: the channel of node n
    Dir,        \* Dir[n]: "send" or "recv"
    Selects,
    Cases,      \* Cases[s]: the nodes of select s, in emission order
    Timers,     \* the selects with one more case that is not a channel's
    Closable,   \* the channels somebody closes
    Cancels,    \* the plain nodes whose cancel handle is used
    None

ASSUME ChannelAssumption ==
    /\ IsFiniteSet(Nodes)
    /\ Chan \in [Nodes -> Channels]
    /\ Dir \in [Nodes -> {"send", "recv"}]
    /\ Cases \in [Selects -> Seq(Nodes)]
    /\ \A s \in Selects : Cases[s] # <<>> /\ IsInjective(Cases[s])
    /\ \A s, t \in Selects : s # t => ToSet(Cases[s]) \cap ToSet(Cases[t]) = {}
    /\ Timers \subseteq Selects
    /\ Closable \subseteq Channels
    /\ Cancels \subseteq Nodes \ UNION {ToSet(Cases[s]) : s \in Selects}
    /\ None \notin Nodes \cup Selects \cup Channels
    /\ Nodes \cap Selects = {}

\* select_done: the select whose done_ the node points to, or None.
SelectOf(n) ==
    IF \E s \in Selects : n \in ToSet(Cases[s])
    THEN CHOOSE s \in Selects : n \in ToSet(Cases[s])
    ELSE None

Plain == {n \in Nodes : SelectOf(n) = None}
Agents == Selects \cup Plain
Program(a) == IF a \in Selects THEN Cases[a] ELSE <<a>>

Other(d) == IF d = "send" THEN "recv" ELSE "send"

SameSelect(n, m) == SelectOf(n) # None /\ SelectOf(n) = SelectOf(m)

VARIABLES
    q,         \* q[c][d]: sendq_ and recvq_
    closed,    \* the channels with is_closed_
    lock,      \* lock[c]: the agent that holds m_, or None
    queuedIn,  \* the nodes with queued_in # nullptr
    reqCancel, \* the nodes with requested_cancel
    closing,   \* closing[c]: the receivers close() has taken and not told yet
    done,      \* the selects whose done_ is 1
    slot,      \* slot[s]: what the slot of select s was given
    winner,    \* winner[s]: the case that won, or None
    timer,     \* timer[s]: "armed", or how the case that is no channel's ended
    result,    \* result[n]: what the callback of n was given, or "none"
    calls,     \* calls[n]: how often it was called
    told,      \* the nodes whose try_cancel() was called
    pc,        \* pc[a]: where agent a is in its current operation
    at,        \* at[a]: which of its nodes that is
    peer       \* peer[a]: the node it has popped, or None

queues == <<q, closed, queuedIn, reqCancel, closing>>
callbacks == <<done, slot, winner, result, calls>>
agent == <<pc, at, peer>>
vars == <<queues, lock, callbacks, timer, told, agent>>

Init ==
    /\ q = [c \in Channels |-> [d \in {"send", "recv"} |-> <<>>]]
    /\ closed = {}
    /\ lock = [c \in Channels |-> None]
    /\ queuedIn = {}
    /\ reqCancel = {}
    /\ closing = [c \in Channels |-> <<>>]
    /\ done = {}
    /\ slot = [s \in Selects |-> <<>>]
    /\ winner = [s \in Selects |-> None]
    /\ timer = [s \in Timers |-> "armed"]
    /\ result = [n \in Nodes |-> "none"]
    /\ calls = [n \in Nodes |-> 0]
    /\ told = {}
    /\ pc = [a \in Agents |-> "begin"]
    /\ at = [a \in Agents |-> 1]
    /\ peer = [a \in Agents |-> None]

Emitted(a) == at[a] > Len(Program(a))
Op(a) == Program(a)[at[a]]
Opposite(n) == q[Chan[n]][Other(Dir[n])]

-----------------------------------------------------------------------------
\* The callback of a node, and with it the set_..._impl of a select.

\* The last case to complete, when none of them has won.
GivesUp(s, others) ==
    /\ s \notin done
    /\ \A m \in others : result[m] # "none"

\* A case of a select that gets a value has had done_ claimed for it by the
\* channel; a failing case only matters when it is the last one.
Call(n, r) ==
    LET s == SelectOf(n)
        gives_up == /\ r # "value"
                    /\ s # None
                    /\ GivesUp(s, ToSet(Cases[s]) \ {n})
                    /\ s \in Timers => timer[s] # "armed"
    IN  /\ result' = [result EXCEPT ![n] = r]
        /\ calls' = [calls EXCEPT ![n] = @ + 1]
        /\ done' = IF gives_up THEN done \cup {s} ELSE done
        /\ slot' = IF s # None /\ (r = "value" \/ gives_up)
                   THEN [slot EXCEPT ![s] = Append(@, r)] ELSE slot
        /\ winner' = IF s # None /\ r = "value"
                     THEN [winner EXCEPT ![s] = n] ELSE winner

\* The remaining case of a select, any signal that is not a channel's: its value
\* goes through check_done().
TimerCompletes(s, r) ==
    /\ s \in Timers
    /\ timer[s] = "armed"
    /\ timer' = [timer EXCEPT ![s] = r]
    /\ LET wins == r = "value" /\ s \notin done
           gives_up == r # "value" /\ GivesUp(s, ToSet(Cases[s]))
       IN  /\ done' = IF wins \/ gives_up THEN done \cup {s} ELSE done
           /\ slot' = IF wins \/ gives_up
                      THEN [slot EXCEPT ![s] = Append(@, r)] ELSE slot
           /\ winner' = IF wins THEN [winner EXCEPT ![s] = s] ELSE winner
    /\ UNCHANGED <<queues, lock, result, calls, told, agent>>

-----------------------------------------------------------------------------
\* send() and receive()

NextOp(a) ==
    /\ at' = [at EXCEPT ![a] = @ + 1]
    /\ pc' = [pc EXCEPT ![a] = "begin"]
    /\ peer' = [peer EXCEPT ![a] = None]

\* enqueue_impl: a receive on a closed channel fails instead of waiting.
Enqueue(n) ==
    LET c == Chan[n] IN
    IF Dir[n] = "recv" /\ c \in closed
    THEN /\ Call(n, "error")
         /\ UNCHANGED queues
    ELSE /\ q' = [q EXCEPT ![c][Dir[n]] = Append(@, n)]
         /\ queuedIn' = queuedIn \cup {n}
         /\ UNCHANGED <<closed, reqCancel, closing, callbacks>>

\* The node is turned away before the queues are looked at.
TurnedAway(n) == (Dir[n] = "send" /\ Chan[n] \in closed) \/ n \in reqCancel

\* The guard in front of the loop looks at the back of the queue only.
NobodyWaits(n) ==
    IF Opposite(n) = <<>> THEN TRUE ELSE SameSelect(n, Last(Opposite(n)))

Begins(a) ==
    /\ ~Emitted(a)
    /\ pc[a] = "begin"
    /\ lock[Chan[Op(a)]] = None
    /\ UNCHANGED <<timer, told>>

TurnAway(a) ==
    /\ Begins(a)
    /\ TurnedAway(Op(a))
    /\ Call(Op(a), IF Dir[Op(a)] = "send" /\ Chan[Op(a)] \in closed
                   THEN "error" ELSE "null")
    /\ NextOp(a)
    /\ UNCHANGED <<queues, lock>>

Wait(a) ==
    /\ Begins(a)
    /\ ~TurnedAway(Op(a))
    /\ NobodyWaits(Op(a))
    /\ Enqueue(Op(a))
    /\ NextOp(a)
    /\ UNCHANGED lock

EnterLoop(a) ==
    /\ Begins(a)
    /\ ~TurnedAway(Op(a))
    /\ ~NobodyWaits(Op(a))
    /\ lock' = [lock EXCEPT ![Chan[Op(a)]] = a]
    /\ pc' = [pc EXCEPT ![a] = "loop"]
    /\ UNCHANGED <<queues, callbacks, at, peer>>

Unlock(a) == lock' = [lock EXCEPT ![Chan[Op(a)]] = None]

LoopEmpty(a) ==
    /\ pc[a] = "loop"
    /\ Opposite(Op(a)) = <<>>
    /\ Enqueue(Op(a))
    /\ Unlock(a)
    /\ NextOp(a)
    /\ UNCHANGED <<timer, told>>

\* Mutant: only the word of the incoming node is claimed.
ClaimsIncoming(n, m) == {SelectOf(n)} \ {None}

\* The done_ words try_fulfill_impl claims for the two nodes.
Claims(n, m) == {SelectOf(n), SelectOf(m)} \ {None}

CanClaim(n, m) == ~SameSelect(n, m) /\ Claims(n, m) \cap done = {}

\* Mutant: two CAS instead of one kcas, the first not undone when the second
\* fails.
PopTwoCas(a) ==
    /\ pc[a] = "loop"
    /\ Opposite(Op(a)) # <<>>
    /\ LET n == Op(a)
           m == Head(Opposite(n))
           fulfilled == CanClaim(n, m)
       IN  /\ q' = [q EXCEPT ![Chan[n]][Dir[m]] = Tail(@)]
           /\ queuedIn' = queuedIn \ {m}
           /\ peer' = [peer EXCEPT ![a] = m]
           /\ done' = done \cup Claims(n, m)
           /\ pc' = [pc EXCEPT ![a] = IF fulfilled THEN "call_recv" ELSE "failed"]
           /\ IF fulfilled THEN Unlock(a) ELSE UNCHANGED lock
    /\ UNCHANGED <<closed, reqCancel, closing, slot, winner, result, calls,
                   timer, told, at>>

\* pop_front and the kcas of try_fulfill_impl; on success the mutex is released
\* before the callbacks are called.
Pop(a) ==
    /\ pc[a] = "loop"
    /\ Opposite(Op(a)) # <<>>
    /\ LET n == Op(a)
           m == Head(Opposite(n))
       IN  /\ q' = [q EXCEPT ![Chan[n]][Dir[m]] = Tail(@)]
           /\ queuedIn' = queuedIn \ {m}
           /\ peer' = [peer EXCEPT ![a] = m]
           /\ IF CanClaim(n, m)
              THEN /\ done' = done \cup Claims(n, m)
                   /\ pc' = [pc EXCEPT ![a] = "call_recv"]
                   /\ Unlock(a)
              ELSE /\ pc' = [pc EXCEPT ![a] = "failed"]
                   /\ UNCHANGED <<done, lock>>
    /\ UNCHANGED <<closed, reqCancel, closing, slot, winner, result, calls,
                   timer, told, at>>

\* Mutant: the node of a decided select is dropped without a mark.
AfterFailureUnmarked(a) ==
    /\ pc[a] = "failed"
    /\ LET n == Op(a)
           m == peer[a]
       IN  IF SelectOf(m) \in done
           THEN /\ reqCancel' = reqCancel
                /\ pc' = [pc EXCEPT ![a] = "loop"]
                /\ peer' = [peer EXCEPT ![a] = None]
                /\ UNCHANGED <<q, queuedIn, lock, at>>
           ELSE /\ q' = [q EXCEPT ![Chan[n]][Dir[m]] = <<m>> \o @]
                /\ queuedIn' = queuedIn \cup {m}
                /\ reqCancel' = reqCancel \cup {n}
                /\ Unlock(a)
                /\ NextOp(a)
    /\ UNCHANGED <<closed, closing, callbacks, timer, told>>

\* Mutant: the popped node goes to the back of its queue.
AfterFailureToBack(a) ==
    /\ pc[a] = "failed"
    /\ LET n == Op(a)
           m == peer[a]
       IN  IF SelectOf(m) \in done
           THEN /\ reqCancel' = reqCancel \cup {m}
                /\ pc' = [pc EXCEPT ![a] = "loop"]
                /\ peer' = [peer EXCEPT ![a] = None]
                /\ UNCHANGED <<q, queuedIn, lock, at>>
           ELSE /\ q' = [q EXCEPT ![Chan[n]][Dir[m]] = Append(@, m)]
                /\ queuedIn' = queuedIn \cup {m}
                /\ reqCancel' = reqCancel \cup {n}
                /\ Unlock(a)
                /\ NextOp(a)
    /\ UNCHANGED <<closed, closing, callbacks, timer, told>>

\* Mutant: the incoming node waits after the first failure.
AfterFailureWaits(a) ==
    /\ pc[a] = "failed"
    /\ LET n == Op(a)
           m == peer[a]
           back == SelectOf(m) \notin done
       IN  /\ q' = [q EXCEPT ![Chan[n]][Dir[m]] = IF back THEN <<m>> \o @ ELSE @,
                             ![Chan[n]][Dir[n]] = IF back THEN @ ELSE Append(@, n)]
           /\ queuedIn' = queuedIn \cup {IF back THEN m ELSE n}
           /\ reqCancel' = reqCancel \cup {IF back THEN n ELSE m}
           /\ Unlock(a)
           /\ NextOp(a)
    /\ UNCHANGED <<closed, closing, callbacks, timer, told>>

\* After a failed kcas: a popped node whose select is done is left to its
\* select, otherwise it goes back and the incoming node is left to its select.
AfterFailure(a) ==
    /\ pc[a] = "failed"
    /\ LET n == Op(a)
           m == peer[a]
       IN  IF SelectOf(m) \in done
           THEN /\ reqCancel' = reqCancel \cup {m}
                /\ pc' = [pc EXCEPT ![a] = "loop"]
                /\ peer' = [peer EXCEPT ![a] = None]
                /\ UNCHANGED <<q, queuedIn, lock, at>>
           ELSE /\ q' = [q EXCEPT ![Chan[n]][Dir[m]] = <<m>> \o @]
                /\ queuedIn' = queuedIn \cup {m}
                /\ reqCancel' = reqCancel \cup {n}
                /\ Unlock(a)
                /\ NextOp(a)
    /\ UNCHANGED <<closed, closing, callbacks, timer, told>>

NodeOf(a, d) == IF Dir[Op(a)] = d THEN Op(a) ELSE peer[a]

CallRecv(a) ==
    /\ pc[a] = "call_recv"
    /\ Call(NodeOf(a, "recv"), "value")
    /\ pc' = [pc EXCEPT ![a] = "call_send"]
    /\ UNCHANGED <<queues, lock, timer, told, at, peer>>

CallSend(a) ==
    /\ pc[a] = "call_send"
    /\ Call(NodeOf(a, "send"), "value")
    /\ NextOp(a)
    /\ UNCHANGED <<queues, lock, timer, told>>

-----------------------------------------------------------------------------

\* close(): a second call changes nothing but its own callback.
Close(c) ==
    /\ c \in Closable \ closed
    /\ lock[c] = None
    /\ closed' = closed \cup {c}
    /\ closing' = [closing EXCEPT ![c] = q[c]["recv"]]
    /\ q' = [q EXCEPT ![c]["recv"] = <<>>]
    /\ queuedIn' = queuedIn \ ToSet(q[c]["recv"])
    /\ UNCHANGED <<reqCancel, lock, callbacks, timer, told, agent>>

CloseCalls(c) ==
    /\ closing[c] # <<>>
    /\ Call(Head(closing[c]), "error")
    /\ closing' = [closing EXCEPT ![c] = Tail(@)]
    /\ UNCHANGED <<q, closed, queuedIn, reqCancel, lock, timer, told, agent>>

-----------------------------------------------------------------------------
\* unsend() and unreceive()

\* erase: the node leaves its place in the list.
Erase(s, n) == RemoveAt(s, CHOOSE i \in DOMAIN s : s[i] = n)

\* Mutant: the callback is called whoever else has called it.
UnAlways(n) ==
    LET c == Chan[n] IN
    /\ lock[c] = None
    /\ told' = told \cup {n}
    /\ q' = [q EXCEPT ![c][Dir[n]] = IF n \in queuedIn THEN Erase(@, n) ELSE @]
    /\ queuedIn' = queuedIn \ {n}
    /\ reqCancel' = reqCancel \cup {n}
    /\ Call(n, "null")
    /\ UNCHANGED <<closed, closing, lock, timer, agent>>

\* Mutant: a node that is taken out of its queue is not marked.
UnUnmarked(n) ==
    LET c == Chan[n] IN
    /\ lock[c] = None
    /\ told' = told \cup {n}
    /\ q' = [q EXCEPT ![c][Dir[n]] = IF n \in queuedIn THEN Erase(@, n) ELSE @]
    /\ queuedIn' = queuedIn \ {n}
    /\ reqCancel' = reqCancel \cup {n}
    /\ IF n \in reqCancel THEN Call(n, "null") ELSE UNCHANGED callbacks
    /\ UNCHANGED <<closed, closing, lock, timer, agent>>

Un(n) ==
    LET c == Chan[n] IN
    /\ lock[c] = None
    /\ told' = told \cup {n}
    /\ q' = [q EXCEPT ![c][Dir[n]] = IF n \in queuedIn THEN Erase(@, n) ELSE @]
    /\ queuedIn' = queuedIn \ {n}
    /\ reqCancel' = reqCancel \cup {n}
    /\ IF n \in queuedIn \cup reqCancel
       THEN Call(n, "null")
       ELSE UNCHANGED callbacks
    /\ UNCHANGED <<closed, closing, lock, timer, agent>>

\* try_cancel_beside of a select that has won: every case but the winner.
CancelSibling(s, n) ==
    /\ n \in ToSet(Cases[s]) \ (told \cup {winner[s]})
    /\ winner[s] # None
    /\ Emitted(s)
    /\ Un(n)

\* The handle that emit() returned for a plain node.
CancelPlain(n) ==
    /\ n \in Cancels \ told
    /\ Emitted(n)
    /\ result[n] = "none"
    /\ Un(n)

-----------------------------------------------------------------------------

Step(a) ==
    \/ TurnAway(a)
    \/ Wait(a)
    \/ EnterLoop(a)
    \/ LoopEmpty(a)
    \/ Pop(a)
    \/ AfterFailure(a)
    \/ CallRecv(a)
    \/ CallSend(a)

CancelTask(s) ==
    \/ \E n \in Nodes : CancelSibling(s, n)
    \/ /\ winner[s] # None
       /\ Emitted(s)
       /\ TimerCompletes(s, "null")

Finished ==
    /\ \A a \in Agents : Emitted(a)
    /\ UNCHANGED vars

Next ==
    \/ \E a \in Agents : Step(a)
    \/ \E s \in Selects : CancelTask(s)
    \/ \E s \in Selects, r \in {"value", "error", "null"} : TimerCompletes(s, r)
    \/ \E n \in Nodes : CancelPlain(n)
    \/ \E c \in Channels : Close(c) \/ CloseCalls(c)
    \/ Finished

\* Threads go on with what they are in; nobody has to close a channel, to use a
\* handle or to fire a timer.  Weak fairness is enough without a fair mutex,
\* every agent having a finite program.
Fairness ==
    /\ \A a \in Agents : WF_vars(Step(a))
    /\ \A n \in Nodes : WF_vars(\E s \in Selects : CancelSibling(s, n))
    /\ \A s \in Selects :
           WF_vars(winner[s] # None /\ Emitted(s) /\ TimerCompletes(s, "null"))
    /\ \A c \in Channels : WF_vars(CloseCalls(c))

Spec == Init /\ [][Next]_vars /\ Fairness

-----------------------------------------------------------------------------
\* Properties

Results == {"none", "value", "error", "null"}
Queued(n) == n \in ToSet(q[Chan[n]][Dir[n]])

TypeOK ==
    /\ q \in [Channels -> [{"send", "recv"} -> Seq(Nodes)]]
    /\ closing \in [Channels -> Seq(Nodes)] /\ closed \subseteq Channels
    /\ lock \in [Channels -> Agents \cup {None}]
    /\ queuedIn \subseteq Nodes /\ reqCancel \subseteq Nodes /\ told \subseteq Nodes
    /\ done \subseteq Selects
    /\ slot \in [Selects -> Seq({"value", "error", "null"})]
    /\ winner \in [Selects -> Nodes \cup Selects \cup {None}]
    /\ timer \in [Timers -> {"armed", "value", "error", "null"}]
    /\ result \in [Nodes -> Results] /\ calls \in [Nodes -> Nat]
    /\ pc \in [Agents -> {"begin", "loop", "failed", "call_recv", "call_send"}]
    /\ at \in [Agents -> Nat \ {0}]
    /\ peer \in [Agents -> Nodes \cup {None}]

\* queued_in is set exactly for the nodes in the queue of their channel (the
\* assertions of un_impl, channel.hpp:322-327), which have no requested_cancel
\* (channel.hpp:248); nobody waits to receive from a closed channel, and only
\* close() has receivers to tell.
QueueClean ==
    /\ \A c \in Channels, d \in {"send", "recv"} :
           /\ IsInjective(q[c][d])
           /\ \A n \in ToSet(q[c][d]) : Chan[n] = c /\ Dir[n] = d
    /\ queuedIn = {n \in Nodes : Queued(n)}
    /\ queuedIn \cap reqCancel = {} /\ told \subseteq reqCancel
    /\ \A c \in Channels :
           /\ IsInjective(closing[c])
           /\ \A n \in ToSet(closing[c]) : Chan[n] = c
           /\ IF c \in closed THEN q[c]["recv"] = <<>> ELSE closing[c] = <<>>

\* The operations their agent has returned from.
Past(n) == \E a \in Agents : \E i \in 1 .. at[a] - 1 : Program(a)[i] = n

\* What an agent in send() or receive() relies on: it holds the mutex in the loop
\* and nowhere else, what it has popped is an operation of the other kind that
\* nobody has cancelled, and a sender in the loop finds its channel open.
InOperation(a) ==
    /\ at[a] <= Len(Program(a)) + 1
    /\ pc[a] # "begin" => ~Emitted(a)
    /\ \A c \in Channels :
           lock[c] = a <=> pc[a] \in {"loop", "failed"} /\ c = Chan[Op(a)]
    /\ pc[a] \in {"failed", "call_recv", "call_send"} =>
           /\ peer[a] \in Nodes /\ Past(peer[a])
           /\ Chan[peer[a]] = Chan[Op(a)] /\ Dir[peer[a]] = Other(Dir[Op(a)])
    /\ pc[a] \in {"loop", "failed"} /\ Dir[Op(a)] = "send" => Chan[Op(a)] \notin closed
    /\ pc[a] = "failed" => peer[a] \notin reqCancel
    /\ pc[a] = "call_recv" => ~SameSelect(Op(a), peer[a])

\* Who still has a pointer to a node: an agent in an operation, or close().
Holds(a, n) ==
    \/ pc[a] \in {"loop", "failed", "call_recv"} /\ n = Op(a)
    \/ pc[a] \in {"failed", "call_recv"} /\ n = peer[a]
    \/ pc[a] = "call_send" /\ n = NodeOf(a, "send")
Held(n) == \E a \in Agents : Holds(a, n)
Closing(n) == n \in ToSet(closing[Chan[n]])

\* The receiver that was called while its agent has the sender still to call.
Returning(n) == \E a \in Agents : pc[a] = "call_send" /\ n = Op(a) /\ Dir[n] = "recv"

\* A node is in one place at a time: in its queue, with close(), with one agent,
\* or marked for whoever cancels it.
OnePlace(n) ==
    /\ ~Past(n) => ~Closing(n) /\ n \notin queuedIn \cup reqCancel
    /\ Closing(n) => n \notin queuedIn
    /\ Held(n) => ~Closing(n) /\ n \notin queuedIn
    /\ \A a, b \in Agents : Holds(a, n) /\ Holds(b, n) => a = b
    /\ Closing(n) \/ Held(n) => n \notin reqCancel \ told

\* As long as it is in one of them it has not completed: its connection, and the
\* node in it, may be gone once the callback was called.
HeldNodesLive(n) ==
    /\ n \in queuedIn \cup (reqCancel \ told) \/ Closing(n) \/ Held(n) => result[n] = "none"
    /\ ~Past(n) /\ ~Returning(n) => result[n] = "none"

\* Every operation completes at most once, whatever combination of a match, a
\* close, a cancellation and a failed kcas reaches its node.
CompletesOnce(n) == calls[n] = IF result[n] = "none" THEN 0 ELSE 1

\* Agent a has claimed done_ of select s and not called its case yet.
Claimant(a, s) ==
    \/ pc[a] = "call_recv" /\ s \in Claims(Op(a), peer[a])
    \/ pc[a] = "call_send" /\ s = SelectOf(NodeOf(a, "send"))

\* done_ has one owner at most, who alone fills the slot.
OneClaim(s) ==
    /\ s \in done <=> slot[s] # <<>> \/ \E a \in Agents : Claimant(a, s)
    /\ \A a \in Agents : Claimant(a, s) => slot[s] = <<>>
    /\ \A a, b \in Agents : Claimant(a, s) /\ Claimant(b, s) => a = b
    /\ Len(slot[s]) <= 1
    /\ slot[s] = <<>> => winner[s] = None
    /\ \A n \in ToSet(Cases[s]) : result[n] = "value" => winner[s] = n

\* What holds of every single node in any state: its marks agree with the place
\* it is in, and it is called at most once, whoever gets to it (channel.hpp:248,
\* 279, 322-333); and of every select: its done_ has one owner.
Inv ==
    /\ TypeOK /\ QueueClean
    /\ \A a \in Agents : InOperation(a)
    /\ \A n \in Nodes : OnePlace(n) /\ HeldNodesLive(n) /\ CompletesOnce(n)
    /\ \A s \in Selects : OneClaim(s)

\* A select commits to one case: one outcome in its slot, and no two of its
\* cases exchange a value, although they wait on different channels.
SelectCommitsOnce ==
    \A s \in Selects :
        /\ Len(slot[s]) <= 1
        /\ \A n, m \in ToSet(Cases[s]) :
               result[n] = "value" /\ result[m] = "value" => n = m
        /\ s \in Timers /\ winner[s] = s =>
               \A n \in ToSet(Cases[s]) : result[n] # "value"

\* The kcas takes both done_ words or none: a select that was claimed has been
\* given its outcome, or an agent is on its way to the callbacks of one of its
\* cases.  A claim that is left behind silences a select for ever.
BothOrNeither ==
    \A s \in done :
        \/ slot[s] # <<>>
        \/ \E a \in Agents : /\ pc[a] \in {"call_recv", "call_send"}
                           /\ s \in {SelectOf(Op(a)), SelectOf(peer[a])}

\* While nobody is in an operation on the channel, no sender and no receiver
\* that could still be matched wait in its two queues at the same time.
Open(n) == SelectOf(n) \notin done
NoLostRendezvous ==
    \A c \in Channels : lock[c] = None =>
        \A n \in ToSet(q[c]["send"]), m \in ToSet(q[c]["recv"]) :
            SameSelect(n, m) \/ ~Open(n) \/ ~Open(m)

\* Who waits in line: a popped node is still first until its kcas has succeeded.
Line(c, d) ==
    IF lock[c] # None /\ pc[lock[c]] = "failed" /\ Dir[peer[lock[c]]] = d
    THEN <<peer[lock[c]]>> \o q[c][d]
    ELSE q[c][d]

\* First come, first served: two operations that go on waiting in the same queue
\* never change places, also when a failed match puts one of them back.
Before(x, y, s) == \E i, j \in DOMAIN s : i < j /\ s[i] = x /\ s[j] = y
NoOvertaking ==
    [][\A c \in Channels, d \in {"send", "recv"} :
          \A x, y \in ToSet(Line(c, d)') :
              Before(x, y, Line(c, d)) => Before(x, y, Line(c, d)')]_vars

\* DEBUG_ASSERT(!is_same_select(...)), channel.hpp:271.
NoSelfMatch == \A a \in Agents : pc[a] = "failed" => ~SameSelect(Op(a), peer[a])

\* Once a select is decided every one of its cases completes, whatever happened
\* to its node, so that its connection can be deleted.
SelectSettles ==
    \A s \in Selects :
        (s \in done) ~> (\A n \in ToSet(Cases[s]) : result[n] # "none")

\* A cancelled plain operation completes, with null or with its value.
CancelSettles == \A n \in Cancels : (n \in told) ~> (result[n] # "none")

=============================================================================
