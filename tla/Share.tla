------------------------------- MODULE Share -------------------------------
(***************************************************************************)
(* algo/emit/share.hpp: one signal, many subscribers.  share_storage holds *)
(* the connection to the inner signal, its result and a reference count;   *)
(* state_ is empty, the head of a list of waiting callbacks, or `result'.  *)
(* Each subscriber is a share_signal that becomes a share_connection; the  *)
(* setter is whoever completes the inner signal, on any thread.  fork()    *)
(* makes its branches from a box that it drops.                            *)
(***************************************************************************)
EXTENDS Integers, Sequences, SequencesExt, FiniteSets

CONSTANTS
    Subscribers,  \* the share_signals that get_signal() may hand out
    Empty,        \* state_empty, and the null pointer of intrusive_next
    Result        \* state_result

ASSUME ShareAssumption ==
    /\ IsFiniteSet(Subscribers)
    /\ Empty \notin Subscribers
    /\ Result \notin Subscribers \cup {Empty}

VARIABLES
    box,       \* does the share_box exist?
    refcount,
    freed,     \* has the storage been deleted?
    state,
    stored,    \* is the result in maybe_result_?
    inner,     \* the inner signal: "lazy", "emitted", "stored", "walk" or "done"
    cursor,    \* the callback that set_result calls next, or Empty
    count,     \* callback_count
    phase,     \* phase[c]: where subscriber c is, see TypeOK
    ptr,       \* ptr[c]: is its storage_ptr_ not null?
    alive,     \* alive[c]: does its signal or connection exist?
    curr,      \* curr[c]: the curr_state it has read
    next,      \* next[c]: its intrusive_next
    got,       \* got[c]: for each call of its slot, whether the result was there
    list       \* history: the callbacks pushed and not yet called, newest first;
               \* the code has only the links, which Linked ties to it

vars == <<box, refcount, freed, state, stored, inner, cursor, count,
          phase, ptr, alive, curr, next, got, list>>

counting == <<refcount, freed>>
setting == <<stored, inner, cursor, count>>

Init ==
    /\ box = TRUE /\ refcount = 1 /\ freed = FALSE
    /\ state = Empty /\ stored = FALSE /\ inner = "lazy"
    /\ cursor = Empty /\ count = 0
    /\ phase = [c \in Subscribers |-> "absent"]
    /\ ptr = [c \in Subscribers |-> FALSE]
    /\ alive = [c \in Subscribers |-> FALSE]
    /\ curr = [c \in Subscribers |-> Empty]
    /\ next = [c \in Subscribers |-> Empty]
    /\ got = [c \in Subscribers |-> <<>>]
    /\ list = <<>>

-----------------------------------------------------------------------------
\* The reference count

Incref ==
    /\ refcount' = refcount + 1
    /\ UNCHANGED freed

Decref(diff) ==
    /\ refcount' = refcount - diff
    /\ freed' = (freed \/ refcount = diff)

DropBox ==
    /\ box
    /\ box' = FALSE
    /\ Decref(1)
    /\ UNCHANGED <<state, setting, phase, ptr, alive, curr, next, got, list>>

GetSignal(c) ==
    /\ box
    /\ phase[c] = "absent"
    /\ Incref
    /\ phase' = [phase EXCEPT ![c] = "signal"]
    /\ ptr' = [ptr EXCEPT ![c] = TRUE]
    /\ alive' = [alive EXCEPT ![c] = TRUE]
    /\ UNCHANGED <<box, state, setting, curr, next, got, list>>

\* fork(n): a box made for the purpose, a signal for each branch, and no box any
\* more when fork() returns; its destructor gives back the first reference.
Fork ==
    /\ box
    /\ \A c \in Subscribers : phase[c] = "absent"
    /\ box' = FALSE
    /\ refcount' = (refcount + Cardinality(Subscribers)) - 1
    /\ freed' = (refcount + Cardinality(Subscribers) = 1)
    /\ phase' = [c \in Subscribers |-> "signal"]
    /\ ptr' = [c \in Subscribers |-> TRUE]
    /\ alive' = [c \in Subscribers |-> TRUE]
    /\ UNCHANGED <<state, setting, curr, next, got, list>>

\* subscribe() moves the pointer from the signal to the connection.
Subscribe(c) ==
    /\ phase[c] = "signal" /\ alive[c]
    /\ phase' = [phase EXCEPT ![c] = "connected"]
    /\ UNCHANGED <<box, counting, state, setting, ptr, alive, curr, next, got, list>>

\* The destructors of share_signal and share_connection.  A connection that was
\* emitted is not destroyed before its slot has been called.
Destroy(c) ==
    /\ alive[c]
    /\ phase[c] \in {"signal", "connected"} \/ got[c] # <<>>
    /\ alive' = [alive EXCEPT ![c] = FALSE]
    /\ IF ptr[c] THEN Decref(1) ELSE UNCHANGED counting
    /\ UNCHANGED <<box, state, setting, phase, ptr, curr, next, got, list>>

-----------------------------------------------------------------------------
\* emit()

\* Mutant: the pointer stays with the connection.
EmitKeepsPointer(c) ==
    /\ phase[c] = "connected" /\ alive[c]
    /\ phase' = [phase EXCEPT ![c] = "first"]
    /\ UNCHANGED <<box, counting, state, setting, ptr, alive, curr, next, got, list>>

Emit(c) ==
    /\ phase[c] = "connected" /\ alive[c]
    /\ ptr' = [ptr EXCEPT ![c] = FALSE]
    /\ phase' = [phase EXCEPT ![c] = "first"]
    /\ UNCHANGED <<box, counting, state, setting, alive, curr, next, got, list>>

\* Where a subscriber goes with the state it has just read.
Onwards(s) == IF s = Result THEN "late" ELSE "push"

\* The compare_exchange_strong from state_empty: who succeeds starts the inner
\* signal, as its own last step.
EmitFirst(c) ==
    /\ phase[c] = "first"
    /\ IF state = Empty
       THEN /\ state' = c
            /\ phase' = [phase EXCEPT ![c] = "inner"]
            /\ list' = <<c>> \o list
            /\ UNCHANGED curr
       ELSE /\ phase' = [phase EXCEPT ![c] = Onwards(state)]
            /\ curr' = [curr EXCEPT ![c] = state]
            /\ UNCHANGED <<state, list>>
    /\ UNCHANGED <<box, counting, setting, ptr, alive, next, got>>

InternalConnectionEmit(c) ==
    /\ phase[c] = "inner"
    /\ inner' = "emitted"
    /\ phase' = [phase EXCEPT ![c] = "listed"]
    /\ UNCHANGED <<box, counting, state, stored, cursor, count, ptr, alive, curr, next, got,
                   list>>

SetNext(c) ==
    /\ phase[c] = "push"
    /\ next' = [next EXCEPT ![c] = curr[c]]
    /\ phase' = [phase EXCEPT ![c] = "cas"]
    /\ UNCHANGED <<box, counting, state, setting, ptr, alive, curr, got, list>>

\* Mutant: the head is overwritten whatever it has become.
PushStores(c) ==
    /\ phase[c] = "cas"
    /\ state' = c
    /\ list' = <<c>> \o list
    /\ phase' = [phase EXCEPT ![c] = "listed"]
    /\ UNCHANGED <<box, counting, setting, ptr, alive, curr, next, got>>

\* The compare_exchange_weak of the loop.
PushCas(c) ==
    /\ phase[c] = "cas"
    /\ IF state = curr[c]
       THEN /\ state' = c
            /\ phase' = [phase EXCEPT ![c] = "listed"]
            /\ list' = <<c>> \o list
            /\ UNCHANGED curr
       ELSE /\ phase' = [phase EXCEPT ![c] = Onwards(state)]
            /\ curr' = [curr EXCEPT ![c] = state]
            /\ UNCHANGED <<state, list>>
    /\ UNCHANGED <<box, counting, setting, ptr, alive, next, got>>

\* The weak exchange may fail for no reason: it then goes round with the state
\* it has read again.
PushSpurious(c) ==
    /\ phase[c] = "cas"
    /\ phase' = [phase EXCEPT ![c] = Onwards(state)]
    /\ curr' = [curr EXCEPT ![c] = state]
    /\ UNCHANGED <<box, counting, state, setting, ptr, alive, next, got, list>>

\* operator(): the slot gets a copy of what maybe_result_ holds now.
Call(c) == got' = [got EXCEPT ![c] = Append(@, stored)]

EmitLate(c) ==
    /\ phase[c] = "late"
    /\ Call(c)
    /\ phase' = [phase EXCEPT ![c] = "release"]
    /\ UNCHANGED <<box, counting, state, setting, ptr, alive, curr, next, list>>

Release(c) ==
    /\ phase[c] = "release"
    /\ Decref(1)
    /\ phase' = [phase EXCEPT ![c] = "done"]
    /\ UNCHANGED <<box, state, setting, ptr, alive, curr, next, got, list>>

-----------------------------------------------------------------------------
\* set_result()

\* Mutant: the state is published before the result is in its place.
StoreResultLater ==
    /\ inner = "emitted"
    /\ inner' = "stored"
    /\ UNCHANGED <<box, counting, state, stored, cursor, count, phase, ptr, alive, curr,
                   next, got, list>>

StoreResult ==
    /\ inner = "emitted"
    /\ stored' = TRUE
    /\ inner' = "stored"
    /\ UNCHANGED <<box, counting, state, cursor, count, phase, ptr, alive, curr,
                   next, got, list>>

Exchange ==
    /\ inner = "stored"
    /\ cursor' = state
    /\ state' = Result
    /\ inner' = "walk"
    /\ UNCHANGED <<box, counting, stored, count, phase, ptr, alive, curr,
                   next, got, list>>

\* for_each reads the link before it calls: the node may be gone afterwards.
CallNext ==
    /\ inner = "walk"
    /\ cursor # Empty
    /\ Call(cursor)
    /\ count' = count + 1
    /\ cursor' = next[cursor]
    /\ list' = Tail(list)
    /\ UNCHANGED <<box, counting, state, stored, inner, phase, ptr, alive, curr, next>>

\* Mutant: one reference is given back, not one for each callback.
ReleaseOne ==
    /\ inner = "walk"
    /\ cursor = Empty
    /\ Decref(1)
    /\ inner' = "done"
    /\ UNCHANGED <<box, state, stored, cursor, count, phase, ptr, alive, curr,
                   next, got, list>>

ReleaseAll ==
    /\ inner = "walk"
    /\ cursor = Empty
    /\ Decref(count)
    /\ inner' = "done"
    /\ UNCHANGED <<box, state, stored, cursor, count, phase, ptr, alive, curr,
                   next, got, list>>

-----------------------------------------------------------------------------

EmitStep(c) ==
    \/ EmitFirst(c) \/ InternalConnectionEmit(c)
    \/ SetNext(c) \/ PushCas(c) \/ EmitLate(c) \/ Release(c)

SetResult == StoreResult \/ Exchange \/ CallNext \/ ReleaseAll

Next ==
    \/ DropBox \/ Fork
    \/ \E c \in Subscribers :
          \/ GetSignal(c) \/ Subscribe(c) \/ Destroy(c)
          \/ Emit(c) \/ EmitStep(c) \/ PushSpurious(c)
    \/ SetResult

\* An emit() that has begun and a set_result() run on, and an inner signal that
\* was emitted completes.  Nobody has to subscribe or to emit.
Fairness ==
    /\ \A c \in Subscribers : WF_vars(EmitStep(c) \/ PushSpurious(c)) /\ SF_vars(PushCas(c))
    /\ WF_vars(SetResult)

Spec == Init /\ [][Next]_vars /\ Fairness

-----------------------------------------------------------------------------
\* Properties

\* Types.
TypeOK ==
    /\ box \in BOOLEAN /\ freed \in BOOLEAN /\ stored \in BOOLEAN
    /\ refcount \in 0 .. Cardinality(Subscribers) + 1 /\ count \in Nat
    /\ state \in Subscribers \cup {Empty, Result}
    /\ inner \in {"lazy", "emitted", "stored", "walk", "done"}
    /\ cursor \in Subscribers \cup {Empty}
    /\ phase \in [Subscribers -> {"absent", "signal", "connected", "first", "inner",
                                  "push", "cas", "listed", "late", "release", "done"}]
    /\ ptr \in [Subscribers -> BOOLEAN] /\ alive \in [Subscribers -> BOOLEAN]
    /\ curr \in [Subscribers -> Subscribers \cup {Empty, Result}]
    /\ next \in [Subscribers -> Subscribers \cup {Empty}]
    /\ got \in [Subscribers -> Seq(BOOLEAN)]
    /\ list \in Seq(Subscribers)

\* Those who have been called: late, or on the walk through the list.
Called(c) ==
    \/ phase[c] \in {"release", "done"}
    \/ phase[c] = "listed" /\ c \notin ToSet(list)

\* What the fields of a subscriber are at each phase of its life: no subscriber
\* links to Empty, the first one starts the inner signal alone, and only a late
\* one or one in the list is called.
Phases ==
    \A c \in Subscribers :
        /\ ptr[c] <=> phase[c] \in {"signal", "connected"}
        /\ phase[c] = "absent" => ~alive[c]
        /\ phase[c] \in {"absent", "signal", "connected", "first"} => next[c] = Empty
        /\ phase[c] \notin {"absent", "signal", "connected"} /\ got[c] = <<>> => alive[c]
        /\ phase[c] \in {"push", "cas"} => curr[c] \in Subscribers /\ state # Empty
        /\ phase[c] = "cas" => next[c] = curr[c]
        /\ phase[c] = "inner" =>
               inner = "lazy" /\ \A d \in Subscribers \ {c} : phase[d] # "inner"
        /\ phase[c] \in {"inner", "listed"} => state # Empty
        /\ phase[c] \in {"late", "release", "done"} => state = Result
        /\ got[c] = IF Called(c) THEN <<TRUE>> ELSE <<>>

\* How far set_result() has come; it runs because somebody was the first, who
\* stays in the list.
ResultPublished ==
    /\ stored <=> inner \in {"stored", "walk", "done"}
    /\ state = Result <=> inner \in {"walk", "done"}
    /\ inner # "walk" => cursor = Empty
    /\ inner # "lazy" => \E c \in Subscribers : phase[c] = "listed"

\* The links lead from node h through nx exactly along s.
IsChain(nx, h, s) ==
    IF s = <<>> THEN h = Empty
    ELSE /\ h = s[1]
         /\ \A n \in 1 .. Len(s) : nx[s[n]] = IF n = Len(s) THEN Empty ELSE s[n + 1]

\* From state_, and on the walk from its cursor, intrusive_next leads through the
\* callbacks that were pushed and not called, each once: no push is lost and
\* none is called twice (share.hpp:95, 107, 141).
Linked ==
    /\ IsInjective(list)
    /\ \A c \in ToSet(list) : phase[c] \in {"inner", "listed"}
    /\ \A c \in Subscribers : phase[c] = "inner" => c \in ToSet(list)
    /\ inner \notin {"walk", "done"} =>
           \A c \in Subscribers : phase[c] = "listed" => c \in ToSet(list)
    /\ IsChain(next, IF state = Result THEN cursor ELSE state, list)

\* Subscriber c owns a reference: in its pointer, on its stack while it is in
\* emit(), or in the list until set_result() gives all of those back.
Holds(c) ==
    \/ alive[c] /\ ptr[c]
    \/ phase[c] \in {"first", "push", "cas", "late", "release"}
    \/ phase[c] \in {"inner", "listed"} /\ inner # "done"

\* The count is exact at every step, although the references of the list are
\* given back in one subtraction of what set_result() counted on its walk.
CountExact ==
    /\ refcount = Cardinality({c \in Subscribers : Holds(c)}) + (IF box THEN 1 ELSE 0)
    /\ freed <=> refcount = 0
    /\ count = Cardinality({c \in Subscribers : phase[c] = "listed" /\ got[c] # <<>>})

\* Once the storage is deleted nobody is left who will touch it: not the box, not
\* a subscriber, not the setter that copies the result from it.
NoUseAfterFree ==
    freed => /\ ~box
             /\ \A c \in Subscribers : ~Holds(c)
             /\ inner \in {"lazy", "done"}

\* The storage lives exactly as long as somebody holds it (share.hpp:78-82, 150).
Inv == TypeOK /\ Phases /\ ResultPublished /\ Linked /\ CountExact /\ NoUseAfterFree

\* Every slot is called at most once and then with the result, be it from the
\* list or by an emit() that came too late for it; set_result() only ever walks
\* to connections that exist and were not called.
CalledRight ==
    /\ \A c \in Subscribers : got[c] \in {<<>>, <<TRUE>>}
    /\ cursor # Empty => alive[cursor] /\ got[cursor] = <<>>

\* Whoever emits is called: no push is lost to another push or to set_result().
EveryEmitCalled == \A c \in Subscribers : (phase[c] = "first") ~> (got[c] # <<>>)

\* Without the box and without subscribers the storage does not stay behind.
Reclaimed == (~box /\ \A c \in Subscribers : ~alive[c]) ~> freed

=============================================================================
