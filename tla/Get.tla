--------------------------------- MODULE Get ---------------------------------
(***************************************************************************)
(* A contract whose future is waited for with get: algo/make/contract.hpp, *)
(* algo/emit/force.hpp, algo/emit/get.hpp and the events of thread/event.  *)
(* In every pipeline one thread keeps the promise (or drops it), another   *)
(* subscribes to the forced signal and blocks on the event.  They meet in  *)
(* force_storage::state_, and whoever comes second fulfils the slot, sets  *)
(* the event and deletes the storage.  Instead of get the future may be    *)
(* dropped.                                                                *)
(***************************************************************************)
EXTENDS Naturals

CONSTANTS
    Pipelines,
    Kind        \* Kind[p]: "atomic" or "mutex", the event of the pipeline

ASSUME GetAssumption == Kind \in [Pipelines -> {"atomic", "mutex"}]

VARIABLES
    state,     \* state[p]: "empty", "callback" or "result"
    stored,    \* stored[p]: maybe_result_ of force_storage, or "unset"
    freed,     \* freed[p]: how often the storage was deleted
    got,       \* got[p]: maybe_result of get, "null" as long as it is empty
    isSet,     \* isSet[p]: is_set_ of the event
    parked,    \* the pipelines whose getter sleeps on the event
    producer,  \* producer[p]: where the holder of the promise is
    getter,    \* getter[p]: where the caller of get is
    kept       \* kept[p]: the result the promise was kept with, or "unset"

storage == <<state, stored, freed>>
event == <<isSet, parked>>
vars == <<storage, got, event, producer, getter, kept>>

Init ==
    /\ state = [p \in Pipelines |-> "empty"]
    /\ stored = [p \in Pipelines |-> "unset"]
    /\ freed = [p \in Pipelines |-> 0]
    /\ got = [p \in Pipelines |-> "null"]
    /\ isSet = [p \in Pipelines |-> FALSE]
    /\ parked = {}
    /\ producer = [p \in Pipelines |-> "promise"]
    /\ getter = [p \in Pipelines |-> "load"]
    /\ kept = [p \in Pipelines |-> "unset"]

\* A thread of p is one of its two programs.
ProducerTo(p, from, to) ==
    /\ producer[p] = from
    /\ producer' = [producer EXCEPT ![p] = to]
    /\ UNCHANGED getter
GetterTo(p, from, to) ==
    /\ getter[p] = from
    /\ getter' = [getter EXCEPT ![p] = to]
    /\ UNCHANGED producer

-----------------------------------------------------------------------------
\* The promise: set_value, set_error, set_null, or the finalizer, which is null.

KeepPromise(p, r) ==
    /\ ProducerTo(p, "promise", "exchange")
    /\ kept' = [kept EXCEPT ![p] = r]
    /\ stored' = [stored EXCEPT ![p] = r]
    /\ UNCHANGED <<state, freed, got, event>>

\* Mutant: what the exchange returned is not looked at.
ExchangeUnchecked(p) ==
    /\ ProducerTo(p, "exchange", "fulfil")
    /\ state' = [state EXCEPT ![p] = "result"]
    /\ UNCHANGED <<stored, freed, got, event, kept>>

\* force_storage::set_result
Exchange(p) ==
    /\ ProducerTo(p, "exchange", IF state[p] = "empty" THEN "done" ELSE "fulfil")
    /\ state' = [state EXCEPT ![p] = "result"]
    /\ UNCHANGED <<stored, freed, got, event, kept>>

-----------------------------------------------------------------------------
\* force_storage::set_slot_callback

LoadState(p) ==
    /\ GetterTo(p, "load", IF state[p] = "empty" THEN "cas" ELSE "fulfil")
    /\ UNCHANGED <<storage, got, event, kept>>

\* Mutant: a plain store after the load.
StoreCallback(p) ==
    /\ GetterTo(p, "cas", "wait")
    /\ state' = [state EXCEPT ![p] = "callback"]
    /\ UNCHANGED <<stored, freed, got, event, kept>>

CasState(p) ==
    /\ GetterTo(p, "cas", IF state[p] = "empty" THEN "wait" ELSE "fulfil")
    /\ state' = [state EXCEPT ![p] = IF @ = "empty" THEN "callback" ELSE @]
    /\ UNCHANGED <<stored, freed, got, event, kept>>

\* A future that nobody subscribes to deletes the storage.  The promise must have
\* been kept by then: it still points to the storage and does not know.
DropFuture(p) ==
    /\ producer[p] = "done"
    /\ GetterTo(p, "load", "dropped")
    /\ freed' = [freed EXCEPT ![p] = @ + 1]
    /\ UNCHANGED <<state, stored, got, event, kept>>

-----------------------------------------------------------------------------
\* Whoever comes second: the slot of get, the event, delete this.

\* Mutant: the event is set before the result is there.
FulfilSetsEarly(p) ==
    /\ isSet' = [isSet EXCEPT ![p] = TRUE]
    /\ UNCHANGED <<storage, got, parked, kept>>

Fulfil(p) ==
    /\ got' = [got EXCEPT ![p] = IF stored[p] = "null" THEN @ ELSE stored[p]]
    /\ UNCHANGED <<storage, event, kept>>

\* atomic_event::set stores, then notifies; mutex_event::set only stores.
Set(p) ==
    /\ isSet' = [isSet EXCEPT ![p] = TRUE]
    /\ UNCHANGED <<parked, storage, got, kept>>

Notify(p) ==
    /\ parked' = IF Kind[p] = "atomic" THEN parked \ {p} ELSE parked
    /\ UNCHANGED <<isSet, storage, got, kept>>

Delete(p) ==
    /\ freed' = [freed EXCEPT ![p] = @ + 1]
    /\ UNCHANGED <<state, stored, got, event, kept>>

ProducerCompletes(p) ==
    \/ ProducerTo(p, "fulfil", "set") /\ Fulfil(p)
    \/ ProducerTo(p, "set", "notify") /\ Set(p)
    \/ ProducerTo(p, "notify", "delete") /\ Notify(p)
    \/ ProducerTo(p, "delete", "done") /\ Delete(p)

GetterCompletes(p) ==
    \/ GetterTo(p, "fulfil", "set") /\ Fulfil(p)
    \/ GetterTo(p, "set", "notify") /\ Set(p)
    \/ GetterTo(p, "notify", "delete") /\ Notify(p)
    \/ GetterTo(p, "delete", "wait") /\ Delete(p)

-----------------------------------------------------------------------------
\* The wait of the event.

\* atomic_event: the load, then atomic::wait(0), which sleeps only if the word
\* still is 0.
CheckAtomic(p) ==
    /\ Kind[p] = "atomic" /\ p \notin parked
    /\ GetterTo(p, "wait", IF isSet[p] THEN "returned" ELSE "sleep")
    /\ UNCHANGED <<storage, got, event, kept>>

SleepAtomic(p) ==
    /\ GetterTo(p, "sleep", "wait")
    /\ parked' = IF isSet[p] THEN parked ELSE parked \cup {p}
    /\ UNCHANGED <<isSet, storage, got, kept>>

\* mutex_event: is_set_ is checked and the condition variable entered under the
\* one mutex.
WaitMutex(p) ==
    /\ Kind[p] = "mutex" /\ p \notin parked
    /\ GetterTo(p, "wait", IF isSet[p] THEN "returned" ELSE "wait")
    /\ parked' = IF isSet[p] THEN parked ELSE parked \cup {p}
    /\ UNCHANGED <<isSet, storage, got, kept>>

\* A condition variable may wake for no reason, and need not.
WakeSpuriously(p) ==
    /\ p \in parked
    /\ parked' = parked \ {p}
    /\ UNCHANGED <<isSet, storage, got, producer, getter, kept>>

-----------------------------------------------------------------------------

Produce(p) ==
    \/ \E r \in {"value", "error", "null"} : KeepPromise(p, r)
    \/ Exchange(p)
    \/ ProducerCompletes(p)

Receive(p) ==
    \/ LoadState(p)
    \/ CasState(p)
    \/ GetterCompletes(p)
    \/ CheckAtomic(p)
    \/ SleepAtomic(p)
    \/ WaitMutex(p)

Next == \E p \in Pipelines : Produce(p) \/ Receive(p) \/ DropFuture(p) \/ WakeSpuriously(p)

\* Both threads run; the promise is kept or dropped in the end.
Spec ==
    /\ Init
    /\ [][Next]_vars
    /\ \A p \in Pipelines : WF_vars(Produce(p)) /\ WF_vars(Receive(p))

-----------------------------------------------------------------------------
\* Properties

Results == {"value", "error", "null"}

ProducerSteps == {"promise", "exchange", "fulfil", "set", "notify", "delete", "done"}
GetterSteps == {"load", "cas", "fulfil", "set", "notify", "delete", "wait", "sleep",
                "returned", "dropped"}

\* Types; the storage is in use as long as it is not deleted, and deleted once.
TypeOK ==
    /\ state \in [Pipelines -> {"empty", "callback", "result"}]
    /\ stored \in [Pipelines -> Results \cup {"unset"}]
    /\ kept \in [Pipelines -> Results \cup {"unset"}]
    /\ got \in [Pipelines -> Results]
    /\ isSet \in [Pipelines -> BOOLEAN]
    /\ parked \subseteq Pipelines
    /\ freed \in [Pipelines -> 0..1]
    /\ producer \in [Pipelines -> ProducerSteps]
    /\ getter \in [Pipelines -> GetterSteps]

\* Exactly one of the two threads deletes the storage, and neither has a step in
\* it left then.
StorageOwned ==
    \A p \in Pipelines :
        /\ freed[p] = 1 =>
               /\ producer[p] \notin {"promise", "exchange", "fulfil", "delete"}
               /\ getter[p] \notin {"load", "cas", "fulfil", "delete"}
        /\ producer[p] = "done" /\ getter[p] \in {"returned", "dropped"} => freed[p] = 1

Completing == {"fulfil", "set", "notify", "delete"}

\* Where the two threads can be for each value of state_: who found it empty is
\* not the one who completes, and only one of them does.
HandOver ==
    \A p \in Pipelines :
        \/ /\ state[p] = "empty" /\ freed[p] = 0
           /\ producer[p] \in {"promise", "exchange"}
           /\ getter[p] \in {"load", "cas"}
        \/ /\ state[p] = "callback" /\ freed[p] = 0
           /\ producer[p] \in {"promise", "exchange"}
           /\ getter[p] \in {"wait", "sleep"}
        \/ /\ state[p] = "result" /\ freed[p] = 0
           /\ producer[p] \in Completing
           /\ getter[p] \in {"wait", "sleep", "returned"}
        \/ /\ state[p] = "result" /\ freed[p] = 0
           /\ producer[p] = "done"
           /\ getter[p] \in {"load", "cas"} \cup Completing
        \/ /\ state[p] = "result" /\ freed[p] = 1
           /\ producer[p] = "done"
           /\ getter[p] \in {"wait", "sleep", "returned", "dropped"}

\* The slot of get has been called, the event has been set.
Fulfilled(p) ==
    \/ producer[p] \in {"set", "notify", "delete"}
    \/ producer[p] = "done" /\ getter[p] \notin {"load", "cas", "fulfil", "dropped"}
Signalled(p) == Fulfilled(p) /\ "set" \notin {producer[p], getter[p]}

\* The result goes from the promise through the storage to the caller of get,
\* who is not let go before it is there.
ResultPassed ==
    \A p \in Pipelines :
        /\ stored[p] = kept[p]
        /\ kept[p] = "unset" <=> producer[p] = "promise"
        /\ got[p] = IF Fulfilled(p) THEN kept[p] ELSE "null"
        /\ isSet[p] <=> Signalled(p)
        /\ getter[p] = "returned" => isSet[p]

\* A getter never sleeps on an atomic_event that is set, unless somebody is about
\* to wake it (event/atomic.hpp:14-20): this is why GetReturns holds.
NoLostWakeup ==
    \A p \in Pipelines :
        Kind[p] = "atomic" /\ p \in parked /\ isSet[p] => "notify" \in {producer[p], getter[p]}

\* The invariant of the storage and the event that promise and subscriber share
\* (force.hpp:61).
Inv == TypeOK /\ StorageOwned /\ HandOver /\ ResultPassed /\ NoLostWakeup

\* get returns what the promise was kept with, and nothing before.
GetsWhatWasKept ==
    \A p \in Pipelines : getter[p] = "returned" => got[p] = kept[p]

\* get<atomic_event> returns once the promise is kept or dropped, whichever of
\* the two threads comes first in the storage and at the event.
GetReturns ==
    \A p \in Pipelines : Kind[p] = "atomic" => <>(getter[p] \in {"returned", "dropped"})

=============================================================================
