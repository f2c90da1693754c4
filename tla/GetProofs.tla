------------------------------ MODULE GetProofs ------------------------------
(***************************************************************************)
(* Proofs about Get, for any number of pipelines with events of either     *)
(* kind: the storage that a promise and a future share is deleted once, by *)
(* the one who comes second and after the last access of the other, and    *)
(* get returns what the promise was kept with.                             *)
(***************************************************************************)
EXTENDS Get, TLAPS

\* The part of the invariant that is inductive by itself.
Core == TypeOK /\ HandOver /\ ResultPassed /\ NoLostWakeup

\* A contract begins with an empty storage.
LEMMA InitCore == Init => Core
  BY DEF Init, Core, TypeOK, HandOver, ResultPassed, Fulfilled, Signalled, Completing,
         NoLostWakeup, Results, ProducerSteps, GetterSteps

\* The promise stores its result and exchanges state_.
LEMMA PromiseCore ==
    ASSUME Core, NEW p \in Pipelines, NEW r \in Results, KeepPromise(p, r) \/ Exchange(p)
    PROVE  Core'
<1> USE DEF Core
<1>1. TypeOK'
  BY DEF KeepPromise, Exchange, ProducerTo, storage, event, TypeOK, Results, ProducerSteps
<1>2. ASSUME NEW q \in Pipelines, q # p
      PROVE  /\ state'[q] = state[q] /\ stored'[q] = stored[q] /\ freed'[q] = freed[q]
             /\ got'[q] = got[q] /\ isSet'[q] = isSet[q] /\ kept'[q] = kept[q]
             /\ producer'[q] = producer[q] /\ getter'[q] = getter[q]
             /\ q \in parked' <=> q \in parked
  BY <1>2 DEF KeepPromise, Exchange, ProducerTo, storage, event, TypeOK
<1>3. HandOver'
  BY <1>2 DEF KeepPromise, Exchange, ProducerTo, storage, event, TypeOK, HandOver, Completing
<1>4. ResultPassed'
  BY <1>2 DEF KeepPromise, Exchange, ProducerTo, storage, event, TypeOK, HandOver, Completing,
              ResultPassed, Fulfilled, Signalled, Results
<1>5. NoLostWakeup'
  BY <1>2 DEF KeepPromise, Exchange, ProducerTo, storage, event, TypeOK, NoLostWakeup
<1> QED
  BY <1>1, <1>3, <1>4, <1>5

\* The future loads and exchanges state_, or is dropped.
LEMMA SubscribeCore ==
    ASSUME Core, NEW p \in Pipelines, LoadState(p) \/ CasState(p) \/ DropFuture(p)
    PROVE  Core'
<1> USE DEF Core, LoadState, CasState, DropFuture, GetterTo, storage, event
<1>1. TypeOK'
  <2>1. DropFuture(p) => freed[p] = 0
    BY DEF HandOver, ResultPassed, Completing
  <2>2. freed' \in [Pipelines -> 0 .. 1]
    BY <2>1 DEF TypeOK
  <2>3. /\ state' \in [Pipelines -> {"empty", "callback", "result"}]
        /\ getter' \in [Pipelines -> GetterSteps]
        /\ UNCHANGED <<stored, got, isSet, parked, kept, producer>>
    BY DEF TypeOK, GetterSteps
  <2> QED
    BY <2>2, <2>3 DEF TypeOK
<1>2. ASSUME NEW q \in Pipelines, q # p
      PROVE  /\ state'[q] = state[q] /\ stored'[q] = stored[q] /\ freed'[q] = freed[q]
             /\ got'[q] = got[q] /\ isSet'[q] = isSet[q] /\ kept'[q] = kept[q]
             /\ producer'[q] = producer[q] /\ getter'[q] = getter[q]
             /\ q \in parked' <=> q \in parked
  BY <1>2 DEF TypeOK
<1>3. HandOver'
  BY <1>2 DEF TypeOK, HandOver, Completing
<1>4. ResultPassed'
  BY <1>2 DEF TypeOK, HandOver, Completing, ResultPassed, Fulfilled, Signalled, Results
<1>5. NoLostWakeup'
  BY <1>2 DEF TypeOK, NoLostWakeup
<1> QED
  BY <1>1, <1>3, <1>4, <1>5

\* The holder of the promise comes second.
LEMMA ProducerCompletesCore ==
    ASSUME Core, NEW p \in Pipelines, ProducerCompletes(p)
    PROVE  Core'
<1> USE DEF Core, ProducerCompletes, ProducerTo, Fulfil, Set, Notify, Delete, storage, event
<1>1. TypeOK'
  <2>1. /\ producer[p] \in Completing => freed[p] = 0
        /\ producer[p] = "fulfil" => stored[p] # "unset"
    BY DEF HandOver, ResultPassed, Completing
  <2>2. freed' \in [Pipelines -> 0 .. 1]
    BY <2>1 DEF TypeOK, Completing
  <2>3. got' \in [Pipelines -> Results]
    BY <2>1 DEF TypeOK, Results
  <2>4. /\ isSet' \in [Pipelines -> BOOLEAN] /\ parked' \subseteq Pipelines
        /\ producer' \in [Pipelines -> ProducerSteps]
        /\ UNCHANGED <<state, stored, kept, getter>>
    BY DEF TypeOK, ProducerSteps
  <2> QED
    BY <2>2, <2>3, <2>4 DEF TypeOK
<1>2. ASSUME NEW q \in Pipelines, q # p
      PROVE  /\ state'[q] = state[q] /\ stored'[q] = stored[q] /\ freed'[q] = freed[q]
             /\ got'[q] = got[q] /\ isSet'[q] = isSet[q] /\ kept'[q] = kept[q]
             /\ producer'[q] = producer[q] /\ getter'[q] = getter[q]
             /\ q \in parked' <=> q \in parked
  BY <1>2 DEF TypeOK
<1>3. HandOver'
  BY <1>2 DEF TypeOK, HandOver, Completing
<1>4. ResultPassed'
  BY <1>2 DEF TypeOK, HandOver, Completing, ResultPassed, Fulfilled, Signalled, Results
<1>5. NoLostWakeup'
  BY <1>2 DEF TypeOK, NoLostWakeup
<1> QED
  BY <1>1, <1>3, <1>4, <1>5

\* The caller of get comes second.
LEMMA GetterCompletesCore ==
    ASSUME Core, NEW p \in Pipelines, GetterCompletes(p)
    PROVE  Core'
<1> USE DEF Core, GetterCompletes, GetterTo, Fulfil, Set, Notify, Delete, storage, event
<1>1. TypeOK'
  <2>1. /\ getter[p] \in Completing => freed[p] = 0
        /\ getter[p] = "fulfil" => stored[p] # "unset"
    BY DEF HandOver, ResultPassed, Completing
  <2>2. freed' \in [Pipelines -> 0 .. 1]
    BY <2>1 DEF TypeOK, Completing
  <2>3. got' \in [Pipelines -> Results]
    BY <2>1 DEF TypeOK, Results
  <2>4. /\ isSet' \in [Pipelines -> BOOLEAN] /\ parked' \subseteq Pipelines
        /\ getter' \in [Pipelines -> GetterSteps]
        /\ UNCHANGED <<state, stored, kept, producer>>
    BY DEF TypeOK, GetterSteps
  <2> QED
    BY <2>2, <2>3, <2>4 DEF TypeOK
<1>2. ASSUME NEW q \in Pipelines, q # p
      PROVE  /\ state'[q] = state[q] /\ stored'[q] = stored[q] /\ freed'[q] = freed[q]
             /\ got'[q] = got[q] /\ isSet'[q] = isSet[q] /\ kept'[q] = kept[q]
             /\ producer'[q] = producer[q] /\ getter'[q] = getter[q]
             /\ q \in parked' <=> q \in parked
  BY <1>2 DEF TypeOK
<1>3. HandOver'
  BY <1>2 DEF TypeOK, HandOver, Completing
<1>4. ResultPassed'
  BY <1>2 DEF TypeOK, HandOver, Completing, ResultPassed, Fulfilled, Signalled, Results
<1>5. NoLostWakeup'
  BY <1>2 DEF TypeOK, NoLostWakeup
<1> QED
  BY <1>1, <1>3, <1>4, <1>5

\* The wait for the event.
LEMMA WaitCore ==
    ASSUME Core, NEW p \in Pipelines, CheckAtomic(p) \/ SleepAtomic(p) \/ WaitMutex(p) \/ WakeSpuriously(p)
    PROVE  Core'
<1> USE DEF Core, CheckAtomic, SleepAtomic, WaitMutex, WakeSpuriously, GetterTo, storage, event
<1>1. TypeOK'
  BY DEF TypeOK, GetterSteps
<1>2. ASSUME NEW q \in Pipelines, q # p
      PROVE  /\ state'[q] = state[q] /\ stored'[q] = stored[q] /\ freed'[q] = freed[q]
             /\ got'[q] = got[q] /\ isSet'[q] = isSet[q] /\ kept'[q] = kept[q]
             /\ producer'[q] = producer[q] /\ getter'[q] = getter[q]
             /\ q \in parked' <=> q \in parked
  BY <1>2 DEF TypeOK
<1>3. HandOver'
  BY <1>2 DEF TypeOK, HandOver, Completing, ResultPassed, Fulfilled, Signalled
<1>4. ResultPassed'
  BY <1>2 DEF TypeOK, HandOver, Completing, ResultPassed, Fulfilled, Signalled, Results
<1>5. NoLostWakeup'
  BY <1>2 DEF TypeOK, NoLostWakeup
<1> QED
  BY <1>1, <1>3, <1>4, <1>5

\* Every step keeps the invariant.
LEMMA NextCore == Core /\ [Next]_vars => Core'
<1> SUFFICES ASSUME Core, [Next]_vars PROVE Core'
  OBVIOUS
<1>1. ASSUME NEW p \in Pipelines, Produce(p)
      PROVE  Core'
  BY <1>1, PromiseCore, ProducerCompletesCore DEF Produce, Results
<1>2. ASSUME NEW p \in Pipelines, Receive(p) \/ DropFuture(p) \/ WakeSpuriously(p)
      PROVE  Core'
  BY <1>2, SubscribeCore, GetterCompletesCore, WaitCore DEF Receive
<1>3. CASE UNCHANGED vars
  BY <1>3 DEF vars, storage, event, Core, TypeOK, HandOver, ResultPassed, Fulfilled,
              Signalled, NoLostWakeup
<1> QED
  BY <1>1, <1>2, <1>3 DEF Next

\* Whichever of promise and future comes second deletes the storage, once, and
\* the other has no access to it left (force.hpp:61-92).
THEOREM StorageInvariance == Spec => []Inv
<1>1. Core => Inv
  <2>1. ASSUME Core, NEW p \in Pipelines
        PROVE  /\ freed[p] = 1 =>
                      /\ producer[p] \notin {"promise", "exchange", "fulfil", "delete"}
                      /\ getter[p] \notin {"load", "cas", "fulfil", "delete"}
               /\ producer[p] = "done" /\ getter[p] \in {"returned", "dropped"} => freed[p] = 1
    BY <2>1 DEF Core, HandOver, Completing
  <2> QED
    BY <2>1 DEF Core, Inv, StorageOwned
<1> QED
  BY <1>1, InitCore, NextCore, PTL DEF Spec

\* get returns the value, the error or the null with which the promise was kept,
\* whatever the kind of its event (get.hpp, event/atomic.hpp, event/mutex.hpp).
THEOREM GetCorrect == Spec => []GetsWhatWasKept
<1>1. Core => GetsWhatWasKept
  BY DEF Core, TypeOK, HandOver, ResultPassed, Signalled, GetsWhatWasKept
<1> QED
  BY <1>1, InitCore, NextCore, PTL DEF Spec

=============================================================================
