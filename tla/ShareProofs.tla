----------------------------- MODULE ShareProofs -----------------------------
(***************************************************************************)
(* Proofs about Share, for any number of subscribers: the links from       *)
(* state_ are exactly the callbacks that were pushed and not called, the   *)
(* reference count is exact, the storage is deleted when its last holder   *)
(* lets go, and every slot is called at most once and with the result.     *)
(***************************************************************************)
EXTENDS Share, FiniteSetTheorems, TLAPS

\* The part of the invariant that is inductive by itself.
Core == TypeOK /\ Phases /\ ResultPublished /\ Linked /\ CountExact

Holders == {c \in Subscribers : Holds(c)}
CalledList == {c \in Subscribers : phase[c] = "listed" /\ got[c] # <<>>}

-----------------------------------------------------------------------------
\* The list and the count.

\* Empty and Result are no subscribers.
LEMMA Markers ==
    /\ Empty \notin Subscribers /\ Result \notin Subscribers /\ Result # Empty
    /\ \A c \in Subscribers : c # Empty /\ c # Result
  BY ShareAssumption

\* Where the head is Empty the list is, and nowhere else.
LEMMA ChainHead ==
    ASSUME NEW nx, NEW h, NEW s \in Seq(Subscribers), IsChain(nx, h, s)
    PROVE  /\ h = Empty <=> s = <<>>
           /\ h # Empty => h \in Subscribers /\ h = s[1] /\ h \in ToSet(s)
<1>1. s # <<>> => s[1] \in Subscribers /\ s[1] \in ToSet(s)
  BY DEF ToSet
<1> QED
  BY <1>1, Markers DEF IsChain

\* A push puts its callback in front.
LEMMA ChainPush ==
    ASSUME NEW nx, NEW s \in Seq(Subscribers), IsInjective(s),
           NEW c \in Subscribers, c \notin ToSet(s), IsChain(nx, nx[c], s)
    PROVE  /\ <<c>> \o s \in Seq(Subscribers) /\ IsInjective(<<c>> \o s)
           /\ ToSet(<<c>> \o s) = ToSet(s) \cup {c}
           /\ IsChain(nx, c, <<c>> \o s)
<1> DEFINE t == <<c>> \o s
<1>1. /\ t \in Seq(Subscribers) /\ Len(t) = Len(s) + 1 /\ Len(s) \in Nat /\ t[1] = c
      /\ \A n \in 1 .. Len(s) : t[n + 1] = s[n]
      /\ DOMAIN t = 1 .. Len(s) + 1 /\ DOMAIN s = 1 .. Len(s) /\ t # <<>>
  OBVIOUS
<1> HIDE DEF t
<1>2. \A n \in 1 .. Len(t) : n = 1 \/ (n - 1 \in 1 .. Len(s) /\ t[n] = s[n - 1])
  BY <1>1
<1>3. IsInjective(t)
  <2> SUFFICES ASSUME NEW m \in 1 .. Len(t), NEW n \in 1 .. Len(t), t[m] = t[n]
               PROVE  m = n
    BY <1>1 DEF IsInjective
  <2>1. \A l \in 1 .. Len(s) : s[l] # c
    BY <1>1 DEF ToSet
  <2>2. CASE m = 1 \/ n = 1
    BY <1>1, <1>2, <2>1, <2>2
  <2>3. CASE m # 1 /\ n # 1
    <3>1. m - 1 \in 1 .. Len(s) /\ n - 1 \in 1 .. Len(s) /\ s[m - 1] = s[n - 1]
      BY <1>2, <2>3
    <3>2. m - 1 = n - 1
      BY <3>1, <1>1 DEF IsInjective
    <3> QED
      BY <3>2
  <2> QED
    BY <2>2, <2>3
<1>4. ToSet(t) = ToSet(s) \cup {c}
  <2>1. ASSUME NEW n \in DOMAIN t PROVE t[n] \in ToSet(s) \cup {c}
    <3>1. n \in 1 .. Len(t)
      BY <1>1
    <3>2. CASE n = 1
      BY <1>1, <3>2
    <3>3. CASE n # 1
      BY <1>1, <1>2, <3>1, <3>3 DEF ToSet
    <3> QED
      BY <3>2, <3>3
  <2>2. \A n \in 1 .. Len(s) : n + 1 \in DOMAIN t /\ t[n + 1] = s[n]
    BY <1>1
  <2>3. \A x \in ToSet(s) : x \in ToSet(t)
    BY <1>1, <2>2 DEF ToSet
  <2>4. c \in ToSet(t)
    BY <1>1 DEF ToSet
  <2> QED
    BY <2>1, <2>3, <2>4 DEF ToSet
<1>5. IsChain(nx, c, t)
  <2>1. ASSUME NEW n \in 1 .. Len(t)
        PROVE  nx[t[n]] = IF n = Len(t) THEN Empty ELSE t[n + 1]
    <3>1. CASE n = 1
      <4>1. CASE s = <<>>
        BY <1>1, <3>1, <4>1 DEF IsChain
      <4>2. CASE s # <<>>
        <5>1. Len(s) # 0 /\ 1 \in 1 .. Len(s)
          BY <4>2
        <5>2. t[1 + 1] = s[1] /\ Len(t) # 1
          BY <1>1, <5>1
        <5>3. nx[c] = s[1]
          BY <4>2 DEF IsChain
        <5> QED
          BY <1>1, <3>1, <5>2, <5>3
      <4> QED
        BY <4>1, <4>2
    <3>2. CASE n # 1
      <4>1. n - 1 \in 1 .. Len(s) /\ t[n] = s[n - 1]
        BY <1>2, <3>2
      <4>2. nx[s[n - 1]] = IF n - 1 = Len(s) THEN Empty ELSE s[(n - 1) + 1]
        BY <4>1 DEF IsChain
      <4>3. CASE n = Len(t)
        BY <1>1, <4>1, <4>2, <4>3
      <4>4. CASE n # Len(t)
        BY <1>1, <4>1, <4>2, <4>4
      <4> QED
        BY <4>3, <4>4
    <3> QED
      BY <3>1, <3>2
  <2> QED
    BY <1>1, <2>1 DEF IsChain
<1> QED
  BY <1>1, <1>3, <1>4, <1>5 DEF t

\* The walk goes on from the link of the callback that is called.
LEMMA ChainWalk ==
    ASSUME NEW nx, NEW h, NEW s \in Seq(Subscribers), IsInjective(s), s # <<>>,
           IsChain(nx, h, s)
    PROVE  /\ Tail(s) \in Seq(Subscribers) /\ IsInjective(Tail(s))
           /\ ToSet(Tail(s)) = ToSet(s) \ {h}
           /\ IsChain(nx, nx[h], Tail(s))
<1>1. /\ Tail(s) \in Seq(Subscribers) /\ Len(Tail(s)) = Len(s) - 1 /\ Len(s) \in Nat \ {0}
      /\ DOMAIN Tail(s) = 1 .. Len(s) - 1 /\ DOMAIN s = 1 .. Len(s)
      /\ \A i \in 1 .. Len(s) - 1 : Tail(s)[i] = s[i + 1]
  OBVIOUS
<1>2. h = s[1]
  BY DEF IsChain
<1>3. IsInjective(Tail(s))
  BY <1>1 DEF IsInjective
<1>4. ASSUME NEW x PROVE x \in ToSet(Tail(s)) <=> x \in ToSet(s) /\ x # h
  <2>1. x \in ToSet(Tail(s)) => x \in ToSet(s) /\ x # h
    BY <1>1, <1>2 DEF ToSet, IsInjective
  <2>2. ASSUME x \in ToSet(s), x # h PROVE x \in ToSet(Tail(s))
    <3>1. PICK i \in 1 .. Len(s) : x = s[i]
      BY <1>1, <2>2 DEF ToSet
    <3>2. i - 1 \in 1 .. Len(s) - 1 /\ Tail(s)[i - 1] = x
      BY <1>1, <1>2, <2>2, <3>1
    <3> QED
      BY <1>1, <3>2 DEF ToSet
  <2> QED
    BY <2>1, <2>2
<1>5. IsChain(nx, nx[h], Tail(s))
  <2>0. \A n \in 1 .. Len(s) : nx[s[n]] = IF n = Len(s) THEN Empty ELSE s[n + 1]
    BY DEF IsChain
  <2>1. nx[s[1]] = IF 1 = Len(s) THEN Empty ELSE s[1 + 1]
    <3>1. 1 \in 1 .. Len(s)
      BY <1>1
    <3> QED
      BY <2>0, <3>1, Zenon
  <2>2. ASSUME NEW n \in 1 .. Len(Tail(s))
        PROVE  nx[Tail(s)[n]] = IF n = Len(Tail(s)) THEN Empty ELSE Tail(s)[n + 1]
    <3>1. n + 1 \in 1 .. Len(s) /\ Tail(s)[n] = s[n + 1]
      BY <1>1
    <3>2. nx[s[n + 1]] = IF n + 1 = Len(s) THEN Empty ELSE s[(n + 1) + 1]
      BY <2>0, <3>1
    <3>3. CASE n = Len(Tail(s))
      BY <1>1, <3>1, <3>2, <3>3
    <3>4. CASE n # Len(Tail(s))
      <4>0. n \in 1 .. Len(s) - 1 /\ n # Len(s) - 1 /\ Len(s) \in Nat
        BY <1>1, <3>4
      <4>1. n + 1 \in 1 .. Len(s) - 1 /\ n + 1 # Len(s)
        BY <4>0
      <4>2. Tail(s)[n + 1] = s[(n + 1) + 1]
        BY <1>1, <4>1
      <4> QED
        BY <3>1, <3>2, <3>4, <4>1, <4>2
    <3> QED
      BY <3>3, <3>4
  <2>3. CASE Len(s) = 1
    <3>1. Tail(s) = <<>>
      BY <1>1, <2>3
    <3> QED
      BY <1>2, <2>1, <2>3, <3>1 DEF IsChain
  <2>4. CASE Len(s) # 1
    <3>1. Tail(s)[1] = s[1 + 1] /\ Tail(s) # <<>>
      BY <1>1, <2>4
    <3> QED
      BY <1>2, <2>1, <2>2, <2>4, <3>1 DEF IsChain
  <2> QED
    BY <2>3, <2>4
<1> QED
  BY <1>1, <1>3, <1>4, <1>5

\* A link that is written is none of the list.
LEMMA ChainKept ==
    ASSUME NEW nx \in [Subscribers -> Subscribers \cup {Empty}], NEW h,
           NEW s \in Seq(Subscribers), NEW c \in Subscribers, NEW x, c \notin ToSet(s),
           IsChain(nx, h, s)
    PROVE  IsChain([nx EXCEPT ![c] = x], h, s)
<1>1. \A n \in 1 .. Len(s) : s[n] # c /\ s[n] \in Subscribers
  BY DEF ToSet
<1> QED
  BY <1>1 DEF IsChain

\* There are finitely many subscribers.
LEMMA Counts ==
    /\ IsFiniteSet(Holders) /\ Cardinality(Holders) \in Nat
    /\ Cardinality(Holders) <= Cardinality(Subscribers)
    /\ IsFiniteSet(CalledList) /\ Cardinality(CalledList) \in Nat
    /\ Cardinality(Subscribers) \in Nat
<1>1. Holders \in SUBSET Subscribers /\ CalledList \in SUBSET Subscribers
  BY DEF Holders, CalledList
<1> QED
  BY <1>1, FS_Subset, FS_CardinalityType, ShareAssumption

\* The same in the next state.
LEMMA CountsNext == Counts'
  BY Counts, PTL

\* While the same subscribers hold the storage and were called, the counts stay.
LEMMA SameCounts ==
    ASSUME CountExact, \A c \in Subscribers : Holds(c)' <=> Holds(c),
           \A c \in Subscribers :
               (phase[c] = "listed" /\ got[c] # <<>>)' <=> phase[c] = "listed" /\ got[c] # <<>>,
           UNCHANGED <<box, refcount, freed, count>>
    PROVE  CountExact'
<1>1. Holders' = Holders /\ CalledList' = CalledList
  BY DEF Holders, CalledList
<1> QED
  BY <1>1 DEF CountExact, Holders, CalledList

\* An exact count is in its range.
LEMMA CountRange ==
    box \in BOOLEAN /\ CountExact =>
        refcount \in 0 .. Cardinality(Subscribers) + 1 /\ count \in Nat
<1>1. CountExact => /\ refcount = Cardinality(Holders) + (IF box THEN 1 ELSE 0)
                    /\ count = Cardinality(CalledList)
  BY DEF CountExact, Holders, CalledList
<1> QED
  BY <1>1, Counts

\* The same in the next state.
LEMMA CountRangeNext == CountRange'
  BY CountRange, PTL

-----------------------------------------------------------------------------

\* A new box.
LEMMA InitCore == Init => Core
<1> SUFFICES ASSUME Init PROVE Core
  OBVIOUS
<1> USE DEF Init
<1>1. list = <<>> /\ ToSet(list) = {} /\ IsInjective(list) /\ list \in Seq(Subscribers)
  BY DEF ToSet, IsInjective
<1>2. CountExact
  <2>1. Holders = {} /\ CalledList = {}
    BY DEF Holders, Holds, CalledList
  <2>2. Cardinality(Holders) = 0 /\ Cardinality(CalledList) = 0
    BY <2>1, FS_EmptySet
  <2>3. /\ refcount = Cardinality(Holders) + (IF box THEN 1 ELSE 0)
        /\ (freed <=> refcount = 0) /\ count = Cardinality(CalledList)
    BY <2>2
  <2> QED
    BY <2>3 DEF CountExact, Holders, CalledList
<1>3. TypeOK
  <2>1. got \in [Subscribers -> Seq(BOOLEAN)]
    OBVIOUS
  <2> QED
    BY <1>1, <1>2, <2>1, CountRange DEF TypeOK
<1>4. Phases
  BY DEF Phases, Called
<1>5. ResultPublished
  BY Markers DEF ResultPublished
<1>6. Linked
  BY <1>1, Markers DEF Linked, IsChain
<1> QED
  BY <1>2, <1>3, <1>4, <1>5, <1>6 DEF Core

\* The destructor of the box.
LEMMA DropBoxCore == ASSUME Core, DropBox PROVE Core'
<1> USE DEF Core, DropBox, Decref, setting
<1>1. UNCHANGED <<state, stored, inner, cursor, count, phase, ptr, alive, curr, next, got, list>>
  OBVIOUS
<1>2. CountExact'
  <2>1. Holders' = Holders
    BY DEF Holders, Holds
  <2>2. refcount = Cardinality(Holders) + 1 /\ Cardinality(Holders) \in Nat
    BY Counts DEF CountExact, Holders
  <2>0. /\ refcount' = refcount - 1 /\ freed' = (freed \/ refcount = 1)
        /\ (freed <=> refcount = 0) /\ freed \in BOOLEAN /\ refcount \in Nat
    BY DEF CountExact, TypeOK
  <2>3. refcount' = Cardinality(Holders) /\ (freed' <=> refcount' = 0)
    <3>1. refcount' = Cardinality(Holders) /\ refcount # 0 /\ (refcount = 1 <=> refcount' = 0)
      BY <2>0, <2>2
    <3> QED
      BY <2>0, <3>1, Zenon
  <2>4. refcount' = Cardinality(Holders') + (IF box' THEN 1 ELSE 0)
    BY <2>1, <2>3, <2>2
  <2> QED
    BY <1>1, <2>3, <2>4 DEF CountExact, Holders
<1>3. TypeOK'
  BY <1>1, <1>2, CountRangeNext DEF TypeOK
<1>4. Phases'
  BY <1>1 DEF Phases, Called
<1>5. ResultPublished' /\ Linked'
  BY <1>1 DEF ResultPublished, Linked
<1> QED
  BY <1>2, <1>3, <1>4, <1>5

\* get_signal() takes a reference for its signal.
LEMMA GetSignalCore == ASSUME Core, NEW c \in Subscribers, GetSignal(c) PROVE Core'
<1> USE DEF Core, GetSignal, Incref, setting
<1>1. /\ UNCHANGED <<box, freed, state, stored, inner, cursor, count, curr, next, got, list>>
      /\ box /\ phase[c] = "absent" /\ refcount' = refcount + 1
  OBVIOUS
<1>2. /\ phase'[c] = "signal" /\ ptr'[c] = TRUE /\ alive'[c] = TRUE
      /\ \A d \in Subscribers \ {c} :
             phase'[d] = phase[d] /\ ptr'[d] = ptr[d] /\ alive'[d] = alive[d]
  BY DEF TypeOK
<1>3. CountExact'
  <2>1. Holders' = Holders \cup {c} /\ c \notin Holders
    BY <1>1, <1>2 DEF Holders, Holds, Phases
  <2>2. Cardinality(Holders') = Cardinality(Holders) + 1 /\ Cardinality(Holders) \in Nat
    BY <2>1, Counts, FS_AddElement
  <2>3. refcount = Cardinality(Holders) + 1
    BY <1>1 DEF CountExact, Holders
  <2>4. refcount' = Cardinality(Holders') + (IF box' THEN 1 ELSE 0) /\ (freed' <=> refcount' = 0)
    BY <1>1, <2>2, <2>3 DEF CountExact
  <2>5. CalledList' = CalledList
    BY <1>1, <1>2 DEF CalledList
  <2> QED
    BY <1>1, <2>4, <2>5 DEF CountExact, Holders, CalledList
<1>4. TypeOK'
  BY <1>1, <1>3, CountRangeNext DEF TypeOK
<1>5. Phases'
  BY <1>1, <1>2 DEF Phases, Called
<1>6. ResultPublished'
  BY <1>1, <1>2 DEF ResultPublished
<1>7. Linked'
  BY <1>1, <1>2 DEF Linked
<1> QED
  BY <1>3, <1>4, <1>5, <1>6, <1>7

\* fork() leaves as many references as branches.
LEMMA ForkCore == ASSUME Core, Fork PROVE Core'
<1> USE DEF Core, Fork, setting
<1>1. /\ UNCHANGED <<state, stored, inner, cursor, count, curr, next, got, list>>
      /\ box /\ ~box' /\ \A c \in Subscribers : phase[c] = "absent"
  OBVIOUS
<1>2. \A c \in Subscribers : phase'[c] = "signal" /\ ptr'[c] = TRUE /\ alive'[c] = TRUE
  OBVIOUS
<1>3. CountExact'
  <2>1. Holders = {} /\ Holders' = Subscribers /\ CalledList = {} /\ CalledList' = {}
    BY <1>1, <1>2 DEF Holders, Holds, Phases, CalledList
  <2>2. Cardinality(Holders) = 0
    BY <2>1, FS_EmptySet
  <2>3. refcount = 1
    BY <1>1, <2>2 DEF CountExact, Holders
  <2>4. /\ refcount' = (1 + Cardinality(Subscribers)) - 1
        /\ freed' = (1 + Cardinality(Subscribers) = 1)
        /\ Cardinality(Subscribers) \in Nat
    BY <2>3, Counts
  <2>5. refcount' = Cardinality(Subscribers) /\ (freed' <=> refcount' = 0)
    <3>1. /\ refcount' = Cardinality(Subscribers)
          /\ 1 + Cardinality(Subscribers) = 1 <=> refcount' = 0
      BY <2>4
    <3> QED
      BY <2>4, <3>1, Zenon
  <2>6. refcount' = Cardinality(Holders') + (IF box' THEN 1 ELSE 0)
    BY <1>1, <2>1, <2>4, <2>5
  <2> QED
    BY <1>1, <2>1, <2>5, <2>6 DEF CountExact, Holders, CalledList
<1>4. TypeOK'
  <2>1. freed' \in BOOLEAN
    OBVIOUS
  <2> QED
    BY <1>1, <1>3, <2>1, CountRangeNext DEF TypeOK
<1>5. Phases'
  BY <1>1, <1>2 DEF Phases, Called
<1>6. ResultPublished'
  BY <1>1, <1>2 DEF ResultPublished
<1>7. ToSet(list) = {}
  <2>1. \A x \in ToSet(list) : x \in Subscribers
    BY DEF TypeOK, ToSet
  <2> QED
    BY <1>1, <2>1 DEF Linked
<1>8. Linked'
  BY <1>1, <1>2, <1>7 DEF Linked
<1> QED
  BY <1>3, <1>4, <1>5, <1>6, <1>8

\* A signal or a connection that still has its pointer gives its reference back.
LEMMA DestroyCore == ASSUME Core, NEW c \in Subscribers, Destroy(c) PROVE Core'
<1> USE DEF Core, Destroy, Decref, counting, setting
<1>1. /\ UNCHANGED <<box, state, stored, inner, cursor, count, phase, ptr, curr, next, got, list>>
      /\ alive[c] /\ (phase[c] \in {"signal", "connected"} \/ got[c] # <<>>)
  OBVIOUS
<1>2. alive'[c] = FALSE /\ \A d \in Subscribers \ {c} : alive'[d] = alive[d]
  BY DEF TypeOK
<1>3. CountExact'
  <2>1. CASE ptr[c]
    <3>1. Holders' = Holders \ {c} /\ c \in Holders
      BY <1>1, <1>2, <2>1 DEF Holders, Holds, Phases
    <3>2. /\ Cardinality(Holders') = Cardinality(Holders) - 1
          /\ Cardinality(Holders) \in Nat /\ Cardinality(Holders') \in Nat
      BY <3>1, Counts, CountsNext, FS_RemoveElement
    <3>3. refcount = Cardinality(Holders) + (IF box THEN 1 ELSE 0) /\ (freed <=> refcount = 0)
      BY DEF CountExact, Holders
    <3>4. refcount' = refcount - 1 /\ freed' = (freed \/ refcount = 1)
      BY <2>1
    <3>5. /\ refcount' = Cardinality(Holders') + (IF box' THEN 1 ELSE 0)
          /\ freed' <=> refcount' = 0
      BY <1>1, <3>2, <3>3, <3>4 DEF TypeOK
    <3> QED
      BY <1>1, <3>5 DEF CountExact, Holders
  <2>2. CASE ~ptr[c]
    <3>1. \A d \in Subscribers : Holds(d)' <=> Holds(d)
      BY <1>1, <1>2, <2>2 DEF Holds
    <3> QED
      BY <1>1, <2>2, <3>1, SameCounts
  <2> QED
    BY <2>1, <2>2 DEF TypeOK
<1>4. TypeOK'
  <2>1. freed' \in BOOLEAN
    BY DEF TypeOK
  <2> QED
    BY <1>1, <1>3, <2>1, CountRangeNext DEF TypeOK
<1>5. Phases'
  BY <1>1, <1>2 DEF Phases, Called
<1>6. ResultPublished' /\ Linked'
  BY <1>1 DEF ResultPublished, Linked
<1> QED
  BY <1>3, <1>4, <1>5, <1>6

-----------------------------------------------------------------------------
\* emit()

\* The list holds subscribers.
LEMMA ListOfSubscribers == TypeOK => \A c \in ToSet(list) : c \in Subscribers
  BY DEF TypeOK, ToSet

\* subscribe() and emit() carry the reference along.
LEMMA SubscribeEmitCore ==
    ASSUME Core, NEW c \in Subscribers, Subscribe(c) \/ Emit(c)
    PROVE  Core'
<1> USE DEF Core, Subscribe, Emit, counting, setting
<1>1. /\ UNCHANGED <<box, refcount, freed, state, stored, inner, cursor, count>>
      /\ UNCHANGED <<alive, curr, next, got, list>> /\ alive[c]
      /\ phase[c] \in {"signal", "connected"}
      /\ \/ phase'[c] = "connected" /\ ptr'[c] = ptr[c]
         \/ phase'[c] = "first" /\ ptr'[c] = FALSE
      /\ \A d \in Subscribers \ {c} : phase'[d] = phase[d] /\ ptr'[d] = ptr[d]
  BY DEF TypeOK
<1>2. TypeOK'
  BY DEF TypeOK
<1>3. \A d \in Subscribers : Holds(d)' <=> Holds(d)
  BY <1>1 DEF Holds, Phases
<1>4. CountExact'
  BY <1>1, <1>3, SameCounts
<1>5. Phases'
  BY <1>1 DEF Phases, Called
<1>6. ResultPublished'
  BY <1>1 DEF ResultPublished
<1>7. Linked'
  BY <1>1, ListOfSubscribers DEF Linked
<1> QED
  BY <1>2, <1>4, <1>5, <1>6, <1>7

\* The first one becomes the list; the others read on.
LEMMA EmitFirstCore == ASSUME Core, NEW c \in Subscribers, EmitFirst(c) PROVE Core'
<1> USE DEF Core
<1>1. /\ UNCHANGED <<box, refcount, freed, stored, inner, cursor, count>>
      /\ UNCHANGED <<ptr, alive, next, got>> /\ phase[c] = "first"
      /\ \A d \in Subscribers \ {c} : phase'[d] = phase[d]
  BY DEF EmitFirst, counting, setting, TypeOK
<1>2. c \notin ToSet(list) /\ next[c] = Empty /\ got[c] = <<>>
  BY <1>1 DEF Linked, Phases, Called
<1>3. CASE state = Empty
  <2>1. state' = c /\ phase'[c] = "inner" /\ list' = <<c>> \o list /\ curr' = curr
    BY <1>3 DEF EmitFirst, TypeOK
  <2>2. IsChain(next, Empty, list)
    BY <1>3, Markers DEF Linked
  <2>3. /\ list' \in Seq(Subscribers) /\ IsInjective(list') /\ ToSet(list') = ToSet(list) \cup {c}
        /\ IsChain(next, c, list')
    <3>1. list \in Seq(Subscribers) /\ IsInjective(list) /\ IsChain(next, next[c], list)
      BY <1>2, <2>2 DEF TypeOK, Linked
    <3>2. /\ <<c>> \o list \in Seq(Subscribers) /\ IsInjective(<<c>> \o list)
          /\ ToSet(<<c>> \o list) = ToSet(list) \cup {c} /\ IsChain(next, c, <<c>> \o list)
      BY ONLY <1>2, <3>1, c \in Subscribers, ChainPush
    <3> QED
      BY ONLY <2>1, <3>2
  <2>4. inner = "lazy" /\ \A d \in Subscribers : phase[d] \notin {"inner", "listed"}
    BY <1>3 DEF ResultPublished, Phases
  <2>5. TypeOK'
    BY <1>1, <1>3, <2>1, <2>3 DEF TypeOK, EmitFirst
  <2>6. \A d \in Subscribers : Holds(d)' <=> Holds(d)
    BY <1>1, <2>1, <2>4 DEF Holds
  <2>7. CountExact'
    BY <1>1, <2>1, <2>6, SameCounts
  <2>8. Phases'
    <3>1. \A d \in Subscribers : Called(d)' <=> Called(d)
      BY <1>1, <2>1, <2>3, <2>4 DEF Called
    <3>2. \A d \in Subscribers : phase[d] \notin {"push", "cas", "late", "release", "done"}
      BY <1>3, Markers DEF Phases
    <3>3. \A d \in Subscribers \ {c} :
              phase'[d] = phase[d] /\ phase[d] \in {"absent", "signal", "connected", "first"}
      BY <1>1, <2>4, <3>2 DEF TypeOK
    <3> QED
      BY <1>1, <1>2, <2>1, <2>4, <3>1, <3>3, Markers DEF Phases
  <2>9. ResultPublished'
    BY <1>1, <1>3, <2>1, <2>4, Markers DEF ResultPublished
  <2>10. Linked'
    BY <1>1, <2>1, <2>3, <2>4, Markers, ListOfSubscribers DEF Linked
  <2> QED
    BY <2>5, <2>7, <2>8, <2>9, <2>10
<1>4. CASE state # Empty
  <2>1. /\ state' = state /\ list' = list /\ phase'[c] = Onwards(state)
        /\ curr'[c] = state /\ \A d \in Subscribers \ {c} : curr'[d] = curr[d]
    BY <1>4 DEF EmitFirst, TypeOK
  <2>0. \/ phase'[c] = "late" /\ state = Result
        \/ phase'[c] = "push" /\ state \in Subscribers
    BY <1>4, <2>1 DEF Onwards, TypeOK
  <2>2. TypeOK'
    <3>1. phase' = [phase EXCEPT ![c] = Onwards(state)] /\ curr' = [curr EXCEPT ![c] = state]
      BY <1>4 DEF EmitFirst
    <3>2. Onwards(state) \in {"late", "push"}
      BY DEF Onwards
    <3> QED
      BY <1>1, <2>1, <3>1, <3>2 DEF TypeOK
  <2>3. \A d \in Subscribers : Holds(d)' <=> Holds(d)
    BY <1>1, <2>1 DEF Holds, Onwards
  <2>4. CountExact'
    BY <1>1, <2>1, <2>3, SameCounts DEF Onwards
  <2>5. Phases'
    BY <1>1, <1>2, <1>4, <2>0, <2>1 DEF Phases, Called
  <2>6. ResultPublished'
    BY <1>1, <2>0, <2>1 DEF ResultPublished
  <2>7. Linked'
    BY <1>1, <1>2, <2>0, <2>1, ListOfSubscribers DEF Linked
  <2> QED
    BY <2>2, <2>4, <2>5, <2>6, <2>7
<1> QED
  BY <1>3, <1>4

\* The first one starts the inner signal, once.
LEMMA InternalConnectionEmitCore ==
    ASSUME Core, NEW c \in Subscribers, InternalConnectionEmit(c)
    PROVE  Core'
<1> USE DEF Core, InternalConnectionEmit, counting
<1>1. /\ UNCHANGED <<box, refcount, freed, state, stored, cursor, count>>
      /\ UNCHANGED <<ptr, alive, curr, next, got, list>> /\ phase[c] = "inner"
      /\ phase'[c] = "listed" /\ inner' = "emitted" /\ inner = "lazy"
      /\ \A d \in Subscribers \ {c} : phase'[d] = phase[d] /\ phase[d] # "inner"
  BY DEF TypeOK, Phases
<1>2. c \in ToSet(list) /\ got[c] = <<>>
  BY <1>1 DEF Linked, Phases, Called
<1>3. TypeOK'
  BY DEF TypeOK
<1>4. \A d \in Subscribers : Holds(d)' <=> Holds(d)
  BY <1>1 DEF Holds
<1>5. CountExact'
  BY <1>1, <1>2, <1>4, SameCounts
<1>6. Phases'
  BY <1>1, <1>2 DEF Phases, Called
<1>7. ResultPublished'
  BY <1>1 DEF ResultPublished
<1>8. Linked'
  BY <1>1, <1>2 DEF Linked
<1> QED
  BY <1>3, <1>5, <1>6, <1>7, <1>8

\* The link is written before the callback is in the list.
LEMMA SetNextCore == ASSUME Core, NEW c \in Subscribers, SetNext(c) PROVE Core'
<1> USE DEF Core, SetNext, counting, setting
<1>1. /\ UNCHANGED <<box, refcount, freed, state, stored, inner, cursor, count>>
      /\ UNCHANGED <<ptr, alive, curr, got, list>> /\ phase[c] = "push" /\ phase'[c] = "cas"
      /\ next' = [next EXCEPT ![c] = curr[c]] /\ next'[c] = curr[c]
      /\ \A d \in Subscribers \ {c} : phase'[d] = phase[d] /\ next'[d] = next[d]
  BY DEF TypeOK
<1>2. c \notin ToSet(list) /\ curr[c] \in Subscribers
  BY <1>1 DEF Linked, Phases
<1>3. TypeOK'
  BY <1>2 DEF TypeOK
<1>4. \A d \in Subscribers : Holds(d)' <=> Holds(d)
  BY <1>1 DEF Holds
<1>5. CountExact'
  BY <1>1, <1>4, SameCounts
<1>6. Phases'
  BY <1>1 DEF Phases, Called
<1>7. ResultPublished'
  BY <1>1 DEF ResultPublished
<1>8. IsChain(next', IF state = Result THEN cursor ELSE state, list)
  <2> DEFINE h == IF state = Result THEN cursor ELSE state
  <2>1. /\ IsChain(next, h, list) /\ list \in Seq(Subscribers)
        /\ next \in [Subscribers -> Subscribers \cup {Empty}]
    BY DEF Linked, TypeOK
  <2> HIDE DEF h
  <2>2. IsChain([next EXCEPT ![c] = curr[c]], h, list)
    BY <1>2, <2>1, ChainKept
  <2> QED
    BY <1>1, <2>2 DEF h
<1>9. Linked'
  BY <1>1, <1>2, <1>8 DEF Linked
<1> QED
  BY <1>3, <1>5, <1>6, <1>7, <1>9

\* A push that fails reads the state again, which is not Empty any more.
LEMMA PushFailsCore ==
    ASSUME Core, NEW c \in Subscribers, PushSpurious(c) \/ (PushCas(c) /\ state # curr[c])
    PROVE  Core'
<1> USE DEF Core, PushSpurious, PushCas, counting, setting
<1>1. /\ UNCHANGED <<box, refcount, freed, state, stored, inner, cursor, count>>
      /\ UNCHANGED <<ptr, alive, next, got, list>> /\ phase[c] = "cas"
      /\ phase' = [phase EXCEPT ![c] = Onwards(state)]
      /\ curr' = [curr EXCEPT ![c] = state]
  OBVIOUS
<1>2. /\ phase'[c] = Onwards(state) /\ curr'[c] = state
      /\ \A d \in Subscribers \ {c} : phase'[d] = phase[d] /\ curr'[d] = curr[d]
  BY <1>1 DEF TypeOK
<1>3. c \notin ToSet(list) /\ got[c] = <<>> /\ state # Empty
  BY <1>1 DEF Linked, Phases, Called
<1>0. \/ phase'[c] = "late" /\ state = Result
      \/ phase'[c] = "push" /\ state \in Subscribers
  BY <1>2, <1>3 DEF Onwards, TypeOK
<1>4. TypeOK'
  BY <1>1 DEF TypeOK, Onwards
<1>5. \A d \in Subscribers : Holds(d)' <=> Holds(d)
  BY <1>1, <1>2 DEF Holds, Onwards
<1>6. CountExact'
  BY <1>1, <1>2, <1>5, SameCounts DEF Onwards
<1>7. Phases'
  BY <1>0, <1>1, <1>2, <1>3 DEF Phases, Called
<1>8. ResultPublished'
  BY <1>1, <1>2 DEF ResultPublished, Onwards
<1>9. Linked'
  BY <1>1, <1>2, <1>3 DEF Linked, Onwards
<1> QED
  BY <1>4, <1>6, <1>7, <1>8, <1>9

\* A push that succeeds has its link on the head it replaces.
LEMMA PushSucceedsCore ==
    ASSUME Core, NEW c \in Subscribers, PushCas(c), state = curr[c]
    PROVE  Core'
<1> USE DEF Core, PushCas, counting, setting
<1>1. /\ UNCHANGED <<box, refcount, freed, stored, inner, cursor, count>>
      /\ UNCHANGED <<ptr, alive, curr, next, got>> /\ phase[c] = "cas"
      /\ phase'[c] = "listed" /\ state' = c /\ list' = <<c>> \o list
      /\ \A d \in Subscribers \ {c} : phase'[d] = phase[d]
  BY DEF TypeOK
<1>2. /\ c \notin ToSet(list) /\ got[c] = <<>> /\ next[c] = state /\ state \in Subscribers
      /\ state # Result /\ state # Empty
  BY <1>1, Markers DEF Linked, Phases, Called
<1>3. IsChain(next, next[c], list)
  BY <1>2 DEF Linked
<1>4. /\ list' \in Seq(Subscribers) /\ IsInjective(list') /\ ToSet(list') = ToSet(list) \cup {c}
      /\ IsChain(next, c, list')
  BY <1>1, <1>2, <1>3, ChainPush DEF TypeOK, Linked
<1>5. inner \notin {"walk", "done"}
  BY <1>2 DEF ResultPublished
<1>6. TypeOK'
  BY <1>1, <1>4 DEF TypeOK
<1>7. \A d \in Subscribers : Holds(d)' <=> Holds(d)
  BY <1>1, <1>5 DEF Holds
<1>8. CountExact'
  BY <1>1, <1>2, <1>7, SameCounts
<1>9. Phases'
  <2>1. \A d \in Subscribers : Called(d)' <=> Called(d)
    BY <1>1, <1>4 DEF Called
  <2>2. \A d \in Subscribers : phase[d] \notin {"late", "release", "done"}
    BY <1>2 DEF Phases
  <2> QED
    BY <1>1, <1>2, <2>1, <2>2, Markers DEF Phases
<1>10. ResultPublished'
  BY <1>1, <1>2, <1>5, Markers DEF ResultPublished
<1>11. Linked'
  BY <1>1, <1>4, <1>5, Markers, ListOfSubscribers DEF Linked
<1> QED
  BY <1>6, <1>8, <1>9, <1>10, <1>11

\* Who comes too late for the list is called with the result that is there.
LEMMA EmitLateCore == ASSUME Core, NEW c \in Subscribers, EmitLate(c) PROVE Core'
<1> USE DEF Core
<1>1. /\ UNCHANGED <<box, refcount, freed, state, stored, inner, cursor, count>>
      /\ UNCHANGED <<ptr, alive, curr, next, list>> /\ phase[c] = "late"
      /\ got' = [got EXCEPT ![c] = Append(@, stored)]
      /\ phase' = [phase EXCEPT ![c] = "release"]
  BY DEF EmitLate, Call, counting, setting
<1>2. stored = TRUE /\ got[c] = <<>> /\ c \notin ToSet(list) /\ state = Result
  BY <1>1 DEF ResultPublished, Phases, Called, Linked, TypeOK
<1>3. /\ phase'[c] = "release" /\ got'[c] = <<TRUE>>
      /\ \A d \in Subscribers \ {c} : phase'[d] = phase[d] /\ got'[d] = got[d]
  <2>1. Append(<<>>, TRUE) = <<TRUE>>
    OBVIOUS
  <2>2. got' = [got EXCEPT ![c] = <<TRUE>>]
    BY <1>1, <1>2, <2>1
  <2> QED
    BY <1>1, <2>2 DEF TypeOK
<1>4. TypeOK'
  <2>1. got' \in [Subscribers -> Seq(BOOLEAN)]
    BY <1>1, <1>2 DEF TypeOK
  <2> QED
    BY <1>1, <2>1 DEF TypeOK
<1>5. \A d \in Subscribers : Holds(d)' <=> Holds(d)
  BY <1>1, <1>3 DEF Holds
<1>6. CountExact'
  BY <1>1, <1>3, <1>5, SameCounts
<1>7. <<TRUE>> # <<>>
  OBVIOUS
<1>8. Phases'
  BY <1>1, <1>2, <1>3, <1>7 DEF Phases, Called
<1>9. ResultPublished'
  BY <1>1, <1>3 DEF ResultPublished
<1>10. Linked'
  BY <1>1, <1>2, <1>3, ListOfSubscribers DEF Linked
<1> QED
  BY <1>4, <1>6, <1>8, <1>9, <1>10

\* It gives its own reference back.
LEMMA ReleaseCore == ASSUME Core, NEW c \in Subscribers, Release(c) PROVE Core'
<1> USE DEF Core, Release, Decref, setting
<1>1. /\ UNCHANGED <<box, state, stored, inner, cursor, count, ptr, alive, curr, next, got, list>>
      /\ phase[c] = "release" /\ phase'[c] = "done"
      /\ \A d \in Subscribers \ {c} : phase'[d] = phase[d]
      /\ refcount' = refcount - 1 /\ freed' = (freed \/ refcount = 1)
  BY DEF TypeOK
<1>2. CountExact'
  <2>1. Holders' = Holders \ {c} /\ c \in Holders
    BY <1>1 DEF Holders, Holds, Phases
  <2>2. /\ Cardinality(Holders') = Cardinality(Holders) - 1
        /\ Cardinality(Holders) \in Nat /\ Cardinality(Holders') \in Nat
    BY <2>1, Counts, CountsNext, FS_RemoveElement
  <2>3. refcount = Cardinality(Holders) + (IF box THEN 1 ELSE 0) /\ (freed <=> refcount = 0)
    BY DEF CountExact, Holders
  <2>4. /\ refcount' = Cardinality(Holders') + (IF box' THEN 1 ELSE 0)
        /\ freed' <=> refcount' = 0
    <3>1. /\ refcount' = Cardinality(Holders') + (IF box' THEN 1 ELSE 0)
          /\ refcount # 0 /\ (refcount = 1 <=> refcount' = 0)
      BY <1>1, <2>2, <2>3
    <3> QED
      BY <1>1, <2>3, <3>1, Zenon
  <2>5. CalledList' = CalledList
    BY <1>1 DEF CalledList
  <2> QED
    BY <1>1, <2>4, <2>5 DEF CountExact, Holders, CalledList
<1>3. TypeOK'
  <2>1. freed' \in BOOLEAN
    BY <1>1 DEF TypeOK
  <2> QED
    BY <1>1, <1>2, <2>1, CountRangeNext DEF TypeOK
<1>4. Phases'
  BY <1>1 DEF Phases, Called
<1>5. ResultPublished'
  BY <1>1 DEF ResultPublished
<1>6. Linked'
  BY <1>1, ListOfSubscribers DEF Linked
<1> QED
  BY <1>2, <1>3, <1>4, <1>5, <1>6

-----------------------------------------------------------------------------
\* set_result()

\* The result is in its place, and then published: the list is the setter's.
LEMMA PublishCore == ASSUME Core, StoreResult \/ Exchange PROVE Core'
<1> USE DEF Core, StoreResult, Exchange, counting
<1>1. /\ UNCHANGED <<box, refcount, freed, count, phase, ptr, alive, curr, next, got, list>>
      /\ inner \in {"emitted", "stored"} /\ inner' \in {"stored", "walk"}
  OBVIOUS
<1>2. state # Result /\ state # Empty /\ cursor = Empty
  BY <1>1 DEF ResultPublished, Phases
<1>3. TypeOK'
  BY <1>2 DEF TypeOK
<1>4. \A d \in Subscribers : Holds(d)' <=> Holds(d)
  BY <1>1 DEF Holds
<1>5. CountExact'
  BY <1>1, <1>4, SameCounts
<1>6. state' # Empty /\ \A c \in Subscribers : phase[c] # "inner"
  BY <1>1, <1>2, Markers DEF Phases
<1>7. Phases'
  BY <1>1, <1>2, <1>6 DEF Phases, Called
<1>8. ResultPublished'
  BY <1>2 DEF ResultPublished
<1>9. Linked'
  BY <1>1, <1>2 DEF Linked
<1> QED
  BY <1>3, <1>5, <1>7, <1>8, <1>9

\* The walk calls the front of what is left.
LEMMA CallNextCore == ASSUME Core, CallNext PROVE Core'
<1> USE DEF Core
<1>1. /\ UNCHANGED <<box, refcount, freed, state, stored, inner, phase, ptr, alive, curr, next>>
      /\ inner = "walk" /\ cursor # Empty /\ count' = count + 1 /\ cursor' = next[cursor]
      /\ got' = [got EXCEPT ![cursor] = Append(@, stored)] /\ list' = Tail(list)
  BY DEF CallNext, Call, counting
<1>2. state = Result /\ stored = TRUE /\ IsChain(next, cursor, list)
  BY <1>1 DEF ResultPublished, Linked, TypeOK
<1>3. cursor \in Subscribers /\ cursor \in ToSet(list) /\ list # <<>>
  BY <1>1, <1>2, ChainHead DEF TypeOK
<1>4. /\ list' \in Seq(Subscribers) /\ IsInjective(list')
      /\ ToSet(list') = ToSet(list) \ {cursor} /\ IsChain(next, next[cursor], list')
  BY <1>1, <1>2, <1>3, ChainWalk DEF TypeOK, Linked
<1>5. phase[cursor] = "listed" /\ got[cursor] = <<>>
  BY <1>1, <1>3 DEF Linked, Phases, Called
<1>6. /\ got'[cursor] = <<TRUE>>
      /\ \A d \in Subscribers \ {cursor} : got'[d] = got[d]
  <2>1. Append(<<>>, TRUE) = <<TRUE>>
    OBVIOUS
  <2>2. got' = [got EXCEPT ![cursor] = <<TRUE>>]
    BY <1>1, <1>2, <1>5, <2>1
  <2> QED
    BY <1>3, <2>2 DEF TypeOK
<1>7. <<TRUE>> # <<>>
  OBVIOUS
<1>8. CountExact'
  <2>1. Holders' = Holders
    BY <1>1 DEF Holders, Holds
  <2>2. CalledList' = CalledList \cup {cursor} /\ cursor \notin CalledList
    BY <1>1, <1>3, <1>5, <1>6, <1>7 DEF CalledList
  <2>3. Cardinality(CalledList') = Cardinality(CalledList) + 1
    BY <2>2, Counts, FS_AddElement
  <2>4. count = Cardinality(CalledList)
    BY DEF CountExact, CalledList
  <2>5. count' = Cardinality(CalledList')
    BY <1>1, <2>3, <2>4
  <2> QED
    BY <1>1, <2>1, <2>5 DEF CountExact, Holders, CalledList
<1>9. TypeOK'
  <2>1. got' \in [Subscribers -> Seq(BOOLEAN)]
    BY <1>1, <1>2, <1>3 DEF TypeOK
  <2>2. cursor' \in Subscribers \cup {Empty}
    BY <1>1, <1>3 DEF TypeOK
  <2> QED
    BY <1>1, <1>4, <1>8, <2>1, <2>2, CountRangeNext DEF TypeOK
<1>10. Phases'
  <2>1. PICK x \in Subscribers : x = cursor
    BY <1>3
  <2>2. Called(x)' /\ \A d \in Subscribers \ {x} : Called(d)' <=> Called(d)
    BY <1>1, <1>4, <1>5, <2>1 DEF Called
  <2>3. got'[x] = <<TRUE>> /\ phase[x] = "listed" /\ got[x] = <<>>
        /\ \A d \in Subscribers \ {x} : got'[d] = got[d]
    BY <1>5, <1>6, <2>1
  <2> QED
    BY <1>1, <1>7, <2>2, <2>3 DEF Phases
<1>11. ResultPublished'
  BY <1>1 DEF ResultPublished
<1>12. Linked'
  BY <1>1, <1>2, <1>4, <1>5, ListOfSubscribers DEF Linked
<1> QED
  BY <1>8, <1>9, <1>10, <1>11, <1>12

\* The setter has counted every reference of the list, and gives them all back.
LEMMA ReleaseAllCore == ASSUME Core, ReleaseAll PROVE Core'
<1> USE DEF Core
<1>1. /\ UNCHANGED <<box, state, stored, cursor, count, phase, ptr, alive, curr, next, got, list>>
      /\ inner = "walk" /\ inner' = "done" /\ cursor = Empty
      /\ refcount' = refcount - count /\ freed' = (freed \/ refcount = count)
  BY DEF ReleaseAll, Decref
<1>2. state = Result /\ IsChain(next, cursor, list)
  BY <1>1 DEF ResultPublished, Linked
<1>3. list = <<>> /\ ToSet(list) = {}
  <2>1. list = <<>>
    BY <1>1, <1>2, ChainHead DEF TypeOK
  <2> QED
    BY <2>1 DEF ToSet
<1>4. <<TRUE>> # <<>>
  OBVIOUS
<1>5. \A c \in Subscribers : phase[c] # "inner" /\ (phase[c] = "listed" => got[c] # <<>>)
  BY <1>1, <1>3, <1>4 DEF Phases, Called
<1>6. CountExact'
  <2>1. Holders' = Holders \ CalledList
    BY <1>1, <1>5 DEF Holders, Holds, CalledList, Phases
  <2>2. Holders \cap CalledList = CalledList
    BY <1>1 DEF Holders, Holds, CalledList
  <2>3. /\ Cardinality(Holders') = Cardinality(Holders) - Cardinality(CalledList)
        /\ Cardinality(Holders) \in Nat /\ Cardinality(Holders') \in Nat
        /\ Cardinality(CalledList) \in Nat
    BY <2>1, <2>2, Counts, CountsNext, FS_Difference
  <2>4. /\ refcount = Cardinality(Holders) + (IF box THEN 1 ELSE 0)
        /\ freed <=> refcount = 0
        /\ count = Cardinality(CalledList)
    BY DEF CountExact, Holders, CalledList
  <2>5. Cardinality(CalledList) # 0
    <3>1. CalledList # {}
      BY <1>1, <1>5 DEF ResultPublished, CalledList
    <3> QED
      BY <3>1, Counts, FS_EmptySet
  <2>6. refcount' = Cardinality(Holders') + (IF box' THEN 1 ELSE 0)
    BY <1>1, <2>3, <2>4
  <2>7. refcount # 0 /\ (refcount = count <=> refcount' = 0)
    BY <1>1, <2>3, <2>4, <2>5
  <2>8. freed' <=> refcount' = 0
    BY <1>1, <2>4, <2>7, Zenon
  <2>9. CalledList' = CalledList
    BY <1>1 DEF CalledList
  <2> QED
    BY <1>1, <2>4, <2>6, <2>8, <2>9 DEF CountExact, Holders, CalledList
<1>7. TypeOK'
  <2>1. freed' \in BOOLEAN
    BY <1>1 DEF TypeOK
  <2> QED
    BY <1>1, <1>6, <2>1, CountRangeNext DEF TypeOK
<1>8. Phases'
  BY <1>1, <1>5 DEF Phases, Called
<1>9. ResultPublished'
  BY <1>1 DEF ResultPublished
<1>10. Linked'
  BY <1>1 DEF Linked
<1> QED
  BY <1>6, <1>7, <1>8, <1>9, <1>10

-----------------------------------------------------------------------------

\* Every step of the box, the subscribers and the setter preserves the core.
LEMMA NextCore == Core /\ [Next]_vars => Core'
<1> SUFFICES ASSUME Core, [Next]_vars PROVE Core'
  OBVIOUS
<1>1. ASSUME NEW c \in Subscribers,
             GetSignal(c) \/ Subscribe(c) \/ Destroy(c) \/ Emit(c) \/ EmitStep(c) \/ PushSpurious(c)
      PROVE  Core'
  BY <1>1, GetSignalCore, SubscribeEmitCore, DestroyCore, EmitFirstCore,
     InternalConnectionEmitCore, SetNextCore, PushFailsCore, PushSucceedsCore, EmitLateCore,
     ReleaseCore DEF EmitStep
<1>2. ASSUME SetResult PROVE Core'
  BY <1>2, PublishCore, CallNextCore, ReleaseAllCore DEF SetResult
<1>3. ASSUME UNCHANGED vars PROVE Core'
  <2>1. /\ UNCHANGED <<box, refcount, freed, state, stored, inner, cursor, count>>
        /\ UNCHANGED <<phase, ptr, alive, curr, next, got, list>>
    BY <1>3 DEF vars
  <2>2. TypeOK' /\ ResultPublished' /\ Linked'
    BY <2>1 DEF Core, TypeOK, ResultPublished, Linked
  <2>3. Phases'
    BY <2>1 DEF Core, Phases, Called
  <2>4. CountExact'
    BY <2>1 DEF Core, CountExact, Holds
  <2> QED
    BY <2>2, <2>3, <2>4 DEF Core
<1> QED
  BY <1>1, <1>2, <1>3, DropBoxCore, ForkCore DEF Next

\* What the core says of a deleted storage and of the calls.
LEMMA CoreProperties == Core => Inv /\ CalledRight
<1> SUFFICES ASSUME Core PROVE Inv /\ CalledRight
  OBVIOUS
<1> USE DEF Core
<1>1. NoUseAfterFree
  <2> SUFFICES ASSUME freed
               PROVE  ~box /\ (\A c \in Subscribers : ~Holds(c)) /\ inner \in {"lazy", "done"}
    BY DEF NoUseAfterFree
  <2>1. /\ refcount = 0 /\ refcount = Cardinality(Holders) + (IF box THEN 1 ELSE 0)
        /\ Cardinality(Holders) \in Nat
    BY Counts DEF CountExact, Holders
  <2>2. ~box /\ Cardinality(Holders) = 0
    BY <2>1
  <2>3. \A c \in Subscribers : ~Holds(c)
    BY <2>2, Counts, FS_EmptySet DEF Holders
  <2>4. inner \in {"lazy", "done"}
    BY <2>3 DEF ResultPublished, Holds, TypeOK
  <2> QED
    BY <2>2, <2>3, <2>4
<1>2. CalledRight
  <2>1. ASSUME cursor # Empty PROVE alive[cursor] /\ got[cursor] = <<>>
    <3>1. state = Result /\ IsChain(next, cursor, list)
      BY <2>1 DEF ResultPublished, Linked
    <3>2. cursor \in Subscribers /\ cursor \in ToSet(list)
      BY <2>1, <3>1, ChainHead DEF TypeOK
    <3> QED
      BY <3>2 DEF Linked, Phases, Called
  <2>2. \A c \in Subscribers : got[c] \in {<<>>, <<TRUE>>}
    BY DEF Phases
  <2> QED
    BY <2>1, <2>2 DEF CalledRight
<1> QED
  BY <1>1, <1>2 DEF Inv

\* The links from state_ lead through the callbacks that were pushed and not
\* called, the reference count is exact at every step, and the storage is
\* deleted when nobody is left who would touch it (share.hpp:73-150), however
\* many subscribers there are.
THEOREM ShareInvariance == Spec => []Inv
<1>1. Init => Core
  BY InitCore
<1>2. Core /\ [Next]_vars => Core'
  BY NextCore
<1>3. Core => Inv
  BY CoreProperties
<1> QED
  BY <1>1, <1>2, <1>3, PTL DEF Spec

\* Every slot is called at most once and with the result, by the walk of
\* set_result() or by its own late emit(), and the walk only comes to
\* connections that exist (share.hpp:94-150).
THEOREM CalledOnce == Spec => []CalledRight
<1>1. Init => Core
  BY InitCore
<1>2. Core /\ [Next]_vars => Core'
  BY NextCore
<1>3. Core => CalledRight
  BY CoreProperties
<1> QED
  BY <1>1, <1>2, <1>3, PTL DEF Spec

=============================================================================
