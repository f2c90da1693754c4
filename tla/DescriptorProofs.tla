-------------------------- MODULE DescriptorProofs --------------------------
(* Proofs about module Descriptor, for every set of helpers, every finite set *)
(* of fields and every number of uses below the wrap of the sequence.         *)
EXTENDS Descriptor, TLAPS

\* The state before the first create_new satisfies the invariant.
LEMMA InitIInv == Init => IInv
<1> SUFFICES ASSUME Init PROVE IInv
  OBVIOUS
<1> USE DescriptorAssumption DEF Init
<1>1. 0 \in 0..(Modulus - 1) /\ 0 \in 0..MaxCreates /\ 0 % 2 = 0
  OBVIOUS
<1>2. Idle \in [pc : {"idle", "check", "copy", "values", "load", "cas", "decided"},
                ptr : 0..(Modulus - 1), birth : 0..MaxCreates,
                got : [Fields -> 0..MaxCreates], todo : SUBSET Fields,
                exp : {"none", "undecided"}, new : {"none"} \cup Decisions]
  BY <1>1 DEF Idle
<1>3. TypeOK
  <2>1. Parity
    BY <1>1 DEF Parity
  <2> QED BY <1>1, <1>2, <2>1 DEF TypeOK
<1>4. SeqCounts /\ (filling => creates > 0) /\ FieldsCurrent /\ NothingUnset
  BY DEF SeqCounts, FieldsCurrent, NothingUnset
<1>5. \A h \in Helpers : PointerExact(helper[h]) /\ CopyRight(helper[h])
  BY DEF Idle, PointerExact, CopyRight
<1> QED BY <1>3, <1>4, <1>5 DEF IInv

\* sequence_inc adds one as long as fewer than Modulus / 2 incarnations are made.
LEMMA IncNoWrap ==
  ASSUME NEW s \in Nat, s + 1 < Modulus
  PROVE  sequence_inc(s) = s + 1
  BY DescriptorAssumption, SMTT(30) DEF sequence_inc

\* What the sequence of an incarnation looks like to its readers.
LEMMA Parities ==
  ASSUME NEW n \in Nat
  PROVE  (2 * n) % 2 = 0 /\ (2 * n + 1) % 2 = 1
  BY SMTT(30)

\* create_new's first store.
LEMMA CreateBeginIInv == IInv /\ CreateBegin => IInv'
<1> SUFFICES ASSUME IInv, CreateBegin PROVE IInv'
  OBVIOUS
<1> USE DescriptorAssumption
<1>1. seq \in Nat /\ seq = 2 * creates /\ creates \in Nat /\ creates < MaxCreates
  BY DEF IInv, TypeOK, SeqCounts, CreateBegin
<1>2. seq' = seq + 1
  BY <1>1, IncNoWrap DEF CreateBegin
<1>3. TypeOK'
  <2>1. seq' % 2 = 1 /\ seq' \in 0..(Modulus - 1)
    BY <1>1, <1>2, Parities
  <2>2. Parity'
    BY <2>1 DEF Parity, CreateBegin
  <2>3. creates' \in 0..MaxCreates
    BY <1>1 DEF CreateBegin
  <2> QED BY <2>1, <2>2, <2>3 DEF IInv, TypeOK, CreateBegin
<1>4. SeqCounts' /\ (filling => creates > 0)'
  BY <1>1, <1>2 DEF SeqCounts, CreateBegin
<1>5. FieldsCurrent' /\ NothingUnset'
  BY DEF FieldsCurrent, NothingUnset, CreateBegin
<1>6. \A h \in Helpers : PointerExact(helper[h])' /\ CopyRight(helper[h])'
  <2> SUFFICES ASSUME NEW h \in Helpers
               PROVE  PointerExact(helper[h])' /\ CopyRight(helper[h])'
    OBVIOUS
  <2>1. helper' = helper /\ creates' = creates + 1
    BY DEF CreateBegin
  <2>2. PointerExact(helper[h]) /\ CopyRight(helper[h])
    BY DEF IInv
  <2>3. helper[h].birth \in Nat
    BY DEF IInv, TypeOK
  <2>4. PointerExact(helper[h])'
    BY <1>1, <2>1, <2>2, <2>3 DEF PointerExact
  <2>5. helper[h].pc = "copy" => helper[h].ptr # seq'
    BY <1>1, <1>2, <2>2, <2>3 DEF PointerExact
  <2>6. CopyRight(helper[h])'
    BY <2>1, <2>2, <2>5 DEF CopyRight
  <2> QED BY <2>4, <2>6
<1> QED BY <1>3, <1>4, <1>5, <1>6 DEF IInv

\* The fields one by one.
LEMMA WriteFieldIInv == IInv /\ (\E f \in Fields : WriteField(f)) => IInv'
<1> SUFFICES ASSUME IInv, NEW f \in Fields, WriteField(f) PROVE IInv'
  OBVIOUS
<1>1. TypeOK'
  BY DescriptorAssumption, SMTT(30) DEF IInv, TypeOK, Parity, WriteField
<1>2. SeqCounts' /\ (filling => creates > 0)' /\ NothingUnset'
  BY DEF IInv, SeqCounts, NothingUnset, WriteField
<1>3. FieldsCurrent'
  BY DEF IInv, TypeOK, FieldsCurrent, WriteField
<1>4. \A h \in Helpers : PointerExact(helper[h])' /\ CopyRight(helper[h])'
  BY DEF IInv, PointerExact, CopyRight, WriteField
<1> QED BY <1>1, <1>2, <1>3, <1>4 DEF IInv

\* create_new's second store.
LEMMA CreateEndIInv == IInv /\ CreateEnd => IInv'
<1> SUFFICES ASSUME IInv, CreateEnd PROVE IInv'
  OBVIOUS
<1> USE DescriptorAssumption
<1>1. seq \in Nat /\ seq = 2 * creates - 1 /\ creates \in Nat /\ creates > 0 /\ creates <= MaxCreates
  BY DEF IInv, TypeOK, SeqCounts, CreateEnd
<1>2. seq' = seq + 1
  BY <1>1, IncNoWrap DEF CreateEnd
<1>3. TypeOK'
  <2>1. seq' % 2 = 0 /\ seq' \in 0..(Modulus - 1)
    BY <1>1, <1>2, Parities
  <2>2. Parity'
    BY <2>1 DEF Parity, CreateEnd
  <2> QED BY <2>1, <2>2 DEF IInv, TypeOK, CreateEnd
<1>4. SeqCounts' /\ (filling => creates > 0)'
  BY <1>1, <1>2 DEF SeqCounts, CreateEnd
<1>5. FieldsCurrent' /\ NothingUnset'
  BY DEF IInv, FieldsCurrent, NothingUnset, CreateEnd
<1>6. \A h \in Helpers : PointerExact(helper[h])' /\ CopyRight(helper[h])'
  <2> SUFFICES ASSUME NEW h \in Helpers
               PROVE  PointerExact(helper[h])' /\ CopyRight(helper[h])'
    OBVIOUS
  <2>1. helper' = helper /\ creates' = creates /\ filling /\ ~filling'
    BY DEF CreateEnd
  <2>2. PointerExact(helper[h]) /\ CopyRight(helper[h])
    BY DEF IInv
  <2>3. PointerExact(helper[h])'
    BY <2>1, <2>2 DEF PointerExact
  <2>4. helper[h].birth \in Nat
    BY DEF IInv, TypeOK
  \* No pointer to the new incarnation exists before its second store.
  <2>5. helper[h].pc = "copy" => helper[h].ptr # seq'
    BY <1>1, <1>2, <2>1, <2>2, <2>4 DEF PointerExact
  <2>6. CopyRight(helper[h])'
    BY <2>1, <2>2, <2>5 DEF CopyRight
  <2> QED BY <2>3, <2>6
<1> QED BY <1>3, <1>4, <1>5, <1>6 DEF IInv

\* The steps of a helper change its own locals and the decision, nothing else.
LEMMA HelperIInv ==
  ASSUME IInv, NEW h \in Helpers,
         UNCHANGED owner,
         mut' \in {"undecided"} \cup Decisions,
         NEW r \in [pc : {"idle", "check", "copy", "values", "load", "cas", "decided"},
                    ptr : 0..(Modulus - 1), birth : 0..MaxCreates,
                    got : [Fields -> 0..MaxCreates], todo : SUBSET Fields,
                    exp : {"none", "undecided"}, new : {"none"} \cup Decisions],
         helper' = [helper EXCEPT ![h] = r],
         PointerExact(r), CopyRight(r)
  PROVE  IInv'
<1>1. TypeOK'
  BY DEF IInv, TypeOK, Parity, owner
<1>2. SeqCounts' /\ (filling => creates > 0)' /\ FieldsCurrent' /\ NothingUnset'
  BY DEF IInv, SeqCounts, FieldsCurrent, NothingUnset, owner
<1>3. \A k \in Helpers : PointerExact(helper[k])' /\ CopyRight(helper[k])'
  <2> SUFFICES ASSUME NEW k \in Helpers
               PROVE  PointerExact(helper[k])' /\ CopyRight(helper[k])'
    OBVIOUS
  <2>1. helper'[k] = IF k = h THEN r ELSE helper[k]
    BY DEF IInv, TypeOK
  <2>2. PointerExact(helper'[k]) /\ CopyRight(helper'[k])
    BY <2>1 DEF IInv
  <2> QED BY <2>2 DEF PointerExact, CopyRight, owner
<1> QED BY <1>1, <1>2, <1>3 DEF IInv

\* A pointer whose sequence is the current one names the current incarnation,
\* which is complete.
LEMMA PointerCurrent ==
  ASSUME IInv, NEW h \in Helpers, helper[h].pc # "idle", helper[h].ptr = seq
  PROVE  helper[h].birth = creates /\ ~filling
<1>1. helper[h].ptr = 2 * helper[h].birth /\ helper[h].birth \in 1..creates
      /\ (filling => helper[h].birth < creates)
  BY DEF IInv, PointerExact
<1>2. seq = IF filling THEN 2 * creates - 1 ELSE 2 * creates
  BY DEF IInv, SeqCounts
<1>3. creates \in Nat
  BY DescriptorAssumption DEF IInv, TypeOK
<1>4. helper[h].birth \in Nat
  BY DescriptorAssumption DEF IInv, TypeOK
<1>5. 2 * helper[h].birth = seq
  BY <1>1
<1>6. ~filling
  BY <1>2, <1>3, <1>4, <1>5
<1>7. seq = 2 * creates
  BY <1>2, <1>6
<1> QED BY <1>3, <1>4, <1>5, <1>6, <1>7

\* read_immutables and cas_mutable keep the invariant.
LEMMA ReadIInv ==
  ASSUME IInv, NEW h \in Helpers,
         \/ TakePointer(h) \/ Check(h) \/ \E f \in Fields : CopyField(h, f)
         \/ Recheck(h) \/ LoadState(h) \/ CasState(h) \/ CasFails(h) \/ Leave(h)
  PROVE  IInv'
<1> DEFINE R == [pc : {"idle", "check", "copy", "values", "load", "cas", "decided"},
                 ptr : 0..(Modulus - 1), birth : 0..MaxCreates,
                 got : [Fields -> 0..MaxCreates], todo : SUBSET Fields,
                 exp : {"none", "undecided"}, new : {"none"} \cup Decisions]
<1>0. helper[h] \in R /\ PointerExact(helper[h]) /\ CopyRight(helper[h])
  BY DEF IInv, TypeOK
<1>m. mut \in {"undecided"} \cup Decisions
  BY DEF IInv, TypeOK
<1>i. Idle \in R /\ PointerExact(Idle) /\ CopyRight(Idle)
  BY DescriptorAssumption DEF Idle, PointerExact, CopyRight
<1>1. CASE TakePointer(h)
  <2>1. PICK pc \in {"check", "load"}, d \in Decisions :
          Set(h, [Idle EXCEPT !.pc = pc, !.ptr = seq, !.birth = creates,
                              !.new = IF pc = "load" THEN d ELSE "none"])
    BY <1>1 DEF TakePointer
  <2> DEFINE r == [Idle EXCEPT !.pc = pc, !.ptr = seq, !.birth = creates,
                               !.new = IF pc = "load" THEN d ELSE "none"]
  <2>2. r \in R
    BY <1>i, <2>1 DEF IInv, TypeOK, Idle
  <2>3. seq = 2 * creates /\ ~filling /\ creates \in Nat /\ creates > 0
    <3>1. ~filling /\ creates > 0
      BY <1>1 DEF TakePointer
    <3>2. seq = 2 * creates
      BY <3>1 DEF IInv, SeqCounts
    <3>3. creates \in Nat
      BY DescriptorAssumption DEF IInv, TypeOK
    <3> QED BY <3>1, <3>2, <3>3
  <2>4. r.pc = pc /\ r.ptr = seq /\ r.birth = creates
    BY DEF Idle
  <2>5. PointerExact(r)
    BY <2>3, <2>4 DEF PointerExact
  <2>6. CopyRight(r)
    <3>1. pc = "load" => r.new = d
      BY DEF Idle
    <3> QED BY <2>1, <2>4, <3>1 DEF CopyRight
  <2>7. UNCHANGED <<owner, mut>>
    BY <1>1 DEF TakePointer
  <2>8. helper' = [helper EXCEPT ![h] = r]
    BY <2>1 DEF Set
  <2> HIDE DEF r
  <2> QED BY <1>m, <2>2, <2>5, <2>6, <2>7, <2>8, HelperIInv
<1> USE DEF Set, At
<1>2. CASE Check(h)
  <2> DEFINE r == IF helper[h].ptr # seq THEN Idle
                  ELSE [helper[h] EXCEPT !.pc = "copy", !.todo = Fields]
  <2>1. r \in R
    BY <1>0, <1>i
  <2>2. PointerExact(r)
    BY <1>0, <1>2, <1>i DEF Check, PointerExact
  <2>3. CopyRight(r)
    BY <1>0, <1>2, <1>i DEF Check, CopyRight
  <2>4. UNCHANGED <<owner, mut>> /\ helper' = [helper EXCEPT ![h] = r]
    BY <1>2 DEF Check
  <2> HIDE DEF r
  <2> QED BY <1>m, <2>1, <2>2, <2>3, <2>4, HelperIInv
<1>3. CASE \E f \in Fields : CopyField(h, f)
  <2>1. PICK f \in Fields : CopyField(h, f)
    BY <1>3
  <2> DEFINE r == [helper[h] EXCEPT !.got[f] = imm[f], !.todo = @ \ {f}]
  <2>2. r \in R
    BY <1>0 DEF IInv, TypeOK
  <2>3. PointerExact(r)
    BY <1>0, <2>1 DEF CopyField, PointerExact
  <2>4. CopyRight(r)
    <3>1. r.pc = "copy" /\ r.ptr = helper[h].ptr /\ r.birth = helper[h].birth
          /\ r.todo = helper[h].todo \ {f}
          /\ r.got = [helper[h].got EXCEPT ![f] = imm[f]]
      BY <1>0, <2>1 DEF CopyField
    <3> SUFFICES ASSUME helper[h].ptr = seq, NEW g \in Fields, g \notin helper[h].todo \ {f}
                 PROVE  r.got[g] = helper[h].birth
      BY <3>1 DEF CopyRight
    <3>2. helper[h].birth = creates /\ ~filling
      BY <2>1, PointerCurrent DEF CopyField
    <3>3. imm[f] = creates
      BY <3>2 DEF IInv, FieldsCurrent, NothingUnset
    <3>4. g # f => helper[h].got[g] = helper[h].birth
      BY <1>0, <2>1 DEF CopyField, CopyRight
    <3>5. helper[h].got \in [Fields -> 0..MaxCreates]
      BY <1>0
    <3> HIDE DEF r
    <3> QED BY <3>1, <3>2, <3>3, <3>4, <3>5
  <2>5. UNCHANGED <<owner, mut>> /\ helper' = [helper EXCEPT ![h] = r]
    BY <2>1 DEF CopyField
  <2> HIDE DEF r
  <2> QED BY <1>m, <2>2, <2>3, <2>4, <2>5, HelperIInv
<1>4. CASE Recheck(h)
  <2> DEFINE r == IF helper[h].ptr # seq THEN Idle ELSE [helper[h] EXCEPT !.pc = "values"]
  <2>1. r \in R
    BY <1>0, <1>i
  <2>2. PointerExact(r)
    BY <1>0, <1>4, <1>i DEF Recheck, PointerExact
  <2>3. CopyRight(r)
    BY <1>0, <1>4, <1>i DEF Recheck, CopyRight
  <2>4. UNCHANGED <<owner, mut>> /\ helper' = [helper EXCEPT ![h] = r]
    BY <1>4 DEF Recheck
  <2> HIDE DEF r
  <2> QED BY <1>m, <2>1, <2>2, <2>3, <2>4, HelperIInv
<1>5. CASE LoadState(h)
  <2> DEFINE r == IF helper[h].ptr # seq \/ mut # "undecided" THEN Idle
                  ELSE [helper[h] EXCEPT !.pc = "cas", !.exp = mut]
  <2>1. r \in R
    BY <1>0, <1>i
  <2>2. PointerExact(r)
    BY <1>0, <1>5, <1>i DEF LoadState, PointerExact
  <2>3. CopyRight(r)
    BY <1>0, <1>5, <1>i DEF LoadState, CopyRight
  <2>4. UNCHANGED <<owner, mut>> /\ helper' = [helper EXCEPT ![h] = r]
    BY <1>5 DEF LoadState
  <2> HIDE DEF r
  <2> QED BY <1>m, <2>1, <2>2, <2>3, <2>4, HelperIInv
<1>6. CASE CasState(h)
  <2> DEFINE r == [helper[h] EXCEPT !.pc = "decided"]
  <2>1. r \in R /\ PointerExact(r) /\ CopyRight(r)
    BY <1>0, <1>6 DEF CasState, PointerExact, CopyRight
  <2>2. UNCHANGED owner /\ helper' = [helper EXCEPT ![h] = r] /\ mut' = helper[h].new
    BY <1>6 DEF CasState
  <2>3. mut' \in {"undecided"} \cup Decisions
    BY <1>0, <1>6, <2>2 DEF CasState, CopyRight
  <2> HIDE DEF r
  <2> QED BY <2>1, <2>2, <2>3, HelperIInv
<1>7. CASE CasFails(h)
  <2> DEFINE r == [helper[h] EXCEPT !.pc = "load", !.exp = "none"]
  <2>1. r \in R /\ PointerExact(r) /\ CopyRight(r)
    BY <1>0, <1>7 DEF CasFails, PointerExact, CopyRight
  <2>2. UNCHANGED <<owner, mut>> /\ helper' = [helper EXCEPT ![h] = r]
    BY <1>7 DEF CasFails
  <2> HIDE DEF r
  <2> QED BY <1>m, <2>1, <2>2, HelperIInv
<1>8. CASE Leave(h)
  <2>1. UNCHANGED <<owner, mut>> /\ helper' = [helper EXCEPT ![h] = Idle]
    BY <1>8 DEF Leave
  <2> QED BY <1>m, <1>i, <2>1, HelperIInv
<1> QED BY <1>1, <1>2, <1>3, <1>4, <1>5, <1>6, <1>7, <1>8

\* Every step keeps the invariant.
LEMMA NextIInv == IInv /\ [Next]_vars => IInv'
<1> SUFFICES ASSUME IInv, [Next]_vars PROVE IInv'
  OBVIOUS
<1>1. CASE UNCHANGED vars
  BY <1>1 DEF IInv, TypeOK, Parity, SeqCounts, FieldsCurrent, NothingUnset,
              PointerExact, CopyRight, vars, owner
<1>2. CASE Next
  BY <1>2, CreateBeginIInv, WriteFieldIInv, CreateEndIInv, ReadIInv DEF Next
<1> QED BY <1>1, <1>2

\* The invariant holds throughout.
THEOREM Invariance == Spec => []IInv
  BY InitIInv, NextIInv, PTL DEF Spec

\* The descriptor is well typed and its sequence odd exactly while it is filled.
THEOREM DescriptorType == Spec => []TypeOK
<1>1. IInv => TypeOK
  BY DEF IInv
<1> QED BY <1>1, Invariance, PTL

\* read_immutables never mixes two incarnations, nor returns the wrong one.
THEOREM ReadCorrect == Spec => []ReadsOneIncarnation
<1>1. IInv => ReadsOneIncarnation
  BY DEF IInv, CopyRight, ReadsOneIncarnation, At
<1> QED BY <1>1, Invariance, PTL

\* cas_mutable decides the incarnation it was meant for, and that one only once.
THEOREM DecideCorrect == Spec => DecidesOnce
<1>1. IInv /\ [Next]_vars => [DecidesItsOwn]_vars
  <2> SUFFICES ASSUME IInv, Next, NEW h \in Helpers, At(h, "cas"), helper'[h].pc = "decided"
               PROVE  helper[h].birth = creates /\ ~filling /\ mut = "undecided"
    BY DEF DecidesItsOwn
  <2>1. helper \in [Helpers -> [pc : {"idle", "check", "copy", "values", "load", "cas", "decided"},
                                ptr : 0..(Modulus - 1), birth : 0..MaxCreates,
                                got : [Fields -> 0..MaxCreates], todo : SUBSET Fields,
                                exp : {"none", "undecided"}, new : {"none"} \cup Decisions]]
    BY DEF IInv, TypeOK
  <2>2. CASE UNCHANGED helper
    BY <2>2 DEF At
  <2>3. CASE \E k \in Helpers : helper' = [helper EXCEPT ![k] = helper'[k]] /\ k # h
    BY <2>1, <2>3 DEF At
  <2>4. CASE CasState(h)
    <3>1. helper[h].exp = "undecided"
      BY <2>4 DEF IInv, CopyRight, CasState, At
    <3> QED BY <2>4, <3>1, PointerCurrent DEF CasState, At
  <2>5. CASE CasFails(h)
    BY <2>1, <2>5 DEF CasFails, At, Set
  <2> QED BY <2>1, <2>2, <2>3, <2>4, <2>5
      DEF Next, CreateBegin, WriteField, CreateEnd, TakePointer, Check, CopyField, Recheck,
          LoadState, CasState, CasFails, Leave, Set, At
<1> QED BY <1>1, Invariance, PTL DEF Spec, DecidesOnce

=============================================================================
