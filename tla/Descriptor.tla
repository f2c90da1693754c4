----------------------------- MODULE Descriptor -----------------------------
(***************************************************************************)
(* thread/detail/multiword.hpp: one reusable descriptor D{T,p}.  Its owner *)
(* p runs create_new again and again, writing the immutable fields one by  *)
(* one between two stores of the sequence; helpers that hold a pointer     *)
(* (pid, sequence) to some incarnation of it run read_immutables,          *)
(* read_mutables and cas_mutable at any later time.                        *)
(***************************************************************************)
EXTENDS Naturals, FiniteSets

CONSTANTS
    Helpers,
    Fields,      \* the immutable fields
    Modulus,     \* sequence numbers are below it: 2^32 in the code
    MaxCreates   \* bound: how often the owner uses its descriptor

ASSUME DescriptorAssumption ==
    /\ IsFiniteSet(Fields) /\ Fields # {}
    /\ Modulus \in Nat /\ MaxCreates \in Nat
    /\ 2 * MaxCreates < Modulus

VARIABLES
    seq,      \* the sequence half of state
    mut,      \* the mutables half of state
    imm,      \* imm[f]: the incarnation whose value field f holds
    creates,  \* how many times create_new has begun
    unset,    \* the fields create_new has still to write
    filling,  \* whether the owner is inside create_new
    helper    \* helper[h]: the locals of helper h

owner == <<seq, imm, creates, unset, filling>>
vars == <<owner, mut, helper>>

Decisions == {"succeeded", "failed"}

\* ptr and birth: the sequence in the pointer and the incarnation it was made
\* for; got[f]: what was copied; exp: the state cas_mutable has loaded.
Idle == [pc |-> "idle", ptr |-> 0, birth |-> 0, got |-> [f \in Fields |-> 0],
         todo |-> {}, exp |-> "none", new |-> "none"]

Init ==
    /\ seq = 0
    /\ mut = "undecided"
    /\ imm = [f \in Fields |-> 0]
    /\ creates = 0
    /\ unset = {}
    /\ filling = FALSE
    /\ helper = [h \in Helpers |-> Idle]

sequence_inc(s) == (s + 1) % Modulus

-----------------------------------------------------------------------------
\* create_new

\* Mutant: the first store of the sequence is left out.
CreateBeginSilently ==
    /\ ~filling
    /\ creates < MaxCreates
    /\ UNCHANGED seq
    /\ creates' = creates + 1
    /\ unset' = Fields
    /\ filling' = TRUE
    /\ UNCHANGED <<imm, mut, helper>>

CreateBegin ==
    /\ ~filling
    /\ creates < MaxCreates
    /\ seq' = sequence_inc(seq)
    /\ creates' = creates + 1
    /\ unset' = Fields
    /\ filling' = TRUE
    /\ UNCHANGED <<imm, mut, helper>>

WriteField(f) ==
    /\ filling
    /\ f \in unset
    /\ imm' = [imm EXCEPT ![f] = creates]
    /\ unset' = unset \ {f}
    /\ UNCHANGED <<seq, mut, creates, filling, helper>>

CreateEnd ==
    /\ filling
    /\ unset = {}
    /\ seq' = sequence_inc(seq)
    /\ mut' = "undecided"
    /\ filling' = FALSE
    /\ UNCHANGED <<imm, creates, unset, helper>>

-----------------------------------------------------------------------------
\* Helpers

Set(h, r) == helper' = [helper EXCEPT ![h] = r]
At(h, pc) == helper[h].pc = pc

\* A helper finds the pointer in a word, then goes for the immutables or for the
\* decision.
TakePointer(h) ==
    /\ At(h, "idle")
    /\ ~filling
    /\ creates > 0
    /\ \E pc \in {"check", "load"}, d \in Decisions :
           Set(h, [Idle EXCEPT !.pc = pc, !.ptr = seq, !.birth = creates,
                               !.new = IF pc = "load" THEN d ELSE "none"])
    /\ UNCHANGED <<owner, mut>>

\* read_immutables: the sequence is compared before and after the copy.
Check(h) ==
    /\ At(h, "check")
    /\ Set(h, IF helper[h].ptr # seq THEN Idle
              ELSE [helper[h] EXCEPT !.pc = "copy", !.todo = Fields])
    /\ UNCHANGED <<owner, mut>>

CopyField(h, f) ==
    /\ At(h, "copy")
    /\ f \in helper[h].todo
    /\ Set(h, [helper[h] EXCEPT !.got[f] = imm[f], !.todo = @ \ {f}])
    /\ UNCHANGED <<owner, mut>>

\* Mutant: the second comparison is left out.
NoRecheck(h) ==
    /\ At(h, "copy")
    /\ helper[h].todo = {}
    /\ Set(h, [helper[h] EXCEPT !.pc = "values"])
    /\ UNCHANGED <<owner, mut>>

Recheck(h) ==
    /\ At(h, "copy")
    /\ helper[h].todo = {}
    /\ Set(h, IF helper[h].ptr # seq THEN Idle ELSE [helper[h] EXCEPT !.pc = "values"])
    /\ UNCHANGED <<owner, mut>>

\* cas_mutable: load, compare the sequence and the field, then CAS the whole word
\* and start over if that fails.
LoadState(h) ==
    /\ At(h, "load")
    /\ Set(h, IF helper[h].ptr # seq \/ mut # "undecided" THEN Idle
              ELSE [helper[h] EXCEPT !.pc = "cas", !.exp = mut])
    /\ UNCHANGED <<owner, mut>>

\* Mutant: a store instead of the CAS.
StoreState(h) ==
    /\ At(h, "cas")
    /\ mut' = helper[h].new
    /\ Set(h, [helper[h] EXCEPT !.pc = "decided"])
    /\ UNCHANGED owner

CasState(h) ==
    /\ At(h, "cas")
    /\ helper[h].ptr = seq
    /\ helper[h].exp = mut
    /\ mut' = helper[h].new
    /\ Set(h, [helper[h] EXCEPT !.pc = "decided"])
    /\ UNCHANGED owner

\* A weak CAS may also fail for no reason.
CasFails(h) ==
    /\ At(h, "cas")
    /\ Set(h, [helper[h] EXCEPT !.pc = "load", !.exp = "none"])
    /\ UNCHANGED <<owner, mut>>

\* The caller has used what it was given.
Leave(h) ==
    /\ helper[h].pc \in {"values", "decided"}
    /\ Set(h, Idle)
    /\ UNCHANGED <<owner, mut>>

Next ==
    \/ CreateBegin
    \/ \E f \in Fields : WriteField(f)
    \/ CreateEnd
    \/ \E h \in Helpers :
           \/ TakePointer(h)
           \/ Check(h)
           \/ \E f \in Fields : CopyField(h, f)
           \/ Recheck(h)
           \/ LoadState(h)
           \/ CasState(h)
           \/ CasFails(h)
           \/ Leave(h)

Spec == Init /\ [][Next]_vars

-----------------------------------------------------------------------------
\* Properties

Parity == (seq % 2 = 1) <=> filling

\* Types; the sequence is odd exactly while create_new fills the fields, which is
\* what turns every reader away.
TypeOK ==
    /\ seq \in 0..(Modulus - 1)
    /\ mut \in {"undecided"} \cup Decisions
    /\ imm \in [Fields -> 0..MaxCreates]
    /\ creates \in 0..MaxCreates
    /\ unset \subseteq Fields
    /\ filling \in BOOLEAN
    /\ Parity
    /\ helper \in [Helpers -> [pc : {"idle", "check", "copy", "values", "load", "cas", "decided"},
                               ptr : 0..(Modulus - 1), birth : 0..MaxCreates,
                               got : [Fields -> 0..MaxCreates], todo : SUBSET Fields,
                               exp : {"none", "undecided"}, new : {"none"} \cup Decisions]]

\* What read_immutables returns is one incarnation's, and the one its pointer was
\* made for, however the copy interleaves with create_new.
ReadsOneIncarnation ==
    \A h \in Helpers : At(h, "values") =>
        \A f \in Fields : helper[h].got[f] = helper[h].birth

DecidesItsOwn ==
    \A h \in Helpers : At(h, "cas") /\ helper'[h].pc = "decided" =>
        helper[h].birth = creates /\ ~filling /\ mut = "undecided"

\* cas_mutable decides only the incarnation its pointer was made for, and that
\* one only once.
DecidesOnce == [][DecidesItsOwn]_vars

-----------------------------------------------------------------------------
\* The inductive invariant behind them.

\* The sequence counts the incarnations: it does not wrap in MaxCreates of them.
SeqCounts == seq = IF filling THEN 2 * creates - 1 ELSE 2 * creates

\* Every field is of this incarnation, or still to be written.
FieldsCurrent == \A f \in Fields : f \notin unset => imm[f] = creates
NothingUnset == ~filling => unset = {}

\* A pointer names its incarnation, and what was copied is right as long as the
\* sequence has not moved on.
PointerExact(r) ==
    r.pc # "idle" =>
        /\ r.ptr = 2 * r.birth
        /\ r.birth \in 1..creates
        /\ filling => r.birth < creates
CopyRight(r) ==
    /\ r.pc = "copy" /\ r.ptr = seq => \A f \in Fields \ r.todo : r.got[f] = r.birth
    /\ r.pc = "values" => \A f \in Fields : r.got[f] = r.birth
    /\ r.pc \in {"load", "cas"} => r.new \in Decisions
    /\ r.pc = "cas" => r.exp = "undecided"

IInv ==
    /\ TypeOK
    /\ filling => creates > 0
    /\ SeqCounts
    /\ FieldsCurrent
    /\ NothingUnset
    /\ \A h \in Helpers : PointerExact(helper[h]) /\ CopyRight(helper[h])

=============================================================================
