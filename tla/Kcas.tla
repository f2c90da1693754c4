-------------------------------- MODULE Kcas --------------------------------
(***************************************************************************)
(* thread/detail/multiword_kcas.{hpp,cpp} and multiword_dcss.{hpp,cpp}:    *)
(* kcas, kcas_read, kcas_help, dcss, dcss_read and dcss_help over the      *)
(* reusable descriptors of multiword.hpp, one per thread and kind, named   *)
(* by (pid, sequence).  One step is one access to shared memory;           *)
(* create_new and read_immutables, which module Descriptor takes apart,    *)
(* are single steps.  Every thread runs a program of kcas and kcas_read    *)
(* calls; its stack holds a frame per nested kcas_help.                    *)
(*                                                                         *)
(* dcss and dcss_help use compare_exchange_weak outside of a loop.  Their  *)
(* exchanges fail here only when the word differs, as the instruction of   *)
(* the x86 build does.                                                     *)
(***************************************************************************)
EXTENDS Naturals, Sequences, SequencesExt, FiniteSets

CONSTANTS
    Threads,
    Words,
    Program,   \* Program[t]: the calls of t, [read, args]; an arg is [a, e, n]
    InitMem    \* InitMem[w]: the value of word w at the start

ASSUME KcasAssumption ==
    /\ IsFiniteSet(Threads)
    /\ InitMem \in [Words -> Nat]
    /\ \A t \in Threads : \A k \in DOMAIN Program[t] :
           LET op == Program[t][k] IN
           /\ op.read \in BOOLEAN
           /\ op.args # <<>> /\ (op.read => Len(op.args) = 1)
           /\ \A i \in DOMAIN op.args : op.args[i].a \in Words
           /\ \A i, j \in DOMAIN op.args : op.args[i].a = op.args[j].a => i = j

VARIABLES
    mem,     \* mem[w]: <<"val", v>>, or a flagged pointer <<kind, pid, seq>>
    kdes,    \* kdes[t]: the kcas descriptor of t
    ddes,    \* ddes[t]: the dcss descriptor of t
    stack,   \* stack[t]: the frames of t, the innermost last
    result,  \* result[t]: what its calls returned
    window   \* history: the memories there have been since the call of t

vars == <<mem, kdes, ddes, stack, result, window>>

Val(v) == <<"val", v>>
NoArg == [a |-> 0, e |-> 0, n |-> 0]
NoPtr == <<"none", 0, 0>>

Op(t) == Program[t][Len(result[t]) + 1]

\* A frame of kcas_help, or of kcas_read (pc = "load"), with the locals of the
\* dcss and the dcss_help it is in: h is the dcss descriptor being helped, hv its
\* immutables and ret where dcss_help returns to.
Frame(des, pc, arg) ==
    [des |-> des, pc |-> pc, i |-> 1, arg |-> arg, st |-> "none",
     h |-> NoPtr, hv |-> NoArg, ret |-> "none"]

Top(t) == Last(stack[t])
InFrame(t, pc) == stack[t] # <<>> /\ Top(t).pc = pc
SetTop(t, f) == stack' = [stack EXCEPT ![t] = Append(Front(@), f)]
GoTo(t, pc) == SetTop(t, [Top(t) EXCEPT !.pc = pc])

Init ==
    /\ mem = [w \in Words |-> Val(InitMem[w])]
    /\ kdes = [t \in Threads |-> [seq |-> 0, state |-> "undecided", args |-> <<>>]]
    /\ ddes = [t \in Threads |-> [seq |-> 0, a1 |-> NoPtr, a2 |-> 0, e2 |-> 0]]
    /\ stack = [t \in Threads |-> <<>>]
    /\ result = [t \in Threads |-> <<>>]
    /\ window = [t \in Threads |-> {}]

\* read_mutables and read_immutables of a kcas descriptor; a pointer whose
\* sequence is over reads bottom.
Current(p) ==
    CASE p[1] = "kcas" -> kdes[p[2]].seq = p[3]
      [] p[1] = "dcss" -> ddes[p[2]].seq = p[3]
      [] OTHER -> FALSE
ReadState(p) == IF Current(p) THEN kdes[p[2]].state ELSE "bottom"

\* The return of the innermost frame; the result of a nested help is ignored.
Return(t, r) ==
    IF Len(stack[t]) = 1
    THEN /\ stack' = [stack EXCEPT ![t] = <<>>]
         /\ result' = [result EXCEPT ![t] = Append(@, r)]
    ELSE /\ stack' = [stack EXCEPT ![t] = Front(@)]
         /\ UNCHANGED result

Nested(t, p, pc) ==
    stack' = [stack EXCEPT ![t] = Front(@) \o <<[Top(t) EXCEPT !.pc = pc],
                                               Frame(p, "start", NoArg)>>]

-----------------------------------------------------------------------------
\* kcas and kcas_read

CallKcas(t) ==
    /\ stack[t] = <<>>
    /\ Len(result[t]) < Len(Program[t])
    /\ ~Op(t).read
    /\ LET seq == kdes[t].seq + 2
       IN  /\ kdes' = [kdes EXCEPT ![t] = [seq |-> seq, state |-> "undecided",
                                           args |-> Op(t).args]]
           /\ stack' = [stack EXCEPT ![t] = <<Frame(<<"kcas", t, seq>>, "start", NoArg)>>]
    /\ UNCHANGED <<mem, ddes, result>>

CallRead(t) ==
    /\ stack[t] = <<>>
    /\ Len(result[t]) < Len(Program[t])
    /\ Op(t).read
    /\ stack' = [stack EXCEPT ![t] = <<Frame(NoPtr, "load", Op(t).args[1])>>]
    /\ UNCHANGED <<mem, kdes, ddes, result>>

\* kcas_read: the load of dcss_read, which helps whatever it finds.
Load(t) ==
    /\ InFrame(t, "load")
    /\ LET cur == mem[Top(t).arg.a] IN
       \/ /\ cur[1] = "val"
          /\ Return(t, cur)
       \/ /\ cur[1] = "dcss"
          /\ SetTop(t, [Top(t) EXCEPT !.pc = "help_read", !.h = cur, !.ret = "load"])
          /\ UNCHANGED result
       \/ /\ cur[1] = "kcas"
          /\ Nested(t, cur, "load")
          /\ UNCHANGED result
    /\ UNCHANGED <<mem, kdes, ddes>>

-----------------------------------------------------------------------------
\* kcas_help, first half: take every word with a dcss, then decide.

Start(t) ==
    /\ InFrame(t, "start")
    /\ LET st == ReadState(Top(t).des) IN
       \/ /\ st = "bottom"
          /\ Return(t, <<"kcas", "bottom">>)
       \/ /\ st = "undecided"
          /\ GoTo(t, "lock")
          /\ UNCHANGED result
       \/ /\ st \in {"succeeded", "failed"}
          /\ GoTo(t, "reread")
          /\ UNCHANGED result
    /\ UNCHANGED <<mem, kdes, ddes>>

Lock(t) ==
    /\ InFrame(t, "lock")
    /\ LET f == Top(t)
           args == kdes[f.des[2]].args
       IN  \/ /\ ~Current(f.des)
              /\ Return(t, <<"kcas", "bottom">>)
           \/ /\ Current(f.des)
              /\ f.i > Len(args)
              /\ SetTop(t, [f EXCEPT !.pc = "decide", !.st = "succeeded"])
              /\ UNCHANGED result
           \/ /\ Current(f.des)
              /\ f.i <= Len(args)
              /\ SetTop(t, [f EXCEPT !.pc = "dcss_new", !.arg = args[f.i]])
              /\ UNCHANGED result
    /\ UNCHANGED <<mem, kdes, ddes>>

DcssNew(t) ==
    /\ InFrame(t, "dcss_new")
    /\ ddes' = [ddes EXCEPT ![t] = [seq |-> @.seq + 2, a1 |-> Top(t).des,
                                    a2 |-> Top(t).arg.a, e2 |-> Top(t).arg.e]]
    /\ GoTo(t, "dcss_cas")
    /\ UNCHANGED <<mem, kdes, result>>

Own(t) == <<"dcss", t, ddes[t].seq>>

\* dcss goes on to help its own descriptor when the CAS left r = e2.
HelpOwn(t) == SetTop(t, [Top(t) EXCEPT !.pc = "help_read", !.h = Own(t), !.ret = "lock"])

\* The CAS of dcss; unless it meets another dcss the value found goes straight
\* back to kcas_help.
DcssInstalls(t) ==
    /\ mem[Top(t).arg.a] = Val(Top(t).arg.e)
    /\ mem' = [mem EXCEPT ![Top(t).arg.a] = Own(t)]
    /\ HelpOwn(t)

DcssMeetsDcss(t) ==
    LET cur == mem[Top(t).arg.a] IN
    /\ cur[1] = "dcss"
    /\ SetTop(t, [Top(t) EXCEPT !.pc = "help_read", !.h = cur, !.ret = "dcss_cas"])
    /\ UNCHANGED mem

\* Mutant: a foreign kcas in the word is taken for success.
MeetsOtherKcasSkips(t) ==
    LET cur == mem[Top(t).arg.a] IN
    /\ cur[1] = "kcas" /\ cur # Top(t).des
    /\ SetTop(t, [Top(t) EXCEPT !.pc = "lock", !.i = @ + 1])
    /\ UNCHANGED mem

\* Mutant: wait for the foreign kcas instead of helping it.
MeetsOtherKcasSpins(t) ==
    LET cur == mem[Top(t).arg.a] IN
    /\ cur[1] = "kcas" /\ cur # Top(t).des
    /\ UNCHANGED <<mem, stack>>

MeetsOtherKcas(t) ==
    LET cur == mem[Top(t).arg.a] IN
    /\ cur[1] = "kcas" /\ cur # Top(t).des
    /\ Nested(t, cur, "lock")
    /\ UNCHANGED mem

FindsItself(t) ==
    /\ mem[Top(t).arg.a] = Top(t).des
    /\ SetTop(t, [Top(t) EXCEPT !.pc = "lock", !.i = @ + 1])
    /\ UNCHANGED mem

Mismatch(t) ==
    LET cur == mem[Top(t).arg.a] IN
    /\ cur[1] = "val" /\ cur # Val(Top(t).arg.e)
    /\ SetTop(t, [Top(t) EXCEPT !.pc = "decide", !.st = "failed"])
    /\ UNCHANGED mem

DcssCas(t) ==
    /\ InFrame(t, "dcss_cas")
    /\ \/ DcssInstalls(t)
       \/ DcssMeetsDcss(t)
       \/ MeetsOtherKcas(t)
       \/ FindsItself(t)
       \/ Mismatch(t)
    /\ UNCHANGED <<kdes, ddes, result>>

\* cas_mutable from undecided: whoever comes first decides.
Decide(t) ==
    /\ InFrame(t, "decide")
    /\ LET f == Top(t)
           p == f.des[2]
       IN  \/ /\ ~Current(f.des)
              /\ Return(t, <<"kcas", "bottom">>)
              /\ UNCHANGED kdes
           \/ /\ Current(f.des)
              /\ kdes' = [kdes EXCEPT ![p].state = IF @ = "undecided" THEN f.st ELSE @]
              /\ SetTop(t, Frame(f.des, "reread", NoArg))
              /\ UNCHANGED result
    /\ UNCHANGED <<mem, ddes>>

-----------------------------------------------------------------------------
\* dcss_help

HelpReturn(t) ==
    LET f == Top(t) IN
    SetTop(t, [f EXCEPT !.pc = f.ret, !.ret = "none", !.h = NoPtr, !.hv = NoArg,
                        !.i = IF f.ret = "lock" THEN @ + 1 ELSE @])

HelpRead(t) ==
    /\ InFrame(t, "help_read")
    /\ LET f == Top(t) IN
       \/ /\ ~Current(f.h)
          /\ HelpReturn(t)
       \/ /\ Current(f.h)
          /\ SetTop(t, [f EXCEPT !.pc = "help_state", !.hv = ddes[f.h[2]]])
    /\ UNCHANGED <<mem, kdes, ddes, result>>

\* a1_load: the state of the kcas; bottom counts as no longer undecided.
HelpState(t) ==
    /\ InFrame(t, "help_state")
    /\ LET d == Top(t).hv IN
       SetTop(t, [Top(t) EXCEPT
           !.pc = "help_cas",
           !.hv = [a |-> d.a2,
                   n |-> IF ReadState(d.a1) = "undecided" THEN d.a1 ELSE Val(d.e2)]])
    /\ UNCHANGED <<mem, kdes, ddes, result>>

HelpCas(t) ==
    /\ InFrame(t, "help_cas")
    /\ LET f == Top(t) IN
       mem' = [mem EXCEPT ![f.hv.a] = IF @ = f.h THEN f.hv.n ELSE @]
    /\ HelpReturn(t)
    /\ UNCHANGED <<kdes, ddes, result>>

-----------------------------------------------------------------------------
\* kcas_help, second half: put the new or the old values in.

Reread(t) ==
    /\ InFrame(t, "reread")
    /\ SetTop(t, [Frame(Top(t).des, "unlock", NoArg) EXCEPT !.st = ReadState(Top(t).des)])
    /\ UNCHANGED <<mem, kdes, ddes, result>>

Unlock(t) ==
    /\ InFrame(t, "unlock")
    /\ LET f == Top(t)
           args == kdes[f.des[2]].args
       IN  \/ /\ ~Current(f.des)
              /\ Return(t, <<"kcas", "bottom">>)
           \/ /\ Current(f.des)
              /\ f.i > Len(args)
              /\ Return(t, <<"kcas", IF f.st = "succeeded" THEN "true" ELSE "false">>)
           \/ /\ Current(f.des)
              /\ f.i <= Len(args)
              /\ SetTop(t, [f EXCEPT !.pc = "unlock_cas", !.arg = args[f.i]])
              /\ UNCHANGED result
    /\ UNCHANGED <<mem, kdes, ddes>>

\* Mutant: the new values go in whatever was decided.
UnlockCasAlwaysNew(t) ==
    /\ InFrame(t, "unlock_cas")
    /\ LET f == Top(t)
       IN  /\ mem' = [mem EXCEPT ![f.arg.a] = IF @ = f.des THEN Val(f.arg.n) ELSE @]
           /\ SetTop(t, [f EXCEPT !.pc = "unlock", !.i = @ + 1, !.arg = NoArg])
    /\ UNCHANGED <<kdes, ddes, result>>

UnlockCas(t) ==
    /\ InFrame(t, "unlock_cas")
    /\ LET f == Top(t)
           v == IF f.st = "succeeded" THEN f.arg.n ELSE f.arg.e
       IN  /\ mem' = [mem EXCEPT ![f.arg.a] = IF @ = f.des THEN Val(v) ELSE @]
           /\ SetTop(t, [f EXCEPT !.pc = "unlock", !.i = @ + 1, !.arg = NoArg])
    /\ UNCHANGED <<kdes, ddes, result>>

-----------------------------------------------------------------------------
\* The value of a word while descriptors are in the way.

ArgFor(p, w) ==
    LET args == kdes[p].args
    IN  args[CHOOSE i \in DOMAIN args : args[i].a = w]

AbsMem ==
    [w \in Words |->
        LET cur == mem[w] IN
        CASE cur[1] = "val" -> cur[2]
          [] cur[1] = "dcss" -> ddes[cur[2]].e2
          [] cur[1] = "kcas" -> IF ReadState(cur) = "succeeded"
                                THEN ArgFor(cur[2], w).n
                                ELSE ArgFor(cur[2], w).e]

Remember ==
    window' = [t \in Threads |->
        IF stack'[t] = <<>> THEN {}
        ELSE IF stack[t] = <<>> THEN {AbsMem'}
        ELSE window[t] \cup {AbsMem'}]

Step(t) ==
    /\ \/ CallKcas(t)
       \/ CallRead(t)
       \/ Load(t)
       \/ Start(t)
       \/ Lock(t)
       \/ DcssNew(t)
       \/ DcssCas(t)
       \/ Decide(t)
       \/ HelpRead(t)
       \/ HelpState(t)
       \/ HelpCas(t)
       \/ Reread(t)
       \/ Unlock(t)
       \/ UnlockCas(t)
    /\ Remember

Finished(t) == stack[t] = <<>> /\ Len(result[t]) = Len(Program[t])

Terminated == (\A t \in Threads : Finished(t)) /\ UNCHANGED vars

Next == (\E t \in Threads : Step(t)) \/ Terminated

Spec == Init /\ [][Next]_vars

-----------------------------------------------------------------------------
\* Properties

\* Types, and DEBUG_ASSERT(result.has_value()) in kcas (multiword_kcas.cpp:18):
\* the caller of kcas never finds its own descriptor reused.
TypeOK ==
    /\ \A w \in Words :
           \/ mem[w][1] = "val" /\ mem[w][2] \in Nat
           \/ mem[w][1] \in {"dcss", "kcas"} /\ mem[w][2] \in Threads
    /\ \A t \in Threads :
           /\ kdes[t].state \in {"undecided", "succeeded", "failed"}
           /\ \A k \in DOMAIN result[t] : result[t][k] # <<"kcas", "bottom">>

\* A descriptor is reused only once no word points to it any more: a word never
\* holds a pointer whose sequence is over, which nobody could help away.
NoStalePointer == \A w \in Words : mem[w][1] # "val" => Current(mem[w])

\* "Use DCSS to store fdes in each of a1, a2, ... , ak" (multiword_kcas.cpp:45):
\* whoever is about to decide a success finds every word taken for it.
TakenBeforeDecided ==
    \A t \in Threads : \A k \in DOMAIN stack[t] :
        LET f == stack[t][k] IN
        f.pc = "decide" /\ f.st = "succeeded" /\ ReadState(f.des) = "undecided" =>
            \A i \in DOMAIN kdes[f.des[2]].args : mem[kdes[f.des[2]].args[i].a] = f.des

\* Nobody helps an operation it is already helping further up its stack: such a
\* thread would call kcas_help for ever.
NoCircularHelp == \A t \in Threads : IsInjective([k \in DOMAIN stack[t] |-> stack[t][k].des])

\* The words and descriptors are consistent at every access of every helper
\* (multiword_kcas.cpp:39-124): no pointer to a descriptor that is re-used, no
\* success decided before all words are taken, no help in a circle.
Inv == TypeOK /\ NoStalePointer /\ TakenBeforeDecided /\ NoCircularHelp

Phase(t) ==
    IF stack[t] = <<>> THEN "idle"
    ELSE IF ~Op(t).read /\ kdes[t].state = "succeeded" THEN "won" ELSE "open"

Abstract == INSTANCE KcasSpec WITH
    mem <- AbsMem,
    phase <- [t \in Threads |-> Phase(t)]

\* kcas and kcas_read are atomic: all the words of a successful kcas change at
\* one moment, a failure and a value read are justified by a moment of the call.
Atomic == Abstract!Spec

\* Nobody waits for anybody: a thread that is scheduled finishes its calls even
\* if every other thread stops for good between any two of its steps.
NonBlocking == \A t \in Threads : WF_vars(Step(t)) => <>Finished(t)

=============================================================================
