------------------------------- MODULE MCKcas -------------------------------
(* Two words.  MCProgram, for three threads, takes the words in the same     *)
(* order in every call and uses a descriptor twice.  MCCrossing is what two  *)
(* selects do that send to each other on two channels: each channel hands    *)
(* the done_ word of its sender to kcas first.                               *)
EXTENDS Kcas

CONSTANTS t1, t2, t3

Arg(w, from, to) == [a |-> w, e |-> from, n |-> to]
KcasOp(args) == [read |-> FALSE, args |-> args]
ReadOp(w) == [read |-> TRUE, args |-> <<Arg(w, 0, 0)>>]

MCInitMem == [w \in {1, 2} |-> 0]

MCProgram ==
    [t \in {t1, t2, t3} |->
        CASE t = t1 -> <<KcasOp(<<Arg(1, 0, 1), Arg(2, 0, 1)>>), KcasOp(<<Arg(1, 1, 0)>>)>>
          [] t = t2 -> <<KcasOp(<<Arg(1, 0, 2), Arg(2, 0, 2)>>)>>
          [] t = t3 -> <<ReadOp(2)>>]

MCCrossing ==
    [t \in {t1, t2} |->
        IF t = t1 THEN <<KcasOp(<<Arg(1, 0, 1), Arg(2, 0, 1)>>)>>
        ELSE <<KcasOp(<<Arg(2, 0, 1), Arg(1, 0, 1)>>)>>]

=============================================================================
