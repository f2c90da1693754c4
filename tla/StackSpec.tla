------------------------------ MODULE StackSpec ------------------------------
(* What lock_free_stack promises: push and extract are atomic, extract takes *)
(* everything, newest first, and a node is never in two places.              *)
EXTENDS Sequences, SequencesExt

CONSTANTS Nodes, Threads

VARIABLES stack,   \* newest first
          taken    \* taken[th]: what is left of the list th has extracted

vars == <<stack, taken>>

Init ==
    /\ stack = <<>>
    /\ taken = [th \in Threads |-> <<>>]

Push(n) ==
    /\ n \notin ToSet(stack)
    /\ \A th \in Threads : n \notin ToSet(taken[th])
    /\ stack' = <<n>> \o stack
    /\ UNCHANGED taken

ExtractAll(th) ==
    /\ taken[th] = <<>>
    /\ taken' = [taken EXCEPT ![th] = stack]
    /\ stack' = <<>>

Consume(th) ==
    /\ taken[th] # <<>>
    /\ taken' = [taken EXCEPT ![th] = Tail(@)]
    /\ UNCHANGED stack

Next ==
    \/ \E n \in Nodes : Push(n)
    \/ \E th \in Threads : ExtractAll(th) \/ Consume(th)

Spec == Init /\ [][Next]_vars

=============================================================================
