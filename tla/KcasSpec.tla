------------------------------ MODULE KcasSpec ------------------------------
(***************************************************************************)
(* What kcas and kcas_read promise (thread/detail/multiword_kcas.hpp): a   *)
(* kcas that returns true replaced all of its words at one moment between  *)
(* its call and its return, one that returns false met a moment when some  *)
(* word was not what it expected, and a read returns a value its word had. *)
(***************************************************************************)
EXTENDS Naturals, Sequences

CONSTANTS Threads, Words, Program, InitMem

VARIABLES
    mem,     \* mem[w]: the value of word w
    phase,   \* phase[t]: "idle", "open" or "won"
    window,  \* window[t]: the memories there have been since the call
    result   \* result[t]: what the operations of t returned

vars == <<mem, phase, window, result>>

Init ==
    /\ mem = InitMem
    /\ phase = [t \in Threads |-> "idle"]
    /\ window = [t \in Threads |-> {}]
    /\ result = [t \in Threads |-> <<>>]

Op(t) == Program[t][Len(result[t]) + 1]
IsRead(op) == op.read

Matches(op, m) == \A i \in DOMAIN op.args : m[op.args[i].a] = op.args[i].e

Updated(op, m) ==
    [w \in Words |->
        IF \E i \in DOMAIN op.args : op.args[i].a = w
        THEN op.args[CHOOSE i \in DOMAIN op.args : op.args[i].a = w].n
        ELSE m[w]]

Call(t) ==
    /\ phase[t] = "idle"
    /\ Len(result[t]) < Len(Program[t])
    /\ phase' = [phase EXCEPT ![t] = "open"]
    /\ window' = [window EXCEPT ![t] = {mem}]
    /\ UNCHANGED <<mem, result>>

Win(t) ==
    /\ phase[t] = "open"
    /\ ~IsRead(Op(t))
    /\ Matches(Op(t), mem)
    /\ mem' = Updated(Op(t), mem)
    /\ phase' = [phase EXCEPT ![t] = "won"]
    /\ window' = [u \in Threads |-> IF phase[u] = "idle" THEN {} ELSE window[u] \cup {mem'}]
    /\ UNCHANGED result

Allowed(t) ==
    IF IsRead(Op(t)) THEN {<<"val", m[Op(t).args[1].a]>> : m \in window[t]}
    ELSE IF phase[t] = "won" THEN {<<"kcas", "true">>}
    ELSE IF \E m \in window[t] : ~Matches(Op(t), m) THEN {<<"kcas", "false">>}
    ELSE {}

Return(t) ==
    /\ phase[t] # "idle"
    /\ \E r \in Allowed(t) : result' = [result EXCEPT ![t] = Append(@, r)]
    /\ phase' = [phase EXCEPT ![t] = "idle"]
    /\ window' = [window EXCEPT ![t] = {}]
    /\ UNCHANGED mem

Next == \E t \in Threads : Call(t) \/ Win(t) \/ Return(t)

Spec == Init /\ [][Next]_vars

=============================================================================
