------------------------------- MODULE MCGet -------------------------------
(* One pipeline with the event of each kind. *)
EXTENDS Get

CONSTANTS pa, pm

MCKind == [p \in {pa, pm} |-> IF p = pa THEN "atomic" ELSE "mutex"]

=============================================================================
