---------------------------- MODULE MCDescriptor ----------------------------
(* Two helpers and two fields, both symmetric. *)
EXTENDS Descriptor, TLC

CONSTANTS h1, h2, fa, fb

Symmetry == Permutations({h1, h2}) \cup Permutations({fa, fb})

=============================================================================
