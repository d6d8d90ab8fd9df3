------------------------------ MODULE MCGroups ------------------------------
(* A small instance of Groups. *)
EXTENDS Groups, TLC

CONSTANTS r1, r2

Symmetry == Permutations(Handler)
=============================================================================
