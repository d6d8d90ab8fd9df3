----------------------------- MODULE MCCharges -----------------------------
(* A small instance of Charges. *)
EXTENDS Charges, TLC

CONSTANTS r1, r2

Symmetry == Permutations(Request)
=============================================================================
