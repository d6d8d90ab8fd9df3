---------------------------- MODULE MCActivation ----------------------------
(* A small instance of Activation. *)
EXTENDS Activation, TLC

CONSTANTS r1, r2, r3

Symmetry == Permutations(Request)
=============================================================================
