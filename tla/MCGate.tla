------------------------------- MODULE MCGate -------------------------------
(* A small instance of Gate: one pass good for two uses. *)
EXTENDS Gate, TLC

CONSTANTS i1, v1, v2, v3, c1, r1, r2

MCMaxUses == [i \in Invitation |-> 2]

Symmetry == Permutations(Request) \cup Permutations(Visit)
=============================================================================
