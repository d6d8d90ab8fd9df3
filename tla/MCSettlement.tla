----------------------------- MODULE MCSettlement -----------------------------
(* Small instances of Settlement. *)
EXTENDS Settlement, TLC

CONSTANTS b1, o1, r1, d1, d2

MCOrgOf == [b \in Booking |-> o1]
MCCurrencyOf == [b \in Booking |-> "KES"]
MCGross == [b \in Booking |-> 11]
MCFeeBasisPoints == [o \in Org |-> 1000]

Symmetry == Permutations(Refund)
=============================================================================
