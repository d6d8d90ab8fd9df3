------------------------------ MODULE MCPayouts ------------------------------
(* Small instances of Payouts: which booking belongs to whom, and for how much. *)
EXTENDS Payouts, TLC

CONSTANTS b1, b2, b3, o1, o2, r1, r2, d1, d2

\* Two bookings of one host in one currency, so that a batch can grow, and one of another.
MCOrgOf == [b \in Booking |-> IF b = b3 THEN o2 ELSE o1]
MCCurrencyOf == [b \in Booking |-> "KES"]
MCFeeBasisPoints == [o \in Org |-> IF o = o1 THEN 1000 ELSE 0]

\* The fee of o1 divides evenly for no booking: the nets of b1, b2 and b3 are 10, 7 and 6.
MCGross == [b \in Booking |-> IF b = b1 THEN 11 ELSE IF b = b2 THEN 7 ELSE 6]

Symmetry == Permutations(Run) \cup Permutations(Refund)
=============================================================================
