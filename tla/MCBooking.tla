------------------------------ MODULE MCBooking ------------------------------
(* Small instances of Booking. *)
EXTENDS Booking, TLC

CONSTANTS k1, k2, g1, g2, hotel, suite, house, c1, c2, h1, h2

Wants(k, g, u, f, t, n) ==
    [key |-> k, guest |-> g, unit |-> u, from |-> f, to |-> t, rooms |-> n]

MCPropertyOf == [l \in Listing |-> house]
MCListingOf == [t \in RoomType |-> hotel]
MCTotalRooms == [t \in RoomType |-> 2]

\* k2's stay begins when that of k1's own guest ends and takes every room; the other
\* guest's stay under k1 lies over both.
MCRequest ==
    { Wants(k1, g1, suite, 1, 3, 1), Wants(k2, g2, suite, 3, 5, 2),
      Wants(k1, g2, suite, 1, 5, 1) }

MCBlock == { [place |-> suite, from |-> 2, to |-> 3] }
MCPropertyBlock == { [place |-> house, from |-> 2, to |-> 3] }

Symmetry == Permutations(Caller) \cup Permutations(Desk)
=============================================================================
