----------------------------- MODULE MCExternal -----------------------------
(* A small instance of External: two listings in two countries. *)
EXTENDS External, TLC

CONSTANTS l1, l2, s1, s2, e1, e2

MCCountryOf == l1 :> "ES" @@ l2 :> "KE"

\* A licence for one country, to the end of the day; and withdrawn.
MCPatch == {[status |-> "LICENSED", displayRights |-> TRUE, reference |-> TRUE,
             territories |-> {"ES"}, expiry |-> 1],
            [displayRights |-> FALSE]}

\* The rights without the document, and the document taken away.
MCOverlappingPatch == {[status |-> "LICENSED", reference |-> TRUE],
                       [displayRights |-> TRUE],
                       [reference |-> FALSE]}

Symmetry == Permutations(Sync)
=============================================================================
