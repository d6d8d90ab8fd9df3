------------------------------- MODULE PayOnce -------------------------------
(***************************************************************************)
(* What the payout ledger promises a host and a guest, whatever it takes   *)
(* inside: the money of a booking leaves the platform at most once, only   *)
(* for a booking that earned it, and only when its hold has run out        *)
(* (src/lib/payouts/ledger.ts, src/server/payouts.ts).                     *)
(***************************************************************************)
CONSTANT Booking

VARIABLES
    elapsed,   \* bookings whose hold has run out
    earned,    \* bookings whose guest has paid
    transfers  \* what was sent, each transfer as the set of bookings it pays for

vars == <<elapsed, earned, transfers>>

Init == elapsed = {} /\ earned = {} /\ transfers = {}

HoldElapses(b) ==
    /\ elapsed' = elapsed \cup {b}
    /\ UNCHANGED <<earned, transfers>>

Earn(b) ==
    /\ earned' = earned \cup {b}
    /\ UNCHANGED <<elapsed, transfers>>

\* One transfer pays for some of what is due, and for nothing that was paid before.
Send(batch) ==
    /\ batch # {}
    /\ batch \subseteq (earned \cap elapsed) \ UNION transfers
    /\ transfers' = transfers \cup {batch}
    /\ UNCHANGED <<elapsed, earned>>

Next ==
    \/ \E b \in Booking : HoldElapses(b) \/ Earn(b)
    \/ \E batch \in SUBSET Booking : Send(batch)

Spec == Init /\ [][Next]_vars
=============================================================================
