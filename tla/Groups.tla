------------------------------- MODULE Groups -------------------------------
(***************************************************************************)
(* One group booking: its travellers and their shares (api/groups and      *)
(* api/groups/[id]/members), their payments at the desk and by card        *)
(* (payments/intent, payments/webhook), and its confirmation               *)
(* (api/groups/[id]/confirm).                                              *)
(*                                                                         *)
(* Travellers are numbered in the order they were added, which is the      *)
(* order shares are dealt in.  What a card was charged is outside the      *)
(* model: only that a payment was started for a traveller, and succeeds.   *)
(* No handler cancels, completes or reopens a group.                       *)
(*                                                                         *)
(* Every handler reads the group with its travellers, decides, and writes: *)
(* one action is what it does between two awaits, a transaction whole.     *)
(***************************************************************************)
EXTENDS Integers, FiniteSets, FiniteSetsExt

CONSTANTS
    Payable,       \* the total less the discount stored with the group
    MaxTravellers, \* travellers that are explored
    HandShare,     \* shares that are set by hand
    Handler,       \* handlers that can overlap
    ProcessCrashes \* whether a server process can die between two awaits

ASSUME GroupAssumption ==
    /\ Payable \in Nat \ {0}
    /\ MaxTravellers \in Nat \ {0}
    /\ HandShare \subseteq Int
    /\ ProcessCrashes \in BOOLEAN

VARIABLES
    groupStatus, \* GroupBooking.status
    party,      \* how many travellers there are
    share,      \* GroupMember.shareAmount
    paid,       \* travellers whose shareStatus is PAID
    started,    \* Stripe: travellers a card payment was started for
    redeemed,   \* how often confirming it counted the discount as redeemed
    request,    \* each handler: where it is and what it read
    disturbed,  \* history: the shares were last written by hand, or from an outdated read
    reversed,   \* history: a payment was taken back
    late        \* history: a traveller was added during or after a confirmation

shareVars == <<party, share, disturbed, late>>
payVars == <<paid, started, reversed>>
groupVars == <<groupStatus, shareVars, payVars, redeemed, request>>

-----------------------------------------------------------------------------
Traveller == 1 .. MaxTravellers
Travellers == 1 .. party

Idle == [pc |-> "idle", who |-> 0, unpaid |-> {}, left |-> 0, fresh |-> TRUE]
At(step, m) == [Idle EXCEPT !.pc = step, !.who = m]

GroupTypeOK ==
    /\ groupStatus \in {"COLLECTING", "CONFIRMED"}
    /\ party \in Traveller
    /\ share \in [Traveller -> Int]
    /\ paid \subseteq Travellers
    /\ started \subseteq Travellers
    /\ redeemed \in Nat
    /\ request \in [Handler -> [pc : {"idle", "add", "pay", "unpay", "start", "confirm"},
                                who : 0 .. MaxTravellers, unpaid : SUBSET Traveller,
                                left : Int, fresh : BOOLEAN]]
    /\ disturbed \in BOOLEAN /\ reversed \in BOOLEAN /\ late \in BOOLEAN

SumOver(S) == SumFunctionOnSet(share, S)

\* presentGroup.
Collected == SumOver(paid)

\* splitEvenly: equal parts, the remainder dealt one unit each to the earliest.
Part(total, S, m) ==
    LET n == Cardinality(S)
        place == Cardinality({k \in S : k <= m})
    IN total \div n + (IF place <= total % n THEN 1 ELSE 0)

\* Opened with what is payable split evenly, or with shares named by hand.
GroupInit ==
    /\ groupStatus = "COLLECTING"
    /\ party \in Traveller
    /\ \/ /\ share = [m \in Traveller |-> IF m <= party THEN Part(Payable, Travellers, m) ELSE 0]
          /\ disturbed = FALSE
       \/ /\ \E h \in HandShare : share = [m \in Traveller |-> IF m <= party THEN h ELSE 0]
          /\ disturbed = TRUE
    /\ paid = {}
    /\ started = {}
    /\ redeemed = 0
    /\ request = [r \in Handler |-> Idle]
    /\ reversed = FALSE
    /\ late = FALSE

-----------------------------------------------------------------------------
(* Travellers: POST members. *)

\* A confirmed group takes no more.
ReadToAdd(r) ==
    /\ request[r] = Idle
    /\ groupStatus = "COLLECTING"
    /\ request' = [request EXCEPT ![r] = [pc |-> "add", who |-> 0, unpaid |-> Travellers \ paid,
                                          left |-> Payable - Collected, fresh |-> TRUE]]
    /\ UNCHANGED <<groupStatus, shareVars, payVars, redeemed>>

\* The traveller is created, and whoever else read the group before has read a smaller one.
Join(r, newShare) ==
    /\ request[r].pc = "add"
    /\ party < MaxTravellers
    /\ party' = party + 1
    /\ share' = newShare
    /\ late' = (late \/ groupStatus = "CONFIRMED" \/ \E q \in Handler : request[q].pc = "confirm")
    /\ request' = [q \in Handler |->
           IF q = r THEN Idle
           ELSE IF request[q].pc = "add" THEN [request[q] EXCEPT !.fresh = FALSE] ELSE request[q]]
    /\ UNCHANGED <<groupStatus, payVars, redeemed>>

\* Faulty variant: what was paid is dealt out again with the rest.
AddRebalancingAll(r) ==
    LET dealt == request[r].unpaid \cup {party + 1} IN
    /\ Join(r, [m \in Traveller |-> IF m \in dealt THEN Part(Payable, dealt, m) ELSE share[m]])
    /\ disturbed' = ~ request[r].fresh

\* What was left to pay is dealt over those that had not paid, and the new one.
AddRebalancing(r) ==
    LET dealt == request[r].unpaid \cup {party + 1} IN
    /\ Join(r, [m \in Traveller |-> IF m \in dealt THEN Part(request[r].left, dealt, m) ELSE share[m]])
    /\ disturbed' = ~ request[r].fresh

\* A share set by hand, or not rebalanced, leaves the others alone.
AddByHand(r, h) ==
    /\ Join(r, [share EXCEPT ![party + 1] = h])
    /\ disturbed' = TRUE

-----------------------------------------------------------------------------
(* Payments: PATCH members, payments/intent and the webhook. *)

ReadToPay(r, m) ==
    /\ request[r] = Idle
    /\ m \in Travellers \ paid
    /\ request' = [request EXCEPT ![r] = At("pay", m)]
    /\ UNCHANGED <<groupStatus, shareVars, payVars, redeemed>>

ReadToUnpay(r, m) ==
    /\ request[r] = Idle
    /\ m \in Travellers
    /\ request' = [request EXCEPT ![r] = At("unpay", m)]
    /\ UNCHANGED <<groupStatus, shareVars, payVars, redeemed>>

Pay(r) ==
    /\ request[r].pc = "pay"
    /\ paid' = paid \cup {request[r].who}
    /\ request' = [request EXCEPT ![r] = Idle]
    /\ UNCHANGED <<groupStatus, shareVars, started, reversed, redeemed>>

\* Whatever the group's status, and whether or not the share was paid.
Unpay(r) ==
    /\ request[r].pc = "unpay"
    /\ paid' = paid \ {request[r].who}
    /\ reversed' = TRUE
    /\ request' = [request EXCEPT ![r] = Idle]
    /\ UNCHANGED <<groupStatus, shareVars, started, redeemed>>

ReadToStart(r, m) ==
    /\ request[r] = Idle
    /\ m \in Travellers \ paid
    /\ request' = [request EXCEPT ![r] = At("start", m)]
    /\ UNCHANGED <<groupStatus, shareVars, payVars, redeemed>>

StartCardPayment(r) ==
    /\ request[r].pc = "start"
    /\ started' = started \cup {request[r].who}
    /\ request' = [request EXCEPT ![r] = Idle]
    /\ UNCHANGED <<groupStatus, shareVars, paid, reversed, redeemed>>

\* A delivery of the card payment's success, the first or a repeat, where the share is PENDING.
CardPays(m) ==
    /\ m \in started \ paid
    /\ paid' = paid \cup {m}
    /\ UNCHANGED <<groupStatus, shareVars, started, reversed, redeemed, request>>

-----------------------------------------------------------------------------
(* POST confirm. *)

\* Faulty variant: a card payment that was started counts as collected.
ReadToConfirmEarly(r) ==
    /\ request[r] = Idle
    /\ groupStatus = "COLLECTING"
    /\ Payable - SumOver(paid \cup started) <= 0
    /\ request' = [request EXCEPT ![r] = At("confirm", 0)]
    /\ UNCHANGED <<groupStatus, shareVars, payVars, redeemed>>

\* Nothing is outstanding.
ReadToConfirm(r) ==
    /\ request[r] = Idle
    /\ groupStatus = "COLLECTING"
    /\ Payable - Collected <= 0
    /\ request' = [request EXCEPT ![r] = At("confirm", 0)]
    /\ UNCHANGED <<groupStatus, shareVars, payVars, redeemed>>

\* The transaction: the redemption is counted and the group confirmed, as they are now.
Confirm(r) ==
    /\ request[r].pc = "confirm"
    /\ redeemed' = redeemed + 1
    /\ groupStatus' = "CONFIRMED"
    /\ request' = [request EXCEPT ![r] = Idle]
    /\ UNCHANGED <<shareVars, payVars>>

\* The process of a handler dies between two awaits.
RequestDies(r) ==
    /\ ProcessCrashes
    /\ request[r] # Idle
    /\ request' = [request EXCEPT ![r] = Idle]
    /\ UNCHANGED <<groupStatus, shareVars, payVars, redeemed>>

-----------------------------------------------------------------------------
GroupNext ==
    \/ \E r \in Handler :
        \/ ReadToAdd(r) \/ AddRebalancing(r)
        \/ \E h \in HandShare : AddByHand(r, h)
        \/ \E m \in Traveller : ReadToPay(r, m) \/ ReadToUnpay(r, m) \/ ReadToStart(r, m)
        \/ Pay(r) \/ Unpay(r) \/ StartCardPayment(r)
        \/ ReadToConfirm(r) \/ Confirm(r) \/ RequestDies(r)
    \/ \E m \in Traveller : CardPays(m)

GroupSpec == GroupInit /\ [][GroupNext]_groupVars

-----------------------------------------------------------------------------
(* Properties. *)

\* SharesCoverTheTotal: the shares sum exactly to what is payable, whatever was paid or
\* taken back while they were being dealt, unless they were last written by hand or from a
\* read another addition had outdated.  (groups: "they always sum exactly to the amount
\* owed"; members: "recomputed so the group still sums to the amount owed")
SharesCoverTheTotal == ~ disturbed => SumOver(Travellers) = Payable

\* ConfirmedIsCollected: a confirmed group has collected what it owes, unless a payment was
\* taken back, a traveller was added while it was being confirmed or after, or a traveller
\* paid a share below nothing: where more was collected than the group owes, splitEvenly
\* deals the difference out as negative shares.  (confirm: "Confirm a group once every share
\* has arrived")
ConfirmedIsCollected ==
    groupStatus = "CONFIRMED" /\ ~ reversed /\ ~ late /\ (\A m \in paid : share[m] >= 0) =>
        Collected >= Payable
=============================================================================
