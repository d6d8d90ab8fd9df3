------------------------------- MODULE Payouts -------------------------------
(***************************************************************************)
(* Moving money to hosts: src/server/payouts.ts over the ledger of         *)
(* src/lib/payouts/ledger.ts.                                              *)
(*                                                                         *)
(* The rows of the database are shared by every request; each handler's    *)
(* own variables live from one await to the next.  One action is what a    *)
(* handler does between two awaits that other handlers can get between: a  *)
(* query, a committed transaction, or a call to Stripe.                    *)
(*                                                                         *)
(* There is one HostEarning row per booking (unique on bookingId), so an   *)
(* earning is named by its booking.  A Payout row is named by its          *)
(* idempotency key, which is unique in the table and computed from the     *)
(* organisation, the currency and the sorted earning ids: it stands for    *)
(* the batch of earnings itself (the 64-bit fingerprint is taken to be     *)
(* free of collisions).                                                    *)
(***************************************************************************)
EXTENDS Integers, FiniteSets, FiniteSetsExt

CONSTANTS
    Booking,         \* bookings that can earn
    Org,             \* host organisations
    Currency,
    OrgOf,           \* [Booking -> Org]
    CurrencyOf,      \* [Booking -> Currency]
    Gross,           \* [Booking -> Nat], what the guest paid
    FeeBasisPoints,  \* [Org -> 0 .. 10000], what the platform keeps
    MinimumPayout,   \* PAYOUT_MINIMUM
    Run,             \* payout runs that can overlap: the cron, and staff by hand
    Refund,          \* refund handlers that can overlap
    StripeAnswer,    \* how a call to Stripe can end
    ProcessCrashes,  \* whether a server process can die between two awaits
    NoBooking        \* a refund handler with nothing to do

ASSUME ConstantsAssumption ==
    /\ OrgOf \in [Booking -> Org]
    /\ CurrencyOf \in [Booking -> Currency]
    /\ Gross \in [Booking -> Nat]
    /\ FeeBasisPoints \in [Org -> 0 .. 10000]
    /\ MinimumPayout \in Nat
    /\ StripeAnswer \subseteq {"accepted", "refused", "lost"}
    /\ ProcessCrashes \in BOOLEAN
    /\ NoBooking \notin Booking

VARIABLES
    account,    \* Organization: no Stripe account, one that cannot be paid, one that can
    elapsed,    \* bookings whose hold has run out
    earning,    \* HostEarning.status; NONE where there is no row
    payoutOf,   \* HostEarning.payoutId
    clawedBack, \* HostEarning.clawedBack
    payout,     \* Payout.status by batch; NONE where there is no row
    runPc,      \* where each runPayouts is
    plan,       \* the batches it has still to try
    current,    \* the batch it has claimed
    handler,    \* each reverseEarning: where it is and what it has read
    accepted,   \* Stripe: the batches for which a transfer exists
    reversals,  \* Stripe: how often a booking's share was taken back
    crossed     \* history: bookings with a clawback that met another refund, or was not written

ledgerVars == <<elapsed, earning, payoutOf, clawedBack, payout>>
runVars == <<runPc, plan, current>>
stripeVars == <<accepted, reversals, crossed>>
vars == <<account, elapsed, earning, payoutOf, clawedBack, payout,
          runPc, plan, current, handler, accepted, reversals, crossed>>

-----------------------------------------------------------------------------
Batch == (SUBSET Booking) \ {{}}
NoPayout == {}   \* the null of HostEarning.payoutId
EarningStatus == {"HELD", "PAYABLE", "PAID", "REVERSED"}
PayoutStatus == {"PENDING", "SENT", "FAILED"}
Owed == {"HELD", "PAYABLE"}
RunPc == {"idle", "accounts", "claim", "transfer", "sent", "refused"}
Handler == [pc : {"idle", "reverse", "write"},
            booking : Booking \cup {NoBooking},
            transfer : Batch \cup {NoPayout}]
Idle == [pc |-> "idle", booking |-> NoBooking, transfer |-> NoPayout]

\* Rounded down, so that the rounding always favours the host.
platformFee(b) == (Gross[b] * FeeBasisPoints[OrgOf[b]]) \div 10000
netOf(b) == Gross[b] - platformFee(b)
Amount(k) == MapThenSumSet(netOf, k)

\* One organisation, one currency: a transfer cannot carry two.
SameTransfer(a, b) == OrgOf[a] = OrgOf[b] /\ CurrencyOf[a] = CurrencyOf[b]

TypeOK ==
    /\ account \in [Org -> {"none", "restricted", "enabled"}]
    /\ elapsed \subseteq Booking
    /\ earning \in [Booking -> EarningStatus \cup {"NONE"}]
    /\ payoutOf \in [Booking -> Batch \cup {NoPayout}]
    /\ clawedBack \in [Booking -> BOOLEAN]
    /\ payout \in [Batch -> PayoutStatus \cup {"NONE"}]
    /\ runPc \in [Run -> RunPc]
    /\ plan \in [Run -> SUBSET Batch]
    /\ current \in [Run -> Batch \cup {NoPayout}]
    /\ handler \in [Refund -> Handler]
    /\ accepted \subseteq Batch
    /\ reversals \in [Booking -> Nat]
    /\ crossed \subseteq Booking

Init ==
    /\ account = [o \in Org |-> "none"]
    /\ elapsed = {}
    /\ earning = [b \in Booking |-> "NONE"]
    /\ payoutOf = [b \in Booking |-> NoPayout]
    /\ clawedBack = [b \in Booking |-> FALSE]
    /\ payout = [k \in Batch |-> "NONE"]
    /\ runPc = [r \in Run |-> "idle"]
    /\ plan = [r \in Run |-> {}]
    /\ current = [r \in Run |-> NoPayout]
    /\ handler = [d \in Refund |-> Idle]
    /\ accepted = {}
    /\ reversals = [b \in Booking |-> 0]
    /\ crossed = {}

-----------------------------------------------------------------------------
(* The world around the ledger. *)

\* The owner connects an account; Stripe's account.* webhook turns it on and off.
AccountUpdated(o, s) ==
    /\ account[o] = "none" => s = "restricted"
    /\ account[o] # s
    /\ s # "none"
    /\ account' = [account EXCEPT ![o] = s]
    /\ UNCHANGED <<ledgerVars, runVars, handler, stripeVars>>

\* now >= checkOut + holdDays, the boundary included.
HoldElapses(b) ==
    /\ b \notin elapsed
    /\ elapsed' = elapsed \cup {b}
    /\ UNCHANGED <<account, earning, payoutOf, clawedBack, payout,
                   runVars, handler, stripeVars>>

-----------------------------------------------------------------------------
(* recordEarning.  Its check and its insert are two awaits, but the unique *)
(* bookingId makes the insert a no-op where a row exists: one step.        *)

RecordEarning(b) ==
    /\ earning[b] = "NONE"
    /\ earning' = [earning EXCEPT ![b] = "HELD"]
    /\ UNCHANGED <<account, elapsed, payoutOf, clawedBack, payout,
                   runVars, handler, stripeVars>>

-----------------------------------------------------------------------------
(* reverseEarning: read, perhaps call Stripe, write. *)

HasTransfer(b) == payoutOf[b] # NoPayout /\ payout[payoutOf[b]] = "SENT"

Handles(d, b) == handler[d].pc # "idle" /\ handler[d].booking = b

\* Another refund of b is in progress, and one of the two takes money back from the host.
Meets(d, b) ==
    \E e \in Refund \ {d} :
        Handles(e, b) /\ (handler[e].transfer # NoPayout \/ handler'[d].transfer # NoPayout)

\* Faulty variant: a repeat of the event does not stop at an earning already REVERSED.
ReadForReversalAgain(d, b) ==
    /\ handler[d].pc = "idle"
    /\ earning[b] \in {"PAID", "REVERSED"} /\ HasTransfer(b)
    /\ handler' = [handler EXCEPT ![d] =
          [pc |-> "reverse", booking |-> b, transfer |-> payoutOf[b]]]
    /\ crossed' = IF Meets(d, b) THEN crossed \cup {b} ELSE crossed
    /\ UNCHANGED <<account, ledgerVars, runVars, accepted, reversals>>

\* A PAID earning whose payout carries no transfer id yet is refused: the handler
\* returns its error and changes nothing, so no step is taken for it.
ReadForReversal(d, b) ==
    /\ handler[d].pc = "idle"
    /\ \/ /\ earning[b] \in Owed
          /\ handler' = [handler EXCEPT ![d] =
                [pc |-> "write", booking |-> b, transfer |-> NoPayout]]
       \/ /\ earning[b] = "PAID"
          /\ HasTransfer(b)
          /\ handler' = [handler EXCEPT ![d] =
                [pc |-> "reverse", booking |-> b, transfer |-> payoutOf[b]]]
    /\ crossed' = IF Meets(d, b) THEN crossed \cup {b} ELSE crossed
    /\ UNCHANGED <<account, ledgerVars, runVars, accepted, reversals>>

\* Stripe does not reverse more of a transfer than was sent.
Reversible(k, b) ==
    /\ k \in accepted
    /\ MapThenSumSet(LAMBDA c : reversals[c] * netOf(c), k) + netOf(b) <= Amount(k)

\* "lost" is a reversal Stripe made and whose answer never arrived: like a refusal, it
\* is returned as an error and left for review.
CallReverseTransfer(d) == \E answer \in StripeAnswer \cup {"refused"} :
    LET b == handler[d].booking IN
    /\ handler[d].pc = "reverse"
    /\ answer # "refused" => Reversible(handler[d].transfer, b)
    /\ reversals' = IF answer = "refused" THEN reversals
                                         ELSE [reversals EXCEPT ![b] = @ + 1]
    /\ handler' = [handler EXCEPT ![d] =
          IF answer = "accepted" THEN [handler[d] EXCEPT !.pc = "write"] ELSE Idle]
    /\ crossed' = IF answer = "lost" THEN crossed \cup {b} ELSE crossed
    /\ UNCHANGED <<account, ledgerVars, runVars, accepted>>

\* An update by id, whatever the row has become since it was read.
WriteReversed(d) ==
    LET b == handler[d].booking IN
    /\ handler[d].pc = "write"
    /\ earning' = [earning EXCEPT ![b] = "REVERSED"]
    /\ clawedBack' = [clawedBack EXCEPT ![b] = handler[d].transfer # NoPayout]
    /\ handler' = [handler EXCEPT ![d] = Idle]
    /\ UNCHANGED <<account, elapsed, payoutOf, payout, runVars, stripeVars>>

-----------------------------------------------------------------------------
(* runPayouts. *)

\* Faulty variant: the hold is not looked at.
DueIgnoringHold == {b \in Booking : earning[b] \in Owed}

Due == {b \in elapsed : earning[b] \in Owed}

\* Faulty variant: a group with nothing ready is not skipped.
DueBatchesOrNone == {{b \in Due : SameTransfer(a, b)} : a \in Booking}

DueBatches == {{b \in Due : SameTransfer(a, b)} : a \in Due}

Sendable(k) ==
    /\ \A b \in k : account[OrgOf[b]] = "enabled"
    /\ Amount(k) >= MinimumPayout

ReadEarnings(r) ==
    /\ runPc[r] = "idle"
    /\ plan' = [plan EXCEPT ![r] = DueBatches]
    /\ runPc' = [runPc EXCEPT ![r] = "accounts"]
    /\ UNCHANGED <<account, ledgerVars, current, handler, stripeVars>>

\* The accounts are a second query; what cannot be sent is withheld.
ReadAccounts(r) ==
    /\ runPc[r] = "accounts"
    /\ plan' = [plan EXCEPT ![r] = {k \in plan[r] : Sendable(k)}]
    /\ runPc' = [runPc EXCEPT ![r] = "claim"]
    /\ UNCHANGED <<account, ledgerVars, current, handler, stripeVars>>

\* Faulty variant: the key alone decides, and the earnings are updated by id.
ClaimableByKeyAlone(k) == payout[k] = "NONE"

\* What the claiming transaction needs in order to commit: no row with this key,
\* and every earning of the batch still owed.
Claimable(k) ==
    /\ payout[k] = "NONE"
    /\ \A b \in k : earning[b] \in Owed

\* Faulty variant: the number of claimed rows is not compared with the batch.
ClaimWithoutCount(r) == \E k \in plan[r] :
    LET claimed == {b \in k : earning[b] \in Owed} IN
    /\ runPc[r] = "claim"
    /\ payout[k] = "NONE"
    /\ payout' = [payout EXCEPT ![k] = "PENDING"]
    /\ earning' = [b \in Booking |-> IF b \in claimed THEN "PAID" ELSE earning[b]]
    /\ payoutOf' = [b \in Booking |-> IF b \in claimed THEN k ELSE payoutOf[b]]
    /\ current' = [current EXCEPT ![r] = k]
    /\ plan' = [plan EXCEPT ![r] = @ \ {k}]
    /\ runPc' = [runPc EXCEPT ![r] = "transfer"]
    /\ UNCHANGED <<account, elapsed, clawedBack, handler, stripeVars>>

Claim(r) == \E k \in plan[r] :
    /\ runPc[r] = "claim"
    /\ Claimable(k)
    /\ payout' = [payout EXCEPT ![k] = "PENDING"]
    /\ earning' = [b \in Booking |-> IF b \in k THEN "PAID" ELSE earning[b]]
    /\ payoutOf' = [b \in Booking |-> IF b \in k THEN k ELSE payoutOf[b]]
    /\ current' = [current EXCEPT ![r] = k]
    /\ plan' = [plan EXCEPT ![r] = @ \ {k}]
    /\ runPc' = [runPc EXCEPT ![r] = "transfer"]
    /\ UNCHANGED <<account, elapsed, clawedBack, handler, stripeVars>>

ClaimFails(r) == \E k \in plan[r] :
    /\ runPc[r] = "claim"
    /\ ~ Claimable(k)
    /\ plan' = [plan EXCEPT ![r] = @ \ {k}]
    /\ UNCHANGED <<account, ledgerVars, runPc, current, handler, stripeVars>>

\* createTransfer answers with a transfer id or with none; "lost" is a transfer that
\* Stripe made and whose answer never arrived, which the code takes for a refusal.
Transfer(r) == \E answer \in StripeAnswer :
    /\ runPc[r] = "transfer"
    /\ accepted' = IF answer = "refused" THEN accepted ELSE accepted \cup {current[r]}
    /\ runPc' = [runPc EXCEPT ![r] = IF answer = "accepted" THEN "sent" ELSE "refused"]
    /\ UNCHANGED <<account, ledgerVars, plan, current, handler, reversals, crossed>>

RecordSent(r) ==
    /\ runPc[r] = "sent"
    /\ payout' = [payout EXCEPT ![current[r]] = "SENT"]
    /\ runPc' = [runPc EXCEPT ![r] = "claim"]
    /\ current' = [current EXCEPT ![r] = NoPayout]
    /\ UNCHANGED <<account, elapsed, earning, payoutOf, clawedBack, plan,
                   handler, stripeVars>>

\* Faulty variants: the failure gives back every paid earning; or none at all.
RecordFailedGivesBackAll(r) ==
    /\ runPc[r] = "refused"
    /\ earning' = [b \in Booking |-> IF earning[b] = "PAID" THEN "PAYABLE" ELSE earning[b]]
    /\ payoutOf' = [b \in Booking |-> NoPayout]
    /\ payout' = [payout EXCEPT ![current[r]] = "FAILED"]
    /\ runPc' = [runPc EXCEPT ![r] = "claim"]
    /\ current' = [current EXCEPT ![r] = NoPayout]
    /\ UNCHANGED <<account, elapsed, clawedBack, plan, handler, stripeVars>>

RecordFailedKeepsClaims(r) ==
    /\ runPc[r] = "refused"
    /\ payout' = [payout EXCEPT ![current[r]] = "FAILED"]
    /\ runPc' = [runPc EXCEPT ![r] = "claim"]
    /\ current' = [current EXCEPT ![r] = NoPayout]
    /\ UNCHANGED <<account, elapsed, earning, payoutOf, clawedBack, plan,
                   handler, stripeVars>>

RecordFailed(r) ==
    LET k == current[r] IN
    /\ runPc[r] = "refused"
    /\ earning' = [b \in Booking |-> IF payoutOf[b] = k THEN "PAYABLE" ELSE earning[b]]
    /\ payoutOf' = [b \in Booking |-> IF payoutOf[b] = k THEN NoPayout ELSE payoutOf[b]]
    /\ payout' = [payout EXCEPT ![k] = "FAILED"]
    /\ runPc' = [runPc EXCEPT ![r] = "claim"]
    /\ current' = [current EXCEPT ![r] = NoPayout]
    /\ UNCHANGED <<account, elapsed, clawedBack, plan, handler, stripeVars>>

EndRun(r) ==
    /\ runPc[r] = "claim"
    /\ plan[r] = {}
    /\ runPc' = [runPc EXCEPT ![r] = "idle"]
    /\ UNCHANGED <<account, ledgerVars, plan, current, handler, stripeVars>>

-----------------------------------------------------------------------------
(* The process dies: what it held in memory is gone, the rows stay. *)

RunCrashes(r) ==
    /\ ProcessCrashes
    /\ runPc[r] # "idle"
    /\ runPc' = [runPc EXCEPT ![r] = "idle"]
    /\ plan' = [plan EXCEPT ![r] = {}]
    /\ current' = [current EXCEPT ![r] = NoPayout]
    /\ UNCHANGED <<account, ledgerVars, handler, stripeVars>>

\* What the handler took back from the host will not be written.
ForgetsReversal(d) == handler[d].pc = "write" /\ handler[d].transfer # NoPayout
Forgotten(d) == IF ForgetsReversal(d) THEN crossed \cup {handler[d].booking} ELSE crossed

HandlerCrashes(d) ==
    /\ ProcessCrashes
    /\ handler[d].pc # "idle"
    /\ handler' = [handler EXCEPT ![d] = Idle]
    /\ crossed' = Forgotten(d)
    /\ UNCHANGED <<account, ledgerVars, runVars, accepted, reversals>>

-----------------------------------------------------------------------------
RunStep(r) ==
    \/ ReadEarnings(r) \/ ReadAccounts(r)
    \/ Claim(r) \/ ClaimFails(r)
    \/ Transfer(r) \/ RecordSent(r) \/ RecordFailed(r)
    \/ EndRun(r)

RefundStep(d) ==
    \/ \E b \in Booking : ReadForReversal(d, b)
    \/ CallReverseTransfer(d) \/ WriteReversed(d)

Next ==
    \/ \E o \in Org, s \in {"restricted", "enabled"} : AccountUpdated(o, s)
    \/ \E b \in Booking : HoldElapses(b) \/ RecordEarning(b)
    \/ \E r \in Run : RunStep(r) \/ RunCrashes(r)
    \/ \E d \in Refund : RefundStep(d) \/ HandlerCrashes(d)

Spec == Init /\ [][Next]_vars

\* The cron calls the endpoint every day, a call that began goes on to its end, and
\* time passes.  Nobody makes a guest ask for a refund.
FairSpec ==
    /\ Spec
    /\ \A r \in Run : WF_vars(RunStep(r))
    /\ \A b \in Booking : WF_vars(HoldElapses(b))
-----------------------------------------------------------------------------
(* Properties. *)

Live == {k \in Batch : payout[k] \in {"PENDING", "SENT"}}

\* A booking's earning is never in two payouts that are pending or sent, however many
\* runs overlap and wherever they crash: the row of a live payout owns its earnings
\* (the claim transaction of runPayouts: unique key, then the count of claimed rows).
ClaimedOnce ==
    \A k \in Live : \A b \in k : payoutOf[b] = k

\* Stripe never holds two transfers that pay for one booking: "Everything here is about
\* doing it exactly once" (payouts.ts).
PaidOnce ==
    \A j, k \in accepted : j # k => j \cap k = {}

\* What Stripe has transferred is nowhere on the list of money still owed, whatever
\* refunds and failed runs wrote meanwhile; and a payout is marked SENT only for a
\* transfer that exists.
SentIsSettled ==
    /\ \A k \in accepted : \A b \in k : earning[b] \notin Owed
    /\ \A k \in Batch : payout[k] = "SENT" => k \in accepted

\* No payout exists that planPayouts would not have allowed: one organisation and one
\* currency, every hold elapsed, every earning recorded, the minimum reached.
PayoutsWereDue ==
    \A k \in Batch : payout[k] # "NONE" =>
        /\ \A a, b \in k : SameTransfer(a, b)
        /\ k \subseteq elapsed
        /\ \A b \in k : earning[b] # "NONE"
        /\ Amount(k) >= MinimumPayout

\* Nothing is taken back from a host who was not sent it, and a row says "clawed back"
\* only where Stripe reversed something (reverseEarning).  Unless the clawback met another
\* refund of the booking, or was cut short before it was written, it is made once, and
\* when no handler is busy with the booking the row tells whether it was made.
ClawbacksAreExact ==
    \A b \in Booking :
        /\ reversals[b] > 0 => \E k \in accepted : b \in k
        /\ clawedBack[b] => reversals[b] > 0
        /\ b \notin crossed =>
              /\ reversals[b] <= 1
              /\ (\A d \in Refund : ~ Handles(d, b)) =>
                    /\ clawedBack[b] <=> reversals[b] = 1
                    /\ reversals[b] = 1 => earning[b] = "REVERSED"

\* The ledger keeps the promise of PayOnce.
Earned == {b \in Booking : earning[b] # "NONE"}
Promise == INSTANCE PayOnce WITH earned <- Earned, transfers <- accepted
PromiseKept == Promise!Spec

\* A payout that was sent or failed is never touched again, and one that failed gives
\* back every earning it had claimed in the same step.
PayoutsEndOnce ==
    [][ \A k \in Batch :
          /\ payout[k] \in {"SENT", "FAILED"} => payout'[k] = payout[k]
          /\ payout[k] = "PENDING" /\ payout'[k] = "FAILED" =>
                \A b \in k : payoutOf'[b] # k /\ earning'[b] \in Owed
      ]_vars

-----------------------------------------------------------------------------
(* Promises the code does not keep: payouts_retry.cfg and payouts_twice.cfg *)
(* refute them.                                                             *)

\* RefusedIsRetried: "Give the money back to the queue so the next run can try again": an earning that a
\* refused transfer gave back is claimed again, while its host stays payable.
RefusedIsRetried ==
    (\A o \in Org : <>[](account[o] = "enabled")) =>
        \A b \in Booking : earning[b] = "PAYABLE" ~> earning[b] \in {"PAID", "REVERSED"}

\* ClawedBackOnce: "Everything here is about doing it exactly once": a host's share of a
\* booking is taken back at most once.
ClawedBackOnce == \A b \in Booking : reversals[b] <= 1
=============================================================================
