------------------------------ MODULE Settlement ------------------------------
(***************************************************************************)
(* From a guest's payment to a host's money: Stripe's webhook              *)
(* (src/app/api/payments/webhook/route.ts), the booking it confirms and    *)
(* the ledger of Payouts it feeds.                                         *)
(*                                                                         *)
(* Stripe delivers an event at least once, again until it is answered, in  *)
(* any order, and possibly twice at the same time.  Refunds are made at    *)
(* Stripe: nothing in the code calls refundPaymentIntent.                  *)
(*                                                                         *)
(* The handlers of Payouts are here the deliveries being handled.          *)
(***************************************************************************)
EXTENDS Payouts

CONSTANT MaxCrashes   \* how often, in all, a delivery or a run is cut short or an insert fails

ASSUME CrashAssumption == MaxCrashes \in Nat

VARIABLES
    charge,     \* Stripe: the guest's payment
    routed,     \* Stripe: the bookings whose payment settles in the host's own account
    booking,    \* Booking.status, as far as money can change it
    explained,  \* the bookings with a "Payment received." event
    review,     \* the bookings with a "Refund needs review" event
    hook,       \* each delivery: where its handler is, and for which booking
    answered,   \* the events that were answered with success
    swallowed,  \* history: the bookings without an earning since its insert failed unseen
    crashes

payments == <<charge, routed>>
hookVars == <<payments, booking, explained, review, hook, answered, swallowed, crashes>>
allVars == <<vars, hookVars>>

Paid == {"succeeded", "refunded"}
Event == Paid \X Booking
HookPc == {"idle", "confirm", "explain", "earn", "reverse", "review", "done"}
Hook == [pc : HookPc, kind : {"succeeded", "refunded"}, booking : Booking \cup {NoBooking}]
IdleHook == [pc |-> "idle", kind |-> "succeeded", booking |-> NoBooking]

SettlementTypeOK ==
    /\ TypeOK
    /\ charge \in [Booking -> {"none", "intent", "succeeded", "refunded"}]
    /\ routed \subseteq Booking
    /\ booking \in [Booking -> {"PENDING", "CONFIRMED", "CANCELLED"}]
    /\ explained \subseteq Booking
    /\ review \subseteq Booking
    /\ hook \in [Refund -> Hook]
    /\ answered \subseteq Event
    /\ swallowed \subseteq Booking
    /\ crashes \in 0 .. MaxCrashes

SettlementInit ==
    /\ Init
    /\ charge = [b \in Booking |-> "none"]
    /\ routed = {}
    /\ booking = [b \in Booking |-> "PENDING"]
    /\ explained = {}
    /\ review = {}
    /\ hook = [d \in Refund |-> IdleHook]
    /\ answered = {}
    /\ swallowed = {}
    /\ crashes = 0

-----------------------------------------------------------------------------
(* The guest, and Stripe. *)

\* The guest asks to pay: one intent per booking, for it carries the booking's own
\* idempotency key.  It is a destination charge where the host's account is enabled, and a
\* charge to the platform elsewhere.
StartPayment(b) ==
    /\ charge[b] = "none"
    /\ booking[b] = "PENDING"
    /\ charge' = [charge EXCEPT ![b] = "intent"]
    /\ routed' = IF account[OrgOf[b]] = "enabled" THEN routed \cup {b} ELSE routed
    /\ UNCHANGED <<vars, booking, explained, review, hook, answered, swallowed, crashes>>

\* It may succeed long after, whatever the booking has become.
GuestPays(b) ==
    /\ charge[b] = "intent"
    /\ charge' = [charge EXCEPT ![b] = "succeeded"]
    /\ UNCHANGED <<vars, routed, booking, explained, review, hook, answered, swallowed, crashes>>

RefundCharge(b) ==
    /\ charge[b] = "succeeded"
    /\ charge' = [charge EXCEPT ![b] = "refunded"]
    /\ UNCHANGED <<vars, routed, booking, explained, review, hook, answered, swallowed, crashes>>

\* What the guest and the host make of the booking, a stale write over a cancellation
\* included; Booking models it step by step.  CONFIRMED stands for the stay that follows.
MoveBooking(b, s) ==
    /\ booking[b] # s
    /\ booking' = [booking EXCEPT ![b] = s]
    /\ UNCHANGED <<vars, payments, explained, review, hook, answered, swallowed, crashes>>

Moves(d, pc) == hook' = [hook EXCEPT ![d].pc = pc]

\* Faulty variant: every event about a charge is taken for a refund of it.
DeliverAsRefund(d, kind, b) ==
    /\ hook[d].pc = "idle"
    /\ charge[b] \in Paid
    /\ hook' = [hook EXCEPT ![d] =
          [pc |-> IF kind = "succeeded" THEN "confirm" ELSE "reverse",
           kind |-> kind, booking |-> b]]
    /\ UNCHANGED <<vars, payments, booking, explained, review, answered, swallowed, crashes>>

\* The event happened, so Stripe may deliver it, whether or not it was answered before.
\* The record of the intent is upserted here: nothing below depends on what it says.
Deliver(d, kind, b) ==
    /\ hook[d].pc = "idle"
    /\ charge[b] = "refunded" \/ charge[b] = kind
    /\ hook' = [hook EXCEPT ![d] =
          [pc |-> IF kind = "succeeded" THEN "confirm" ELSE "reverse",
           kind |-> kind, booking |-> b]]
    /\ UNCHANGED <<vars, payments, booking, explained, review, answered, swallowed, crashes>>

-----------------------------------------------------------------------------
(* status SUCCEEDED *)

\* Faulty variant: the earning is recorded inside the count guard.
ConfirmAndEarnOnce(d) ==
    LET b == hook[d].booking IN
    /\ hook[d].pc = "confirm"
    /\ booking' = IF booking[b] = "PENDING" THEN [booking EXCEPT ![b] = "CONFIRMED"]
                                            ELSE booking
    /\ Moves(d, IF booking[b] = "PENDING" THEN "explain" ELSE "done")
    /\ UNCHANGED <<vars, payments, explained, review, answered, swallowed, crashes>>

\* One conditional update; the event row is written only by the delivery that changed it.
Confirm(d) ==
    LET b == hook[d].booking IN
    /\ hook[d].pc = "confirm"
    /\ booking' = IF booking[b] = "PENDING" THEN [booking EXCEPT ![b] = "CONFIRMED"]
                                            ELSE booking
    /\ Moves(d, IF booking[b] = "PENDING" THEN "explain" ELSE "earn")
    /\ UNCHANGED <<vars, payments, explained, review, answered, swallowed, crashes>>

Explain(d) ==
    /\ hook[d].pc = "explain"
    /\ explained' = explained \cup {hook[d].booking}
    /\ Moves(d, "earn")
    /\ UNCHANGED <<vars, payments, booking, review, answered, swallowed, crashes>>

\* Faulty variant: an earning that exists is written again.
EarnAgain(d) ==
    LET b == hook[d].booking IN
    /\ hook[d].pc = "earn"
    /\ earning' = [earning EXCEPT ![b] = "HELD"]
    /\ Moves(d, "done")
    /\ UNCHANGED <<account, elapsed, payoutOf, clawedBack, payout, runVars, handler, stripeVars,
                   payments, booking, explained, review, answered, swallowed, crashes>>

\* recordEarning, whether or not this delivery was the one that confirmed.
Earn(d) ==
    LET b == hook[d].booking IN
    /\ hook[d].pc = "earn"
    /\ RecordEarning(b) \/ (earning[b] # "NONE" /\ UNCHANGED vars)
    /\ swallowed' = swallowed \ {b}
    /\ Moves(d, "done")
    /\ UNCHANGED <<payments, booking, explained, review, answered, crashes>>

\* The insert fails for any other reason than a row that exists: "catch" takes it for the
\* duplicate, and the delivery goes on to its answer.
EarnFails(d) ==
    /\ hook[d].pc = "earn"
    /\ earning[hook[d].booking] = "NONE"
    /\ crashes < MaxCrashes
    /\ crashes' = crashes + 1
    /\ swallowed' = swallowed \cup {hook[d].booking}
    /\ Moves(d, "done")
    /\ UNCHANGED <<vars, payments, booking, explained, review, answered>>

-----------------------------------------------------------------------------
(* status REFUNDED: reverseEarning, whose steps are those of Payouts *)

\* Nothing to reverse, or reversed already.
NothingToReverse(d) ==
    /\ hook[d].pc = "reverse" /\ handler[d].pc = "idle"
    /\ earning[hook[d].booking] \in {"NONE", "REVERSED"}
    /\ Moves(d, "done")
    /\ UNCHANGED <<vars, payments, booking, explained, review, answered, swallowed, crashes>>

\* Marked paid, and no transfer to reverse yet.
PaidWithoutTransfer(d) ==
    /\ hook[d].pc = "reverse" /\ handler[d].pc = "idle"
    /\ earning[hook[d].booking] = "PAID" /\ ~ HasTransfer(hook[d].booking)
    /\ Moves(d, "review")
    /\ UNCHANGED <<vars, payments, booking, explained, review, answered, swallowed, crashes>>

StartReversal(d) ==
    /\ hook[d].pc = "reverse"
    /\ ReadForReversal(d, hook[d].booking)
    /\ UNCHANGED hookVars

CallStripe(d) ==
    /\ CallReverseTransfer(d)
    /\ IF handler'[d].pc = "idle" THEN Moves(d, "review") ELSE UNCHANGED hook
    /\ UNCHANGED <<payments, booking, explained, review, answered, swallowed, crashes>>

FinishReversal(d) ==
    /\ WriteReversed(d)
    /\ Moves(d, "done")
    /\ UNCHANGED <<payments, booking, explained, review, answered, swallowed, crashes>>

AskForReview(d) ==
    /\ hook[d].pc = "review"
    /\ review' = review \cup {hook[d].booking}
    /\ Moves(d, "done")
    /\ UNCHANGED <<vars, payments, booking, explained, answered, swallowed, crashes>>

-----------------------------------------------------------------------------
\* Faulty variant: the delivery is answered as soon as it has been read.
AnswerEarly(d) ==
    /\ hook[d].pc # "idle"
    /\ answered' = answered \cup {<<hook[d].kind, hook[d].booking>>}
    /\ hook' = IF hook[d].pc = "done" THEN [hook EXCEPT ![d] = IdleHook] ELSE hook
    /\ UNCHANGED <<vars, payments, booking, explained, review, swallowed, crashes>>

\* { received: true }
AnswerStripe(d) ==
    /\ hook[d].pc = "done"
    /\ answered' = answered \cup {<<hook[d].kind, hook[d].booking>>}
    /\ hook' = [hook EXCEPT ![d] = IdleHook]
    /\ UNCHANGED <<vars, payments, booking, explained, review, swallowed, crashes>>

\* The process dies, or a query throws: the delivery is answered with an error or not at all.
DeliveryFails(d) ==
    /\ hook[d].pc # "idle"
    /\ crashes < MaxCrashes
    /\ crashes' = crashes + 1
    /\ hook' = [hook EXCEPT ![d] = IdleHook]
    /\ handler' = [handler EXCEPT ![d] = Idle]
    /\ crossed' = Forgotten(d)
    /\ UNCHANGED <<account, ledgerVars, runVars, accepted, reversals,
                   payments, booking, explained, review, answered, swallowed>>

HookStep(d) ==
    \/ Confirm(d) \/ Explain(d) \/ Earn(d)
    \/ NothingToReverse(d) \/ PaidWithoutTransfer(d)
    \/ StartReversal(d) \/ CallStripe(d) \/ FinishReversal(d) \/ AskForReview(d)
    \/ AnswerStripe(d)

LedgerStep ==
    /\ \/ \E o \in Org, s \in {"restricted", "enabled"} : AccountUpdated(o, s)
       \/ \E b \in Booking : HoldElapses(b)
       \/ \E r \in Run : RunStep(r)
    /\ UNCHANGED hookVars

\* The process dies in the middle of a payout run.
RunDies(r) ==
    /\ crashes < MaxCrashes
    /\ crashes' = crashes + 1
    /\ RunCrashes(r)
    /\ UNCHANGED <<payments, booking, explained, review, hook, answered, swallowed>>

SettlementNext ==
    \/ \E b \in Booking : StartPayment(b) \/ GuestPays(b) \/ RefundCharge(b)
    \/ \E b \in Booking, s \in {"CONFIRMED", "CANCELLED"} : MoveBooking(b, s)
    \/ \E d \in Refund, e \in Event : Deliver(d, e[1], e[2])
    \/ \E d \in Refund : HookStep(d) \/ EarnFails(d) \/ DeliveryFails(d)
    \/ \E r \in Run : RunDies(r)
    \/ LedgerStep

SettlementSpec == SettlementInit /\ [][SettlementNext]_allVars

\* Stripe repeats an event until it is answered, a handler that runs goes on, holds run
\* out, and the cron calls the payout run.
Redeliver(e) == e \notin answered /\ \E d \in Refund : Deliver(d, e[1], e[2])
FairSettlement ==
    /\ SettlementSpec
    /\ \A e \in Event : SF_allVars(Redeliver(e))
    /\ \A d \in Refund : WF_allVars(HookStep(d))
    /\ \A b \in Booking : WF_allVars(HoldElapses(b) /\ UNCHANGED hookVars)
    /\ \A r \in Run : WF_allVars(RunStep(r) /\ UNCHANGED hookVars)
-----------------------------------------------------------------------------
(* Properties. *)

\* A success that Stripe will not repeat has been settled: the booking is no longer
\* pending, and the host's earning exists unless its own insert failed unseen, however the
\* delivery that confirmed the booking ended (the webhook's comment: "outside the
\* confirmed.count guard on purpose").
AnsweredIsSettled ==
    \A b \in Booking : <<"succeeded", b>> \in answered =>
        /\ booking[b] # "PENDING"
        /\ earning[b] # "NONE" \/ b \in swallowed

\* "A booking nobody paid for owes nobody anything": no earning, no reversal and no
\* transfer without the guest's payment, and no reversal without a refund.
MoneyFollowsTheGuest ==
    \A b \in Booking :
        /\ earning[b] # "NONE" \/ b \in UNION accepted => charge[b] \in Paid
        /\ earning[b] = "REVERSED" \/ reversals[b] > 0 => charge[b] = "refunded"

\* The ledger sees nothing of the webhook but the steps Payouts allows it, so what holds
\* of every behaviour of Payouts holds here.
LedgerIsPayouts == Spec

\* Claimed by a run that died: "the payout row is left visible for a human to reconcile".
LeftToReconcile(b) ==
    /\ payoutOf[b] # NoPayout /\ payout[payoutOf[b]] = "PENDING"
    /\ \A r \in Run : current[r] # payoutOf[b]

\* Every payment reaches the host, goes back to the guest, or is left to a person who can
\* see it, if the host's account stays payable and Stripe makes the transfers it is asked
\* for, whatever deliveries are lost, doubled or cut short, and wherever a run dies.  The
\* one way out is an insert that failed unseen: EarningIsRecorded says what it costs.
PaymentReachesTheHost ==
    (\A o \in Org : <>[](account[o] = "enabled")) =>
        \A b \in Booking : charge[b] \in Paid ~>
            \/ b \in UNION accepted \/ charge[b] = "refunded" \/ LeftToReconcile(b)
            \/ b \in swallowed

-----------------------------------------------------------------------------
(* Promises the code does not keep: settlement_order.cfg, settlement_routed.cfg and *)
(* settlement_swallowed.cfg refute them.                                            *)

\* "Webhooks arrive more than once, out of order ... All three are handled": once both
\* events are answered and nothing is in progress, a refunded booking's money is neither
\* owed to the host nor left with the host unnoticed.
Quiet == /\ \A d \in Refund : hook[d].pc = "idle"
         /\ \A r \in Run : runPc[r] = "idle"
RefundReachesTheHost ==
    Quiet => \A b \in Booking :
        {<<"succeeded", b>>, <<"refunded", b>>} \subseteq answered =>
            /\ earning[b] \notin Owed
            /\ b \in UNION accepted => reversals[b] > 0 \/ b \in review

\* "Everything here is about doing it exactly once": no host is sent by transfer the money
\* of a stay whose charge has settled in the host's own account.
HostIsPaidOnce ==
    \A b \in routed : b \in UNION accepted => charge[b] # "succeeded"

\* "... a duplicate delivery arriving later must still end with exactly one earning": once
\* the success is answered, the host's earning exists.
EarningIsRecorded ==
    \A b \in Booking : <<"succeeded", b>> \in answered => earning[b] # "NONE"
=============================================================================
