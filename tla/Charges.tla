------------------------------ MODULE Charges ------------------------------
(***************************************************************************)
(* One estate charge: what is received against it at the desk and by card, *)
(* amended or waived (src/app/api/finance/charges/[id]), the card payments *)
(* started for it (payments/intent) and what Stripe's webhook posts to it. *)
(*                                                                         *)
(* Charges share nothing but code, so one stands for all.  Payment rows    *)
(* are never deleted: their total is kept, and how many of them each card  *)
(* payment left.  A card payment of a charge is named by its amount: that  *)
(* is all its idempotency key adds to the charge's id.                     *)
(*                                                                         *)
(* Every handler reads the charge with its payments, decides, and writes:  *)
(* one action is what it does between two awaits.                          *)
(***************************************************************************)
EXTENDS Integers, FiniteSets

CONSTANTS
    MaxAmount,     \* the largest amount a charge is raised or amended to
    Request,       \* handlers that can overlap
    DeliveryBound, \* deliveries of one card payment that are explored
    ProcessCrashes \* whether a server process can die between two awaits

ASSUME ConstantsAssumption ==
    /\ MaxAmount \in Nat
    /\ DeliveryBound \in Nat
    /\ ProcessCrashes \in BOOLEAN

VARIABLES
    status,     \* Charge.status
    amount,     \* Charge.amount
    received,   \* the total of its PAID payments
    posted,     \* Payment rows with each card payment as their reference
    intents,    \* Stripe: card payments started
    succeeded,  \* Stripe: those the resident completed
    deliveries, \* Stripe: how often each success was delivered
    answered,   \* Stripe: those whose delivery was answered
    request,    \* each handler: where it is and what it read
    least,      \* history: the smallest amount the charge has had
    overlapped  \* history: card payments two deliveries of which ran at once

rowVars == <<status, amount, received, posted, least>>
stripeVars == <<intents, succeeded, deliveries, answered, overlapped>>
vars == <<rowVars, stripeVars, request>>

-----------------------------------------------------------------------------
Amount == 0 .. MaxAmount
CardPayment == 1 .. MaxAmount
Idle == [pc |-> "idle", by |-> "desk", n |-> 0, settled |-> 0, owed |-> 0]
\* What a handler has read and will use: the sums only where it is to record a payment.
Handling(step, who, n) == [pc |-> step, by |-> who, n |-> n, settled |-> 0, owed |-> 0]
Paying(who, n) == [pc |-> "pay", by |-> who, n |-> n, settled |-> received, owed |-> amount]

TypeOK ==
    /\ status \in {"ISSUED", "PART_PAID", "PAID", "WAIVED"}
    /\ amount \in Amount
    /\ least \in Amount
    /\ received \in Nat
    /\ posted \in [CardPayment -> Nat]
    /\ intents \subseteq CardPayment
    /\ succeeded \subseteq CardPayment
    /\ deliveries \in [CardPayment -> Nat]
    /\ answered \subseteq CardPayment
    /\ overlapped \subseteq CardPayment
    /\ request \in [Request -> [pc : {"idle", "waive", "amend", "start", "load", "pay", "status"},
                                by : {"desk", "card"},
                                n : Amount, settled : Nat, owed : Amount]]

\* Raised, for a positive amount.
Init ==
    /\ status = "ISSUED"
    /\ amount \in Amount \ {0}
    /\ least = amount
    /\ received = 0
    /\ posted = [a \in CardPayment |-> 0]
    /\ intents = {}
    /\ succeeded = {}
    /\ deliveries = [a \in CardPayment |-> 0]
    /\ answered = {}
    /\ overlapped = {}
    /\ request = [r \in Request |-> Idle]

-----------------------------------------------------------------------------
(* The desk: PATCH of a charge that is not waived. *)

\* Faulty variant: a charge in any status.
OpenAtDeskAny(r) == request[r] = Idle

\* A waived charge is refused.
OpenAtDesk(r) == request[r] = Idle /\ status # "WAIVED"

Begin(r, what) ==
    /\ request' = [request EXCEPT ![r] = what]
    /\ UNCHANGED <<rowVars, stripeVars>>

\* Not more than is outstanding, and not an amount below what was received.
ReadToSettle(r, n) == OpenAtDesk(r) /\ n \in 1 .. amount - received /\ Begin(r, Paying("desk", n))
ReadToAmend(r, n) == OpenAtDesk(r) /\ n >= received /\ Begin(r, Handling("amend", "desk", n))
ReadToWaive(r) == OpenAtDesk(r) /\ Begin(r, Handling("waive", "desk", 0))

Waive(r) ==
    /\ request[r].pc = "waive"
    /\ status' = "WAIVED"
    /\ request' = [request EXCEPT ![r] = Idle]
    /\ UNCHANGED <<amount, received, posted, least, stripeVars>>

\* The status is left as it is.
Amend(r) ==
    /\ request[r].pc = "amend"
    /\ amount' = request[r].n
    /\ least' = IF request[r].n < least THEN request[r].n ELSE least
    /\ request' = [request EXCEPT ![r] = Idle]
    /\ UNCHANGED <<status, received, posted, stripeVars>>

-----------------------------------------------------------------------------
(* By card. *)

\* payments/intent asks Stripe for what is outstanding, of a waived charge too.
ReadToStart(r) ==
    /\ request[r] = Idle
    /\ received < amount
    /\ Begin(r, Handling("start", "card", amount - received))

\* The same amount again is the same card payment, completed or not.
StartCardPayment(r) ==
    /\ request[r].pc = "start"
    /\ intents' = intents \cup {request[r].n}
    /\ request' = [request EXCEPT ![r] = Idle]
    /\ UNCHANGED <<rowVars, succeeded, deliveries, answered, overlapped>>

ResidentPays(a) ==
    /\ a \in intents \ succeeded
    /\ succeeded' = succeeded \cup {a}
    /\ UNCHANGED <<rowVars, intents, deliveries, answered, overlapped, request>>

\* Faulty variants of AlreadyPosted: any payment of the charge will do; none does.
AlreadyPaidTowards(a) == received > 0
NeverPosted(a) == FALSE

\* payment.findFirst by charge and reference.
AlreadyPosted(a) == posted[a] > 0

Delivering(r, a) == request[r].by = "card" /\ request[r].n = a /\ request[r].pc \in {"load", "pay", "status"}

\* A delivery of the success, the first or a repeat: what is posted already is answered.
Deliver(r, a) ==
    /\ request[r] = Idle
    /\ a \in succeeded
    /\ deliveries[a] < DeliveryBound
    /\ deliveries' = [deliveries EXCEPT ![a] = @ + 1]
    /\ overlapped' = IF \E q \in Request : Delivering(q, a) THEN overlapped \cup {a} ELSE overlapped
    /\ IF AlreadyPosted(a)
       THEN answered' = answered \cup {a} /\ request' = request
       ELSE answered' = answered /\ request' = [request EXCEPT ![r] = Handling("load", "card", a)]
    /\ UNCHANGED <<rowVars, intents, succeeded>>

\* The charge and its payments, whatever its status.
LoadCharge(r) ==
    /\ request[r].pc = "load"
    /\ Begin(r, Paying("card", request[r].n))

-----------------------------------------------------------------------------
(* Both: the payment row, and then the status as of what was read. *)

CreatePayment(r) ==
    LET n == request[r].n IN
    /\ request[r].pc = "pay"
    /\ received' = received + n
    /\ posted' = IF request[r].by = "card" THEN [posted EXCEPT ![n] = @ + 1] ELSE posted
    /\ request' = [request EXCEPT ![r].pc = "status"]
    /\ UNCHANGED <<status, amount, least, stripeVars>>

\* Faulty variant: one unit short is near enough.
StatusOfNearly(settled, owed) == IF settled + 1 >= owed THEN "PAID" ELSE "PART_PAID"

StatusOf(settled, owed) == IF settled >= owed THEN "PAID" ELSE "PART_PAID"

WriteStatus(r) ==
    LET q == request[r] IN
    /\ q.pc = "status"
    /\ status' = StatusOf(q.settled + q.n, q.owed)
    /\ answered' = IF q.by = "card" THEN answered \cup {q.n} ELSE answered
    /\ request' = [request EXCEPT ![r] = Idle]
    /\ UNCHANGED <<amount, received, posted, least, intents, succeeded, deliveries, overlapped>>

\* The process of a handler dies between two awaits.
RequestDies(r) ==
    /\ ProcessCrashes
    /\ request[r] # Idle
    /\ Begin(r, Idle)

-----------------------------------------------------------------------------
Next ==
    \/ \E r \in Request :
        \/ \E n \in Amount : ReadToSettle(r, n) \/ ReadToAmend(r, n)
        \/ ReadToWaive(r) \/ Waive(r) \/ Amend(r)
        \/ ReadToStart(r) \/ StartCardPayment(r)
        \/ \E a \in CardPayment : Deliver(r, a)
        \/ LoadCharge(r) \/ CreatePayment(r) \/ WriteStatus(r) \/ RequestDies(r)
    \/ \E a \in CardPayment : ResidentPays(a)

Spec == Init /\ [][Next]_vars

-----------------------------------------------------------------------------
(* Properties. *)

DeskIsQuiet == \A r \in Request : request[r].by = "desk" => request[r] = Idle
NoCardArrives == \A r \in Request : request[r].pc \notin {"load", "pay", "status"}

\* PaidWasCovered: a charge marked PAID has received at least the smallest amount it was
\* ever for, however many stale sums and amendments race.  (settle and webhook compare
\* what they read with what they read)
PaidWasCovered == status = "PAID" => received >= least

\* AnsweredIsPosted: a card payment whose delivery was answered, which Stripe will not
\* deliver again, has left its money in the ledger.  (webhook)
AnsweredIsPosted == \A a \in answered : posted[a] > 0

\* PostedOnce: a card payment is posted once unless two deliveries of it overlapped, even
\* where a handler died half way and the delivery was repeated.  ("a duplicate delivery of
\* the same event cannot post the money twice")
PostedOnce == \A a \in CardPayment : a \notin overlapped => posted[a] <= 1

\* WaivedAtTheDesk: a charge that is waived while nothing is being done to it at the desk
\* and no card payment is arriving is brought back by the desk never again.  (PATCH
\* refuses a waived charge; only the webhook does not ask)
WaivedAtTheDesk ==
    [][status = "WAIVED" /\ DeskIsQuiet =>
          /\ DeskIsQuiet'
          /\ NoCardArrives => status' = "WAIVED"]_vars
=============================================================================
