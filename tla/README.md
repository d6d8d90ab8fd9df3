# Paltas: models, checks and proofs

Paltas is a Next.js application over Postgres (Prisma) that lists properties, takes bookings,
collects payments through Stripe and pays hosts. Every request is a handler that runs from one
`await` to the next while others run between them; the database is the only state they share. What
goes wrong in such a program goes wrong between two awaits, so that is the grain of these models:
**one action is what a handler does between two awaits that others can get between** (a query, a
committed transaction, or a call to Stripe).

Paths below are relative to the repository's root (`src/server/...`, `src/lib/...`).

## The system

| Component | State it keeps | Operations | What is hard | What makes it correct |
|---|---|---|---|---|
| Host payouts (`src/server/payouts.ts`, `src/lib/payouts/ledger.ts`, `api/platform/payouts/run`, `scripts/run-payouts.mjs`) | `HostEarning`, `Payout` | `recordEarning`, `reverseEarning`, `runPayouts` | overlapping runs, crashes, lost answers, refunds during a run | no booking is paid twice, early, or for nothing |
| Stripe webhook and payment (`api/payments/webhook`, `api/bookings/[id]/pay`, `src/server/stripe.ts`, `api/payments/connect`) | `PaymentIntentRecord`, the booking's status, `BookingEvent`, `Organization.stripeOnboarded` | deliver success, failure, refund, account event | at-least-once, unordered, concurrent deliveries; death halfway | every payment ends with the host or with the guest, once |
| Bookings (`src/server/booking.ts`, `src/lib/booking/availability.ts`, `api/bookings`, `api/host/bookings/[id]`, `api/availability`) | `Booking`, `AvailabilityBlock`, `HotelRoomType` | price and check, create, cancel, host's moves, block, unblock | the race for the last room, retries, stale writes | no night sold beyond the inventory; a retry returns the original |
| Mail outbox (`src/server/mail.ts`, `src/lib/mail/outbox.ts`, `src/server/notifications.ts`, `api/platform/mail/flush`) | `EmailMessage` | enqueue, flush, retry with backoff | flushes at the same time, late failures, lost answers, death between the commit and the enqueue | one event, one email; a message is sent or given up on for cause |
| Security gate (`api/security`: invitations, passes, visits, cards) | `VisitorInvitation`, `VisitorVisit`, `AccessEvent`, `AccessCard` | invite, approve, cancel, scan, check in, check out, suspend, revoke, reinstate | two gates and one pass; decisions that cross | no pass admits more often than it says, nobody enters unapproved, the history is whole |
| Estate charges (`api/finance/charges`, `api/payments/intent`, the webhook's charge branch) | `Charge`, `Payment` | settle, waive, amend, pay by card, deliver | check-then-create, stale sums, repeated deliveries | PAID means the money came; a card payment is posted once |
| Group bookings (`api/groups`, the webhook's share branch) | `GroupBooking`, `GroupMember`, `Discount.redemptionCount` | add with and without rebalancing, pay and undo a share, pay by card, confirm | rebalancing against payments and other additions, double confirmation | shares add up; a confirmed group has paid |
| Accounts (`src/server/activation.ts`, `api/onboarding`, `api/platform/approvals`, `api/staff/[id]`) | `User`, `Organization.approved`, roles | onboard, save a draft, approve, reject, activate, suspend, reactivate | a form and an approver at once; decisions read before and written after others | who is active can work; decisions stand |
| External listings (`src/server/external.ts`, `src/lib/external/licence.ts`, `api/external`, `api/public/external`) | `ExternalSource`, `ExternalListing` | sync, change the licence and sweep, take down, the public feed | a sync that lasts minutes beside a change of its licence, takedowns, runs cut short | only what the licence covers is shown; a takedown is for good |
| Property management (`property-management/apps`) | the records table; each browser's cached list | create, update, delete, select, import; fetch, push, poll | optimistic writes, rollbacks, lost pushes, fetches that overtake each other | a quiet screen is right; every screen catches up |
| Payroll, loyalty, leads, maintenance, incidents, emergencies, registers | one row per case | linear status changes | little | transitions in order |
| Authorization (`src/lib/security`, `src/server/scope.ts`) | roles and grants | pure decision | size of the data | no grant beyond its scope |
| Membership, publishing, photos, discovery, messages, support chat, audit | rows and files | single-row changes, I/O | third parties | see Not modelled |
| User interface (`src/app`, `src/components`) | browser state | | | see Not modelled |

How they interact: the pay route asks Stripe for a payment intent; Stripe's **webhook** confirms the
**booking** and calls the **ledger** (`recordEarning`, or `reverseEarning` for a refund) and then
the **outbox**; for an estate **charge** it posts a payment, for a **group** share it marks the
share paid. A **cron** calls the payout run every day (`render.yaml`, 06:00 UTC), and staff can
start one by hand; the run reads the ledger, claims what is due and calls Stripe. The outbox is
flushed behind every message newly queued and whenever the flush route is called. Account events
switch an organisation's payouts on and off. Bookings and blocks meet only in `occupancyFor`. The
**gate** and the **accounts** share only people with the rest, and the **external listings** nothing:
their public feed is a query of its own. There are no queues and no locks:
only unique constraints, conditional updates, transactions under Read Committed and one Serializable
transaction. The property-management application is separate: an Express server over SQLite whose
handlers do not await, and browsers that cache what it sends.

## Modules

| Module | What it is |
|---|---|
| `PayOnce` | The promise of the ledger, in three actions: money leaves at most once, only when earned, only when due. |
| `Payouts` | `payouts.ts` over `ledger.ts`, with Stripe's transfers and reversals. Implements `PayOnce`. |
| `Booking` | Selling stays: `booking.ts`, `availability.ts`, the host's PATCH, the blocks, the payment's confirmation. |
| `Settlement` | EXTENDS `Payouts`: the webhook's deliveries drive the ledger's actions. Implements `Payouts`. |
| `Mail` | The outbox: the handlers that feed it, its flushes, its retry policy, the provider. |
| `Gate` | Invitations, visits, the access history and access cards. |
| `Charges` | One estate charge, at the desk and by card. |
| `Groups` | One group booking: travellers, shares, payments, confirmation. |
| `Activation` | One applicant's account, from signup to the role it works with. |
| `External` | Third-party listings: one source, its licence, the syncs, and what the public feed shows. |
| `Live` | The followed screens of the property-management client, and the server behind them. |
| `MCPayouts` and the other `MC` modules | The instances that TLC checks, one module for each of the above but `PayOnce`. |
| `LedgerProofs`, `BookingProofs`, `MailProofs`, `GateProofs`, `ChargesProofs`, `ActivationProofs`, `ExternalProofs`, `LiveProofs` | Theorems and proofs. `LedgerProofs` is about `Payouts` and `Settlement`; `BookingProofs` about `Booking` and `Groups`, which share its lemmas about sums. |

In every module, a definition introduced by "Faulty variant" is not part of the system: it is what
one of its operators would be with a plausible bug, kept to show that a property notices.
Variables marked "history" are not in the code either; they only remember, for the properties, what
the code's own state forgets.

### Payouts

A row of `HostEarning` is named by its booking (unique `bookingId`). A row of `Payout` is named by
its idempotency key, which is unique and computed from the organisation, the currency and the sorted
earning ids; it stands for the **set of bookings** itself, so "same key" is "same batch". The
fingerprint in the real key has fewer than 64 useful bits, and collisions are left out.

`earning`, `payoutOf`, `clawedBack`, `payout` are columns; `runPc`, `plan`, `current` and `handler`
are the locals of `runPayouts` and `reverseEarning`; `accepted` and `reversals` are what Stripe
holds. A run is `ReadEarnings`, `ReadAccounts`, then for each batch `Claim` (the transaction with
its unique insert and its count guard) or `ClaimFails`, `Transfer`, and `RecordSent` or
`RecordFailed`. The order of batches is left open, which covers the sorted one. `Transfer` may end
in `"accepted"`, `"refused"` or `"lost"`: a transfer made whose answer never came, which
`createTransfer`'s catch reports exactly like a refusal. `RunCrashes` and `HandlerCrashes` lose the
locals and leave the rows. `reversals` counts what Stripe has taken back of each booking; `crossed`
is a history, of the bookings two of whose refunds met while one of them was taking money back, or
whose refund died between the reversal and the row. For those the code reverses twice
(`payouts_twice`); for all others `ClawbacksAreExact` asks that it does so once, and that the row
says so.

Left out: time (`HoldElapses` says that a hold has run out, in any order), the withheld list, the
dry run, and Stripe's refusal of a reused idempotency key: a key reaches Stripe once, for its row is
unique.

### Booking

A row is named by its idempotency key, also unique. `attempt` is a `createBooking` in progress:
`priceAndCheck` (advisory), `BeginBooking` (the transaction's snapshot and second check), then
`CommitBooking`, `KeyTaken` (P2002) or `AbortBooking` (P2034, P2028). Postgres's Serializable is
modelled by what it guarantees: two such transactions cannot both commit if each should have counted
the other's row. It may also abort for less, and `AbortBooking` always may. Everything else runs
under Read Committed: `ReadStatus` and `WriteStatus` are the two queries of `cancelBooking` and of
the host's PATCH, and `ConfirmPaid` is the webhook's single conditional update. `cancelledAt` is the
column; it remembers a cancellation that a stale write has overwritten.

`REFUNDED` is in the enum and in two guards, but nothing writes it: it is not a status of the model.
Prices, add-ons and capacity end a request early and change nothing, so they are not steps.

### Settlement

One `hook` per delivery in progress: `Deliver`, then `Confirm`, `Explain`, `Earn` for a success, or
`NothingToReverse`, `PaidWithoutTransfer`, `StartReversal`, `CallStripe`, `FinishReversal`,
`AskForReview` for a refund, then `AnswerStripe`. `StartReversal`, `CallStripe` and `FinishReversal`
are the actions of `Payouts` with the hook carried along. Stripe may deliver any event that has
happened, again and at the same time, in any order. `Earn` is `recordEarning` that inserts or finds
the row; `EarnFails` is its `catch` without a condition: the insert fails for any other reason, and
the delivery goes on to its answer all the same. `swallowed` remembers the bookings it happened to
and that have no earning since. `DeliveryFails` ends a delivery at any step
without an answer, and `RunDies` a payout run. `MoveBooking` is what the guest and the host do to
the booking's status, stale writes included; `Booking` has it step by step. Refunds happen at
Stripe: `refundPaymentIntent` has no caller in the code. `routed` remembers which payments settled
in the host's own account (a destination charge).

The refund event is taken to lead to its booking, as the code intends by `metadata.bookingId`. Not
modelled here: the charge and group-share branches (see `Charges`, `Groups`), the emails (see
`Mail`), the FAILED branch (a timeline event only), the signature check, and a partial refund (the
code reverses the whole earning for any).

### Mail

A message is named by its `dedupeKey`, which is unique and built from the event it is about. An event
is handled (`EventHappens`, and `Redeliver` where a webhook announces it), its handler commits and
then queues the message: `Enqueue`, whose unique constraint answers the repeat, or `EnqueueFails`,
the error that `notifications.ts` swallows, or `HandlerDies`. A flush is `Read` (the PENDING rows
that are due, oldest first, up to its limit), then for each row `Offer` to the provider and `Write`,
which updates by id from the attempts it had read. Flushes asked for from outside are named by a
constant, the one that `enqueueAndSend` starts by its message; it takes **one** due row, the oldest,
which need not be that message. An offer ends in `"accepted"`, `"refused"` (a permanent status),
`"failed"`, or `"lost"`: accepted, with the answer lost. `contested` remembers the messages that two
flushes held at once or whose acceptance was not recorded: nothing in the code claims a row, and for
those a second mail can go out.

Left out: durations (a backoff runs out when it does), what a message says, and the in-app
notifications written beside it.

### Gate

`Invite`, `ReadToDecide` and `Decide`, `ReadToCancel` and `Cancel` are the two awaits of the routes
of an invitation; every write is by id. `ReadToCheckIn`, then `CheckIn`: one transaction that
consumes a use where the count is still the one read (`Unconsumed`), creates the visit and records
its IN event, or `CheckInLoses`. A walk-in is `WalkIn` and then, without a transaction,
`RecordWalkIn`; a check-out is `ReadToCheckOut`, `CheckOut`, `RecordCheckOut`. A scan is `ScanPass`,
which reads the pass and decides, `RecordScan`, which writes the row, and `AnswerScan`. `ScanGrants`
is what it decides, `Admissible` what the check-in does: two lists of statuses written differently.
Cards are issued, suspended, revoked and reinstated by a read and a write. `approvedAt` is the
column; `window` is the clock against `validFrom` and `validTo`.

A row of `AccessEvent` names an invitation or a person, not a visit. `qrRows` counts the rows IN and
QR of each pass, by their result: scans and check-ins write the same row, so that a visitor who is
scanned and then admitted has two. `inEvents` and `outEvents` count the other rows by the visit they
were written about, which the handler knows and the row does not. Three histories say what the rows
are to be held against: `answers`, what guards were told; `cutShort`, the visits and passes a process
died over before it had written, or said, the rest; `raced`, the visits that two requests were
checking out at once.

Left out: the token's signature, a code no pass has (answered DENIED, and nothing is written), and
scans of cards, whose rows name a card and no pass or visit.

### Charges

Charges share nothing, so one stands for all. Payment rows are never deleted: their total is
`received`. A handler at the desk reads the charge and its payments (`ReadToSettle`, `ReadToAmend`,
`ReadToWaive`) and writes later; settling is `CreatePayment` and then `WriteStatus`, from the sums
**read before**. A card payment is named by its amount, which with the charge is its idempotency key
(`payments/intent`). `Deliver` is the webhook's look for a payment with this reference, `LoadCharge`
its read of the charge; it shares the last two steps with the desk.

### Groups

Travellers are numbered in the order they were added, which is the order `splitEvenly` deals in.
`ReadToAdd` reads who has paid and what is left; `AddRebalancing` is the transaction that creates the
traveller and rewrites the shares of those it had read as unpaid, `AddByHand` the one that leaves
the others alone. Payments at the desk are a read and a write by id, in both directions; `CardPays`
is the webhook's conditional update. `ReadToConfirm` finds nothing outstanding, `Confirm` counts the
redemption and confirms. `disturbed`, `reversed` and `late` are the histories the properties excuse:
shares set by hand or dealt from an outdated read, a payment undone, a traveller who joined during
or after the confirmation. `splitEvenly` deals a surplus as negative shares, as the code does, and
`ConfirmedIsCollected` excuses those that are paid. Definitions that `Booking` also has carry the
word group in their names, so that one module can prove about both.

### Activation

`SubmitOnboarding` and `SaveAnswers` are the form, `ReadForDraft` and `SaveDraft` its autosave,
`ReadToApprove`, `ReadToReject` and `Reject` the approver. The form and an approval end in
`activateAccount`: `LookAtStatus`, then `Activate`, one transaction that makes the role, assigns it,
approves the organisation and activates the account; a role with the same key exists once per
organisation, so a second such transaction fails whole. `ReadToSuspendOrReactivate` and
`SuspendOrReactivate` are a colleague's PATCH, possible once the organisation works. `INVITED` is in
the enum and in two guards; no code under `src/` writes it.

### External

A row of `ExternalListing` is named by its external id; `displayable`, `suppressed` and `gone` are
the rows with that column set. `StartSync` reads the licence, and the sync keeps what it read to its
end: `LookUp` fetches the next record, finds its row and asks the gate (`evaluateLicence`), `Skip` passes
over one that normalises to nothing, which counts towards the ceiling all the same (`Taken`);
`WriteRow` upserts it, or `CreateFails` where another sync has made the row meanwhile; `MarkGone` is
the `updateMany` over what was not seen, `FinishSync` the record of the run, `SyncStops` an error of
the provider, the route's time limit or a death. `ReadSource` and `RecordLicence` are the PATCH of
the source, `ReadLicence`, `ReadListings` and `Reevaluate` the sweep it starts, one row at a time
from a list read before. `Suppress` is a takedown. `Shown` is the public feed: its query, and then
the gate once more, against the licence of that moment. That second look is why a stale flag written
by an overtaken sync can hide a listing and cannot show one. `alone` is a history: the handlers
beside which, since they read the licence, no other has written and neither licence nor feed has
changed. The properties that say what a handler leaves behind are about those, and let takedowns and
the end of the licence fall anywhere in them.

Left out: how a record is normalised (any may turn out to be nothing), the rights to images and contacts (two more flags decided like
the first), the rows that record runs, and a listing that changes country. A page holds one record.

### Live

The server's handlers do not await between their reads and writes, so `ServeWrite` is one action:
the table, the answer, and an invalidation into the `inbox` of every open socket (`Broadcast`);
`ServeWriteUntold` is the one whose insert of the activity fails, or of a later row of an import:
the rows stay, nobody is told, and the answer is an error. A
browser's list is `cache`; `fetch` is the request for it in flight. `Ask` is a mutation's start: the
fetch in flight is cancelled and, for an update or a removal, the wish is shown at once
(`Optimistic`). `Answered` appends a created record, puts the answer of a selection in place of the
list, and otherwise fetches again; `Failed` puts back what was shown when the write was asked for,
and fetches. `PushArrives` fetches, `Disconnect` loses what was pushed, `Reconnect` fetches nothing,
`Poll` fetches every 60 seconds. `AskElsewhere` is any other browser. A record is its id and one
boolean, enough for `select`, which sets one and clears the rest. `behind` remembers the browsers
that missed something since their last fetch.

The query cache is a library (TanStack Query), modelled from how `records.ts` and `live.tsx` use it:
an invalidation cancels the fetch in flight and starts another; a fetch that fails is dropped.

## Runs

| Run | Expect | Instance | States | What it shows |
|---|---|---|---|---|
| `payouts` | pass | 2 bookings of one host, 2 runs, 2 refund handlers, crashes, refusals; minimum exactly one booking's net | 317,707 | `ClaimedOnce`, `PaidOnce`, `SentIsSettled`, `PayoutsWereDue`, `ClawbacksAreExact`, `PayoutsEndOnce`, and the refinement `PromiseKept` |
| `payouts_lost` | violation | 2 bookings, 1 run, lost answers | | `PaidOnce` fails when an answer is lost |
| `booking` | pass | 2 keys, 2 guests, 3 requests, 2 rooms, 1 block, 2 callers, 2 status changes | 627,894 | `SoldWithinInventory`, `PeakIsTheBusiestNight`, `AnsweredIsBooked`, `PaymentNeverRevives` |
| `booking_oversold` | violation | as `booking` | | a stale host write sells a room twice |
| `settlement` | pass | 1 booking, 1 run, 2 deliveries at once, 1 crash or failed insert, fairness | 424,416 | `AnsweredIsSettled`, `MoneyFollowsTheGuest`, the refinement `LedgerIsPayouts`, and the liveness property `PaymentReachesTheHost` |
| `mail` | pass | 1 message, its own flush and a scheduled one, 3 deliveries, 3 attempts, 2 deaths, every answer, fairness | 116,861 | `PatienceKept`, `AcceptedOnce`, `RowsOnlyAdvance`; the liveness properties `ConfirmedIsQueued` and `EveryMessageEnds` |
| `gate` | pass | 1 invitation for 2 uses, 3 visits, 1 card, 2 requests, 1 scan, deaths | 2,951,165 | `AdmissionsAreCounted`, `OnlyTheApprovedEnter`, `ScanAgrees`, `HistoryHasNoHole`, `WithdrawnForGood` |
| `charges` | pass | amounts up to 2, 2 requests, 2 deliveries of each event, deaths | 741,734 | `PaidWasCovered`, `AnsweredIsPosted`, `PostedOnce`, `WaivedAtTheDesk` |
| `groups` | pass | 5 to pay, up to 3 travellers, shares of 0 and 7 by hand, 2 requests, deaths | 2,992,013 | `SharesCoverTheTotal`, `ConfirmedIsCollected` |
| `activation` | pass | 1 applicant, every declaration and role, 3 requests, deaths | 131,879 | `ActiveHoldsARole`, `DecisionsStand` |
| `external` | pass | 2 listings in 2 countries, 2 syncs and 1 change of the licence, 2 of them at once, 2 patches, the licence's last day | 2,555,888 | `SyncIsExact`, `SweepIsExact`, `TakedownIsForGood` |
| `live` | pass | 2 rows, 1 followed browser, 2 writes, 1 lost socket, fairness | 590,290 | `QuietScreenIsRight`; the liveness property `ScreensCatchUp` |

`payouts` and `mail` also check their module's type invariant. Where symmetry is used, the number of
states can differ by a few hundred from one execution to the next.

Ten more configurations refute promises of the documentation that the code does not keep, and can be
run by hand (see Findings): `payouts_retry` and `payouts_twice` (`MCPayouts`), `booking_retry` and
`booking_blocks` (`MCBooking`), `settlement_order`, `settlement_routed` and `settlement_swallowed`
(`MCSettlement`), `gate_twice` (`MCGate`), `external_capped` and `external_unbacked` (`MCExternal`).

**Bounds, and why they are enough.** Two bookings of one host are what a batch needs to grow, which
is how two batches come to overlap without having the same key; two runs and two refund handlers are
what it takes for one to act between two steps of another. Different organisations and currencies
never meet in a batch: the proofs cover them for any number, the runs do not repeat them. The nets
are 10 (11 less a fee rounded down) and 7, and the minimum is 7: batches exactly at the minimum
occur. Three requests for two rooms (one, both, and one over the nights of both, the last under a
key that another guest has used) produce the race, the retry, back-to-back stays and the stranger's
key. One booking is enough for `Settlement`: its deliveries meet only on one booking, and the
ledger's behaviour with several is that of `Payouts`, by `LedgerIsPayouts`. `MaxCrashes` bounds how
many deliveries and runs of `Settlement` are cut short and how many inserts of an earning fail, in
all: one is enough to lose what a delivery was about to do while another is in progress. `Payouts`
bounds neither, and the proofs need no bound. Stripe makes every transfer in this run, because `PaymentReachesTheHost` is not true of
one that refuses (`payouts_retry`); what refusals do to the ledger is the subject of `payouts`, and
the safety properties of `settlement` are proved whatever Stripe answers.

`mail` has one message because rows meet only in a flush's batch, which offers them one by one; the
two flushes that can hold its row, three attempts (a first, one that a stale count repeats, and the
last) and two deaths are the cases of that row, and the proofs cover any number of messages and
flushes. `gate` has a pass for two and three visits, so that one visit too many can try; two
requests are what it takes to cross. `MaxScans` and `MaxCutShort` are one: what a scan writes does
not depend on the scans before it, and a second visit or pass a process died over is only excused
like the first (a request may die at any other point as often as it likes). In `charges`, amounts up to 2 give part payment, payment in two
halves, and amendment below and above; a deskful of requests crosses pairwise. `groups` deals 5 to
one, two and three travellers, which leaves every remainder; a share of 7 by hand is more than is to
pay, and makes the next one dealt negative. `activation` allows three requests,
since a decision, an activation and a colleague can interleave. `live` has two rows so that a
selection moves from one to the other, and two writes so that a rollback can put back a list older
than another write; `MaxDrops` is one because a socket that reconnects is like new. `external` has a
listing the licence covers and one it does not; its patches grant and withdraw, and the day the
licence ends falls between any two steps. `MaxBusy` lets two handlers overlap, any two of the three:
the proofs bound nothing.

Symmetry is used between interchangeable runs, requests, handlers, callers, visits and syncs, and
only where no liveness is checked. Deadlock is checked except in `mail`, `gate` and `charges`, where
bounded events or rows run out and the system really stops.

**Fairness.** `FairSpec` and `FairSettlement` assume: a run or a handler that can go on does (weak
fairness: Node finishes what it started unless the process dies, and `render.yaml`'s cron calls the
endpoint every day, so an idle run starts again); holds run out (weak: time passes); and Stripe
repeats an unanswered event (strong fairness on `Redeliver`: a delivery slot is not always free, but
is again and again). Nothing is assumed of guests, owners or refunds. `PaymentReachesTheHost`
assumes besides that the host's account stays enabled in the end and that Stripe makes the transfers
it is asked for (`StripeAnswer` = {"accepted"}), for `payouts_retry` shows what becomes of a
refusal. A run that dies before it claims is followed by the next one; one that dies after the claim
leaves the payout PENDING for a person to reconcile, by design (`payouts.ts:146-150`), and the
property says so (`LeftToReconcile`).

`Mail`'s fairness is of the same kind: Stripe repeats what was not answered, handlers and flushes
that live go on, backoffs run out, and somebody calls the flush route again and again, as its
comment requires of a deployment. `render.yaml` schedules no such call; without it a message waits
for the next one to be queued. In `Live`, the poll fires while the window has the focus (weak), and
a list that is asked for again and again is served and arrives again and again (strong: any one
fetch may fail or be cancelled). Nothing is assumed of the socket.

## Findings

The two violation runs, the ten configurations above and what the models had to excuse each
contradict a sentence of the code's own documentation; `PROJECT.json` quotes them with their lines.
In short:

1. `payouts_lost`: a transfer whose answer is lost is put back in the queue, and paid again in a
larger batch.
2. `booking_oversold`: the host's PATCH and `cancelBooking` update by id, without the status they
checked.
3. `payouts_retry.cfg` (`RefusedIsRetried`): a refused batch holds its unique key for ever, so "the
next run can try again" is false.
4. `booking_retry.cfg` (`RetryGetsTheOriginal`): the retry meets the availability check before the
idempotency key.
5. `booking_blocks.cfg` (`BlocksAreAbsolute`): a block on a whole property is never read.
6. `settlement_order.cfg` (`RefundReachesTheHost`): a refund delivered before its success is
answered and forgotten.
7. `settlement_routed.cfg` (`HostIsPaidOnce`): payments routed to the host are recorded as earnings
and transferred a second time.
8. `external_capped.cfg` (`GoneIsDelisted`): a sync that stops at its ceiling marks what it did not
get to as delisted.
9. `external_unbacked.cfg` (`DisplayIsBacked`): two changes of a licence that cross leave display
rights without the document.
10. `payouts_twice.cfg` (`ClawedBackOnce`): two deliveries of a refund that overlap both ask Stripe
to reverse the transfer, with no idempotency key; under a transfer of several bookings both are
granted, and the second takes the money of another stay. So does the repeat of a delivery that died
between the reversal and its row.
11. `settlement_swallowed.cfg` (`EarningIsRecorded`): `recordEarning` takes any database error for a
duplicate (`payouts.ts:75-79`), the webhook answers success, Stripe does not repeat it, and the host
is never owed what the guest paid.
12. `gate_twice.cfg` (`ExitIsStampedOnce`): two requests that check one visitor out at once both do,
and the exit is stamped twice.

The others have no configuration: the property that holds is stated with the excuse, and the excuse
is the finding.

13. Mail is not queued "in the same transaction" as what it is about: after a crash between the two,
a cancellation's notice is never queued, and an enqueue that fails is swallowed. The first backoff
is five minutes, not one (`outbox.ts:31-34` is called with the count already raised). The immediate
flush behind a message sends the oldest due row, which may be another.
14. A cancelled pass can still admit (`checkin/route.ts:57` names the use count, not the status), and
a stale approval, rejection or reinstatement overwrites a cancellation or a revocation. A walk-in
interrupted between its two writes leaves no event, and an unrecognised pass none at all.
15. Two overlapping deliveries post a card payment to a charge twice. The webhook posts to a waived
charge and rewrites its status. Two settlements that cross leave PART_PAID on a charge paid in
full, and the list filters by that status. After an amendment that makes the outstanding amount what
it once was, the intent returned is the completed one, as its key is the amount.
16. A group's shares are rewritten from a read made before the transaction: one paid meanwhile is
revised, and two travellers added at once leave shares that do not add up. Two confirmations count
the redemption twice; a payment can be undone, and a traveller join, after the confirmation. A share
given by hand is not bounded by the total (`members/route.ts:60`), so that what is left to the others
can be negative, and paying a negative share confirms a group that has not collected what it owes.
17. Two overlapping activations with different roles grant both; a stale rejection overwrites an
account that activated itself; an autosave that read the form before it was submitted overwrites the
answers. The documents check of onboarding (`onboarding/route.ts:101`) asks for PENDING documents,
so an applicant whose identity document was already approved is told to upload one.
18. A record created in the property-management client can be shown twice until the next fetch, a
selection's late answer puts older rows over newer ones, and a socket that reconnects fetches
nothing that it missed. A write whose activity cannot be recorded stays in the table and is told to
nobody.

Seen besides: `reverseEarning` reads HELD, a run claims and sends, and the row becomes REVERSED with
no clawback (`payouts.ts:130`); the failure branch turns a REVERSED earning PAYABLE
(`payouts.ts:259-262`); a clawback of nothing, where the fee takes all, is sent without an amount and
reverses the whole transfer (`stripe.ts:452`); a visitor who is scanned and then checked in has two
granted IN rows, which the access list and the dashboard show and the reports count as two entries
(`api/security/access-events`, `dashboard`, `reports`); a crash between confirming a booking and
writing its event loses the event (`webhook/route.ts:155`); a `charge.refunded` event carries a charge, whose id is not the intent id
the upsert is keyed on (`webhook/route.ts:73`); a record whose country is a name and not a code is
filed under its first two letters (`normalise.ts:229`), which the licence's territories then read as
another country or none.

## Proofs

All proofs are for every value of the constants that satisfies `ConstantsAssumption`.

**Payouts.** `TypeCorrect` is the type invariant with `LocalsOK` (a run that has claimed holds a
batch; a handler in progress has a booking). `ClaimedOnceAlways` proves `ClaimedOnce`, which is not
inductive: a failing run gives back whatever names its payout. The strengthening `OwnerInv` adds
that an earning naming a payout names a live one and is no longer owed (`EarningNamesLive`), and
that runs in flight own distinct PENDING rows (`RunsOwnPending`). It holds whatever Stripe answers.
`PaidOnceAlways` needs that answers are not lost (`"lost" \notin StripeAnswer`): `TransfersKnown`
then says that Stripe's transfers belong to live payouts and that a run in flight knows whether its
own exists. Live payouts are disjoint by `ClaimedOnce`, so transfers are. `payouts_lost` shows that
the assumption is needed. `PayoutsWereDueAlways` goes through what a run has planned: a plan read
long ago stays due, since holds and earnings do not come undone, and the accounts may change freely.
`SentIsSettledAlways` is a second consequence. `PayoutsEndOnceAlways` is an action property and
follows from `OwnerInv`: a failing run owns every booking of its batch, so it gives back all of
them. `ClawbacksAreExactAlways` follows each refund handler from the payout it read to what it writes.
That every reversal lies under a transfer is `BackedInv`. That there is one is `UncrossedOK`: outside
`crossed`, a handler with a transfer to reverse is alone with the booking, and what has been taken
back is about to be written by it or is on the row, which says REVERSED and is not reversed again. `LedgerKeepsPromise` is the refinement: `Transfer` is `Send` because what is claimed
but not sent is in no earlier transfer, and everything else is a step of the environment or a
stutter. `TwiceIsFailedAlways` says what is left of `PaidOnce` where answers are lost: of two
transfers for one booking, one has a FAILED row, so the ledger shows it (`TransfersRecorded`).

**Sums and induction.** The library's induction theorems take an operator as a parameter, which the
provers cannot instantiate. `BookingProofs` argues instead by the least exception: `LeastElement` is
the well-foundedness of < on the naturals, and `SmallestSet` gives, of the sets a statement fails
for, one with no smaller exception inside it. That is enough to say what `SumFunctionOnSet` is: the
function its fold chooses exists (`SumsExist`) and is determined (`SumsAgree`); the rest follows,
that a sum is that of a set less an element, plus that element (`SumRemove`), that disjoint sets add
(`SumDisjoint`), that a larger set of naturals has no smaller sum (`SumMonotone`).

**Booking.** `BookingTypes`; `AnsweredIsBookedAlways` (rows never change hands);
`PaymentNeverRevivesAlways`. `InventoryHolds` is the inductive invariant under
`SoldWithinInventory`, which says nothing of the request whose transaction is open. What is inductive
is about the rows that were never cancelled (`Standing`): on every night they fit the unit's rooms
(`StandingFits`), and where a transaction is about to create a row, what stood in its snapshot leaves
room for it on every night (`SnapshotFits`). The conflict of two Serializable transactions is what
carries the second over to the first: a transaction commits only if no row it did not know of takes
rooms of its unit on its nights (`SnapshotStands`). That the check before it, made from occupancy at the starts of
stays only, implies the night by night statement is `PeakIsTheBusiestNightAlways` (`PeakBounds`:
the last night up to any other on which a stay began is at least as busy).
`CancelledOK` ties the history of cancellations to the statuses.

**Groups.** `SharesCoverTheTotalAlways` needs that an addition which no other has outdated still holds
what the others' shares leave (`SharesOK`), whatever is paid or taken back meanwhile, and that
`splitEvenly` deals out exactly what it is given: `SplitEvenly`, from `DealtOut`, by induction over the
travellers it deals to. `ConfirmedIsCollectedAlways` extends the claim back to the confirmation that
has read and not yet written (`ConfirmedOK`); its last excuse was found by the proof. A payment raises
what is collected only if the share is not negative; nothing in the code sees to that, and TLC refutes
the property without the excuse as soon as a share by hand can exceed the total.

**Settlement.** `SettlementImplementsPayouts`: every step of the composition is a step of `Payouts`
or leaves its variables alone, from `HookOK`, which ties each handler of the ledger to the delivery
that drives it. It assumes `ProcessCrashes = TRUE`, as a failing delivery is a crash to the ledger.
`WebhookPaysOnce` is its corollary, whatever Stripe answers: a booking is paid by two transfers only
where one payout is FAILED (`TwiceIsFailed`); `PaidOnce` itself would need that answers are not lost.
`AnsweredIsSettledAlways` follows each delivery to its answer (`SettledInv`): past the earning, it
exists or its insert failed unseen, and that stays so whatever other deliveries do (`SettledStays`). `MoneyFollowsTheGuestAlways` needs that a delivery under way is about a payment that
was made (`MoneyInv`), that a reversal under way is its delivery's, and, from `PayoutsWereDue`
through the refinement, that what Stripe has transferred was recorded as earned.

**Mail.** `GivenUpForGoodReason` needs that a count of attempts, in a row or in a flush's memory, is
never above the failures the provider has seen of the message (`CountsAreBehind`): flushes that
overwrite each other can only set it back. `ToldOnce` and `RowsNeverGoBack` need `OneHolder`: an
uncontested message is held by one flush at most, is accepted only when SENT or about to be, and its
holder has read the row's own attempts.

**Gate.** `AdmissionsAreCountedAlways`, `OnlyTheApprovedEnterAlways` and `ScanAgreesAlways` come from
one invariant (`PassesHold`): `UsesAreAdmissions` counts admissions as a cardinality, and `PassesOK`
says that a check-in under way had room under the limit, on an approved invitation; that a use is
consumed only where the count is still the one read does the rest. `ScanAgrees` needs that only an
exhausted pass is USED. `Withdrawn` follows each request from its read to its write. `HistoryIsWhole`
joins two counts. Of passes (`RowsOK`): the rows of a pass are its uses, the answers given and the
scans that have written a row and not answered, as a cardinality, unless a scan of it died there; a
check-in moves rows and uses together, so what another request reads in between does not matter. Of
visits (`HistoryOK`): the one request that owes a visit its row is still at it, or the row is there;
`NotRaced` adds that where no two requests were checking a visit out at once, one at most does.

**Charges.** `PaidMeansReceived` by `SumsOK`: what a handler read as received was received, and what
it read as owed is no less than the least the charge was for, so the comparison of two stale figures
errs only towards PART_PAID. `AnsweredIsPostedAlways` and `PostedOnceAlways` by `AnswersOK` and
`DeliveriesOK`, which follow the one delivery of a payment that is not overlapped.
`WaivedForTheDesk` from the type invariant.

**Activation.** `ActiveCanWork` by `RolesOK` (roles, approval and the first activation come
together, and no status leads back before it) and `OneAtATime`. `DecisionsAreKept` from the same.

**External.** `Inv` is the type invariant with `SyncOK` and `EditorOK`, which say what a handler
that nothing disturbed knows: the licence and the source are what it read, the rows it has been over
carry the flags they should, and of the others it remembers what they are, takedowns apart.
`LicensedBefore` is what makes it inductive while days pass: time can only take a licence away. From
it `SyncIsExactAlways` and `SweepIsExactAlways`; `TakedownIsForGoodAlways` goes step by step, with no invariant.

**Live.** `QuietScreenIsRight` says nothing of a screen that is busy, so it is not inductive.
`ScreensOK` is: a browser that missed nothing shows the table, or a push, a fetch or the answer to a
guess of its own is still to come (`ScreenOK`); and the list on its way is the table's, or a push that
will ask for it again is on its way too (`ListOK`). The writes under way are a sequence whose positions
shift as they end; `StepWrites` says that a step of one leaves the others' records in it, which is
all that the guesses of other browsers need. A broadcast cannot overtake itself: it raises every open
inbox in the step that changes the table, and where a socket is closed the browser has missed it.

**Only model-checked.** The liveness properties, `PaymentReachesTheHost`, `ConfirmedIsQueued`,
`EveryMessageEnds` and `ScreensCatchUp`: they rest on fairness, and so on ENABLED, which is out of
the prover's reach. Every invariant and every action property of a run that passes is a theorem.

## Not modelled

- **Authorization** (`src/lib/security`, `scope.ts`, `actor.ts`): a pure decision over roles, grants
and scopes, large in data and without interleavings. The modelled handlers are taken past their
guards.
- **Inventory edits and unpublishing** (`api/roomtypes/[id]`): `TotalRooms` is a constant. Once it
can fall below what is sold there is no one bound for `SoldWithinInventory` to be about.
- **Payroll, loyalty, leads, maintenance, incidents, emergencies, shifts, registers**: one row per
case, moved by one request at a time through a line of statuses.
- **Membership and subscriptions**: flags over an organisation's plan, rewritten from Stripe's
latest word.
- **Sessions, tokens, passwords**: cryptography and single-row updates.
- **Listings, photos, the normalisation of external records, discovery, pricing, translations**:
I/O, data mapping and pure functions, which their unit tests cover densely.
- **Messages, support chat, in-app notifications, audit**: append-only, and read by none of the
modelled handlers.
- **The user interface** and the seeds, schema registry and forms of `property-management`: most of
the repository's lines, and no state that a handler relies on.

## Running

    tlc -config payouts.cfg MCPayouts
    tlc -config booking.cfg MCBooking
    tlc -config settlement.cfg MCSettlement
    tlc -config mail.cfg MCMail
    tlc -config gate.cfg MCGate
    tlc -config charges.cfg MCCharges
    tlc -config groups.cfg MCGroups
    tlc -config activation.cfg MCActivation
    tlc -config external.cfg MCExternal
    tlc -config live.cfg MCLive
    tlapm LedgerProofs.tla
    tlapm BookingProofs.tla
    tlapm MailProofs.tla
    tlapm GateProofs.tla
    tlapm ChargesProofs.tla
    tlapm ActivationProofs.tla
    tlapm ExternalProofs.tla
    tlapm LiveProofs.tla
