----------------------------- MODULE LedgerProofs -----------------------------
(***************************************************************************)
(* Theorems about Payouts, for every set of bookings, hosts, runs and      *)
(* refund handlers, and about Settlement, the composition of the webhook   *)
(* with that ledger.  The composition implements the ledger, so what is    *)
(* proved of every behaviour of Payouts holds of every behaviour of        *)
(* Settlement.                                                             *)
(***************************************************************************)
EXTENDS Settlement, TLAPS

\* A run that has claimed a batch remembers which, and so does a refund its booking.
Busy(r) == runPc[r] \in {"transfer", "sent", "refused"}
LocalsOK ==
    /\ \A r \in Run : Busy(r) => current[r] \in Batch
    /\ \A d \in Refund : handler[d].pc # "idle" => handler[d].booking \in Booking

LEMMA TypeInit == Init => TypeOK /\ LocalsOK
  BY DEF Init, TypeOK, EarningStatus, PayoutStatus, RunPc, Handler, Idle, Batch, NoPayout,
         LocalsOK, Busy

LEMMA TypeStep == ASSUME TypeOK, LocalsOK, [Next]_vars
                  PROVE  TypeOK' /\ LocalsOK'
<1> USE DEF TypeOK, LocalsOK, Busy, ledgerVars, runVars, stripeVars
<1>1. ASSUME NEW o \in Org, NEW s \in {"restricted", "enabled"}, AccountUpdated(o, s)
      PROVE  TypeOK' /\ LocalsOK'
  BY <1>1 DEF AccountUpdated
<1>2. ASSUME NEW b \in Booking, HoldElapses(b)
      PROVE  TypeOK' /\ LocalsOK'
  BY <1>2 DEF HoldElapses
<1>3. ASSUME NEW b \in Booking, RecordEarning(b)
      PROVE  TypeOK' /\ LocalsOK'
  BY <1>3 DEF RecordEarning, EarningStatus
<1>4. ASSUME NEW r \in Run, ReadEarnings(r)
      PROVE  TypeOK' /\ LocalsOK'
  <2>1. DueBatches \subseteq Batch
    BY DEF DueBatches, Due, SameTransfer, Batch
  <2>2. QED BY <1>4, <2>1 DEF ReadEarnings, RunPc
<1>5. ASSUME NEW r \in Run, ReadAccounts(r)
      PROVE  TypeOK' /\ LocalsOK'
  BY <1>5 DEF ReadAccounts, RunPc
<1>6. ASSUME NEW r \in Run, Claim(r)
      PROVE  TypeOK' /\ LocalsOK'
  <2>1. PICK k \in plan[r] : Claim(r)!(k)
    BY <1>6 DEF Claim
  <2>2. k \in Batch
    BY <2>1
  <2>3. QED BY <2>1, <2>2 DEF RunPc, EarningStatus, PayoutStatus
<1>7. ASSUME NEW r \in Run, ClaimFails(r)
      PROVE  TypeOK' /\ LocalsOK'
  BY <1>7 DEF ClaimFails
<1>8. ASSUME NEW r \in Run, Transfer(r)
      PROVE  TypeOK' /\ LocalsOK'
  BY <1>8 DEF Transfer, RunPc
<1>9. ASSUME NEW r \in Run, RecordSent(r)
      PROVE  TypeOK' /\ LocalsOK'
  BY <1>9 DEF RecordSent, RunPc, PayoutStatus
<1>10. ASSUME NEW r \in Run, RecordFailed(r)
       PROVE  TypeOK' /\ LocalsOK'
  BY <1>10 DEF RecordFailed, RunPc, PayoutStatus, EarningStatus
<1>11. ASSUME NEW r \in Run, EndRun(r)
       PROVE  TypeOK' /\ LocalsOK'
  BY <1>11 DEF EndRun, RunPc
<1>12. ASSUME NEW r \in Run, RunCrashes(r)
       PROVE  TypeOK' /\ LocalsOK'
  BY <1>12 DEF RunCrashes, RunPc
<1>13. ASSUME NEW d \in Refund, NEW b \in Booking, ReadForReversal(d, b)
       PROVE  TypeOK' /\ LocalsOK'
  <2>1. PICK h \in Handler : /\ h.booking = b
                             /\ handler' = [handler EXCEPT ![d] = h]
    BY <1>13 DEF ReadForReversal, Handler
  <2>2. crossed' \subseteq Booking
    BY <1>13 DEF ReadForReversal
  <2>3. QED BY <1>13, <2>1, <2>2 DEF ReadForReversal
<1>14. ASSUME NEW d \in Refund, CallReverseTransfer(d)
       PROVE  TypeOK' /\ LocalsOK'
  <2> DEFINE b == handler[d].booking
  <2>1. PICK answer \in StripeAnswer \cup {"refused"} : CallReverseTransfer(d)!(answer)
    BY <1>14 DEF CallReverseTransfer
  <2>2. b \in Booking
    BY <2>1
  <2>3. [reversals EXCEPT ![b] = @ + 1] \in [Booking -> Nat]
    BY <2>2
  <2>4. PICK h \in Handler : /\ h.pc # "idle" => h.booking \in Booking
                             /\ handler' = [handler EXCEPT ![d] = h]
    BY <2>1, <2>2 DEF Handler, Idle
  <2>5. crossed' \subseteq Booking
    BY <2>1, <2>2
  <2>6. QED BY <2>1, <2>3, <2>4, <2>5
<1>15. ASSUME NEW d \in Refund, WriteReversed(d)
       PROVE  TypeOK' /\ LocalsOK'
  <2>1. Idle \in Handler /\ Idle.pc = "idle"
    BY DEF Idle, Handler
  <2>2. QED BY <1>15, <2>1 DEF WriteReversed, EarningStatus
<1>16. ASSUME NEW d \in Refund, HandlerCrashes(d)
       PROVE  TypeOK' /\ LocalsOK'
  <2>1. Idle \in Handler /\ Idle.pc = "idle"
    BY DEF Idle, Handler
  <2>2. crossed' \subseteq Booking
    BY <1>16 DEF HandlerCrashes, Forgotten
  <2>3. QED BY <1>16, <2>1, <2>2 DEF HandlerCrashes
<1>17. CASE UNCHANGED vars
  BY <1>17 DEF vars
<1>18. QED
  BY <1>1, <1>2, <1>3, <1>4, <1>5, <1>6, <1>7, <1>8, <1>9, <1>10, <1>11, <1>12, <1>13,
     <1>14, <1>15, <1>16, <1>17 DEF Next, RunStep, RefundStep

\* Every variable keeps its type, in every mode.
THEOREM TypeCorrect == Spec => [](TypeOK /\ LocalsOK)
<1>1. QED BY TypeInit, TypeStep, PTL DEF Spec
-----------------------------------------------------------------------------
(* Who owns an earning.  ClaimedOnce is not inductive: a failing run gives back *)
(* what names its payout, so the runs in flight must own distinct pending rows, *)
(* and an earning that names a payout must name one that is live and must no    *)
(* longer be owed.                                                              *)

EarningNamesLive ==
    \A b \in Booking : payoutOf[b] # NoPayout =>
        /\ payout[payoutOf[b]] \in {"PENDING", "SENT"}
        /\ earning[b] \in {"PAID", "REVERSED"}
RunsOwnPending ==
    /\ \A r \in Run : Busy(r) => payout[current[r]] = "PENDING"
    /\ \A r, s \in Run : Busy(r) /\ Busy(s) /\ current[r] = current[s] => r = s
OwnerInv == ClaimedOnce /\ EarningNamesLive /\ RunsOwnPending

LEMMA OwnerInit == Init => OwnerInv
  BY DEF Init, OwnerInv, ClaimedOnce, EarningNamesLive, RunsOwnPending, Live, Busy

LEMMA OwnerStep == ASSUME TypeOK, LocalsOK, OwnerInv, [Next]_vars
                   PROVE  OwnerInv'
<1> USE DEF OwnerInv, ClaimedOnce, EarningNamesLive, RunsOwnPending, Live, Busy,
            TypeOK, LocalsOK, Owed, ledgerVars, runVars
<1>1. CASE UNCHANGED <<earning, payoutOf, payout, runPc, current>>
  BY <1>1
<1>2. ASSUME NEW b \in Booking, RecordEarning(b) PROVE OwnerInv'
  BY <1>2 DEF RecordEarning
<1>3. ASSUME NEW r \in Run, ReadEarnings(r) PROVE OwnerInv'
  BY <1>3 DEF ReadEarnings
<1>4. ASSUME NEW r \in Run, ReadAccounts(r) PROVE OwnerInv'
  BY <1>4 DEF ReadAccounts
<1>5. ASSUME NEW r \in Run, Claim(r) PROVE OwnerInv'
  <2>1. PICK k \in plan[r] : Claim(r)!(k)
    BY <1>5 DEF Claim
  <2>2. k \in Batch /\ payout[k] = "NONE" /\ (\A b \in k : earning[b] \in Owed)
    BY <2>1 DEF Claimable
  <2>3. \A b \in k : b \in Booking /\ payoutOf[b] = NoPayout
    BY <2>2 DEF Batch
  <2>4. \A j \in Batch : payout'[j] = IF j = k THEN "PENDING" ELSE payout[j]
    BY <2>1
  <2>5. \A b \in Booking : /\ payoutOf'[b] = IF b \in k THEN k ELSE payoutOf[b]
                           /\ earning'[b] = IF b \in k THEN "PAID" ELSE earning[b]
    BY <2>1
  <2>6. ClaimedOnce'
    <3>1. ASSUME NEW j \in Live', NEW b \in j PROVE payoutOf'[b] = j
      <4>1. CASE j = k
        BY <4>1, <2>3, <2>5
      <4>2. CASE j # k
        <5>1. j \in Live /\ b \in Booking /\ payoutOf[b] = j /\ j # NoPayout
          BY <4>2, <2>4 DEF Batch, NoPayout
        <5>2. b \notin k
          BY <5>1, <2>3
        <5>3. QED BY <5>1, <5>2, <2>5
      <4>3. QED BY <4>1, <4>2
    <3>2. QED BY <3>1
  <2>7. EarningNamesLive'
    BY <2>2, <2>4, <2>5 DEF NoPayout
  <2>8. RunsOwnPending'
    BY <2>1, <2>2, <2>4
  <2>9. QED BY <2>6, <2>7, <2>8
<1>6. ASSUME NEW r \in Run, Transfer(r) PROVE OwnerInv'
  BY <1>6 DEF Transfer
<1>7. ASSUME NEW r \in Run, RecordSent(r) PROVE OwnerInv'
  BY <1>7 DEF RecordSent
<1>8. ASSUME NEW r \in Run, RecordFailed(r) PROVE OwnerInv'
  <2> DEFINE k == current[r]
  <2>1. k \in Batch /\ payout[k] = "PENDING"
    BY <1>8 DEF RecordFailed
  <2>2. \A j \in Batch : payout'[j] = IF j = k THEN "FAILED" ELSE payout[j]
    BY <1>8 DEF RecordFailed
  <2>3. \A b \in Booking :
            /\ payoutOf'[b] = IF payoutOf[b] = k THEN NoPayout ELSE payoutOf[b]
            /\ earning'[b] = IF payoutOf[b] = k THEN "PAYABLE" ELSE earning[b]
    BY <1>8 DEF RecordFailed
  <2>4. ClaimedOnce'
    BY <2>1, <2>2, <2>3 DEF Batch
  <2>5. EarningNamesLive'
    BY <2>1, <2>2, <2>3 DEF NoPayout
  <2>6. RunsOwnPending'
    BY <1>8, <2>1, <2>2 DEF RecordFailed
  <2>7. QED BY <2>4, <2>5, <2>6
<1>9. ASSUME NEW r \in Run, EndRun(r) PROVE OwnerInv'
  BY <1>9 DEF EndRun
<1>10. ASSUME NEW r \in Run, RunCrashes(r) PROVE OwnerInv'
  BY <1>10 DEF RunCrashes
<1>11. ASSUME NEW d \in Refund, WriteReversed(d) PROVE OwnerInv'
  BY <1>11 DEF WriteReversed
<1>12. QED
  <2>1. ASSUME NEW o \in Org, NEW s \in {"restricted", "enabled"}, AccountUpdated(o, s)
        PROVE  OwnerInv'
    BY <1>1, <2>1 DEF AccountUpdated
  <2>2. ASSUME NEW b \in Booking, HoldElapses(b) PROVE OwnerInv'
    BY <1>1, <2>2 DEF HoldElapses
  <2>3. ASSUME NEW r \in Run, ClaimFails(r) PROVE OwnerInv'
    BY <1>1, <2>3 DEF ClaimFails
  <2>4. ASSUME NEW d \in Refund, RefundStep(d) PROVE OwnerInv'
    BY <1>1, <1>11, <2>4 DEF RefundStep, ReadForReversal, CallReverseTransfer
  <2>5. ASSUME NEW d \in Refund, HandlerCrashes(d) PROVE OwnerInv'
    BY <1>1, <2>5 DEF HandlerCrashes
  <2>6. CASE UNCHANGED vars
    BY <1>1, <2>6 DEF vars
  <2>7. QED
    BY <1>2, <1>3, <1>4, <1>5, <1>6, <1>7, <1>8, <1>9, <1>10, <2>1, <2>2, <2>3, <2>4,
       <2>5, <2>6 DEF Next, RunStep

\* A booking is never in two live payouts, in every mode: whichever runs overlap,
\* wherever they crash, whatever Stripe answers and whatever refunds write.
THEOREM ClaimedOnceAlways == Spec => []ClaimedOnce
<1>1. OwnerInv => ClaimedOnce
  BY DEF OwnerInv
<1>2. QED BY <1>1, TypeCorrect, OwnerInit, OwnerStep, PTL DEF Spec

-----------------------------------------------------------------------------
(* What Stripe holds, when its answers arrive.  Only then does a refusal mean *)
(* that there is no transfer, and a row that failed one that paid nobody.     *)

TransfersKnown ==
    /\ \A k \in accepted : payout[k] \in {"PENDING", "SENT"}
    /\ \A k \in Batch : payout[k] = "SENT" => k \in accepted
    /\ \A r \in Run : Busy(r) => (current[r] \in accepted <=> runPc[r] = "sent")

LEMMA KnownInit == Init => TransfersKnown
  BY DEF Init, TransfersKnown, Busy

LEMMA KnownStep == ASSUME ConstantsAssumption, "lost" \notin StripeAnswer,
                          TypeOK, LocalsOK, OwnerInv, TransfersKnown, [Next]_vars
                   PROVE  TransfersKnown'
<1> USE DEF TransfersKnown, Busy, TypeOK, LocalsOK, ledgerVars, runVars, stripeVars
<1>1. CASE UNCHANGED <<payout, runPc, current, accepted>>
  BY <1>1
<1>2. ASSUME NEW r \in Run, ReadEarnings(r) PROVE TransfersKnown'
  <2>1. /\ runPc[r] = "idle" /\ runPc' = [runPc EXCEPT ![r] = "accounts"]
        /\ UNCHANGED <<payout, current, accepted>>
    BY <1>2 DEF ReadEarnings
  <2>2. QED BY <2>1
<1>3. ASSUME NEW r \in Run, ReadAccounts(r) PROVE TransfersKnown'
  BY <1>3 DEF ReadAccounts
<1>4. ASSUME NEW r \in Run, Claim(r) PROVE TransfersKnown'
  <2>1. PICK k \in plan[r] : Claim(r)!(k)
    BY ONLY <1>4 DEF Claim
  <2>2. k \in Batch /\ payout[k] = "NONE" /\ k \notin accepted
    <3>1. k \in Batch
      OBVIOUS
    <3>2. payout[k] = "NONE"
      BY ONLY <2>1 DEF Claimable
    <3>3. QED BY ONLY TransfersKnown, <3>1, <3>2 DEF TransfersKnown
  <2>3. /\ payout' = [payout EXCEPT ![k] = "PENDING"]
        /\ runPc' = [runPc EXCEPT ![r] = "transfer"] /\ current' = [current EXCEPT ![r] = k]
        /\ accepted' = accepted
    BY ONLY <2>1 DEF stripeVars
  <2>4. \A j \in accepted : payout'[j] \in {"PENDING", "SENT"}
    BY <2>2, <2>3
  <2>5. \A q \in Run : Busy(q)' => (current'[q] \in accepted' <=> runPc'[q] = "sent")
    BY <2>2, <2>3
  <2>6. QED BY <2>2, <2>3, <2>4, <2>5
<1>5. ASSUME NEW r \in Run, Transfer(r) PROVE TransfersKnown'
  <2>1. PICK answer \in StripeAnswer : Transfer(r)!(answer)
    BY ONLY <1>5 DEF Transfer
  <2>2. current[r] \in Batch /\ payout[current[r]] = "PENDING"
    BY <2>1 DEF OwnerInv, RunsOwnPending
  <2>3. CASE answer = "accepted"
    BY <2>1, <2>2, <2>3 DEF OwnerInv, RunsOwnPending
  <2>4. CASE answer = "refused"
    BY <2>1, <2>2, <2>4
  <2>5. QED BY <2>3, <2>4 DEF ConstantsAssumption
<1>6. ASSUME NEW r \in Run, RecordSent(r) PROVE TransfersKnown'
  BY <1>6 DEF RecordSent, OwnerInv, RunsOwnPending
<1>7. ASSUME NEW r \in Run, RecordFailed(r) PROVE TransfersKnown'
  BY <1>7 DEF RecordFailed, OwnerInv, RunsOwnPending
<1>8. ASSUME NEW r \in Run, EndRun(r) PROVE TransfersKnown'
  BY <1>8 DEF EndRun
<1>9. ASSUME NEW r \in Run, RunCrashes(r) PROVE TransfersKnown'
  <2>1. /\ runPc' = [runPc EXCEPT ![r] = "idle"]
        /\ current' = [current EXCEPT ![r] = NoPayout]
        /\ UNCHANGED <<payout, accepted>>
    BY <1>9 DEF RunCrashes
  <2>2. QED BY <2>1
<1>10. QED
  <2>1. ASSUME NEW o \in Org, NEW s \in {"restricted", "enabled"}, AccountUpdated(o, s)
        PROVE  TransfersKnown'
    BY <1>1, <2>1 DEF AccountUpdated
  <2>2. ASSUME NEW b \in Booking, HoldElapses(b) \/ RecordEarning(b) PROVE TransfersKnown'
    BY <1>1, <2>2 DEF HoldElapses, RecordEarning
  <2>3. ASSUME NEW r \in Run, ClaimFails(r) PROVE TransfersKnown'
    BY <1>1, <2>3 DEF ClaimFails
  <2>4. ASSUME NEW d \in Refund, RefundStep(d) PROVE TransfersKnown'
    BY <1>1, <2>4 DEF RefundStep, ReadForReversal, CallReverseTransfer, WriteReversed
  <2>5. ASSUME NEW d \in Refund, HandlerCrashes(d) PROVE TransfersKnown'
    BY <1>1, <2>5 DEF HandlerCrashes
  <2>6. CASE UNCHANGED vars
    BY <1>1, <2>6 DEF vars
  <2>7. QED
    BY <1>2, <1>3, <1>4, <1>5, <1>6, <1>7, <1>8, <1>9, <2>1, <2>2, <2>3, <2>4,
       <2>5, <2>6 DEF Next, RunStep

LEMMA KnownImplies == ASSUME TypeOK, OwnerInv, TransfersKnown
                      PROVE  PaidOnce /\ SentIsSettled
<1> USE DEF OwnerInv, TransfersKnown, TypeOK
<1>1. \A k \in accepted : \A b \in k : b \in Booking /\ payoutOf[b] = k /\ k # NoPayout
  BY DEF ClaimedOnce, Live, Batch, NoPayout
<1>2. PaidOnce
  BY <1>1 DEF PaidOnce
<1>3. SentIsSettled
  BY <1>1 DEF SentIsSettled, EarningNamesLive, Owed
<1>4. QED BY <1>2, <1>3

LEMMA KnownAlways == ASSUME ConstantsAssumption, "lost" \notin StripeAnswer
                     PROVE  Spec => [](TypeOK /\ LocalsOK /\ OwnerInv /\ TransfersKnown)
<1>1. QED BY TypeCorrect, OwnerInit, OwnerStep, KnownInit, KnownStep, PTL DEF Spec

\* When Stripe's answers arrive, it never holds two transfers for one booking: with
\* crashes, refusals, overlapping runs and refunds.
THEOREM PaidOnceAlways == ASSUME ConstantsAssumption, "lost" \notin StripeAnswer
                          PROVE  Spec => []PaidOnce
<1>1. QED BY KnownAlways, KnownImplies, PTL

\* When Stripe's answers arrive, what it has transferred is owed to nobody any more, and
\* what the ledger marks SENT it has transferred.
THEOREM SentIsSettledAlways == ASSUME ConstantsAssumption, "lost" \notin StripeAnswer
                               PROVE  Spec => []SentIsSettled
<1>1. QED BY KnownAlways, KnownImplies, PTL

-----------------------------------------------------------------------------
(* What Stripe holds, whatever becomes of its answers. *)

\* No transfer without a row, and no row is SENT, or about to be, without a transfer.
TransfersRecorded ==
    /\ \A k \in accepted : payout[k] # "NONE"
    /\ \A k \in Batch : payout[k] = "SENT" => k \in accepted
    /\ \A r \in Run : runPc[r] = "sent" => current[r] \in accepted

\* Two transfers for one booking, if there ever are, show in the ledger: one of their payouts
\* is FAILED.
TwiceIsFailed ==
    \A j, k \in accepted :
        j # k /\ payout[j] # "FAILED" /\ payout[k] # "FAILED" => j \cap k = {}

LEMMA RecordedStep == ASSUME ConstantsAssumption, TypeOK, LocalsOK, OwnerInv, TransfersRecorded,
                             [Next]_vars
                      PROVE  TransfersRecorded'
<1> USE DEF TransfersRecorded, TypeOK, LocalsOK, Busy, ledgerVars, runVars, stripeVars
<1>1. CASE UNCHANGED <<payout, runPc, current, accepted>>
  BY <1>1
<1>2. ASSUME NEW r \in Run, ReadEarnings(r) \/ ReadAccounts(r) PROVE TransfersRecorded'
  BY <1>2 DEF ReadEarnings, ReadAccounts
<1>3. ASSUME NEW r \in Run, Claim(r) PROVE TransfersRecorded'
  <2>1. PICK k \in plan[r] : Claim(r)!(k)
    BY ONLY <1>3 DEF Claim
  <2>2. k \in Batch /\ payout[k] = "NONE" /\ k \notin accepted
    BY <2>1 DEF Claimable
  <2>3. QED BY <2>1, <2>2
<1>4. ASSUME NEW r \in Run, Transfer(r) PROVE TransfersRecorded'
  <2>1. PICK answer \in StripeAnswer : Transfer(r)!(answer)
    BY ONLY <1>4 DEF Transfer
  <2>2. current[r] \in Batch /\ payout[current[r]] = "PENDING"
    BY <2>1 DEF OwnerInv, RunsOwnPending
  <2>3. accepted' \in {accepted, accepted \cup {current[r]}} /\ (answer = "accepted" => current[r] \in accepted')
    BY <2>1
  <2>4. QED BY <2>1, <2>2, <2>3
<1>5. ASSUME NEW r \in Run, RecordSent(r) \/ RecordFailed(r) PROVE TransfersRecorded'
  <2>1. current[r] \in Batch /\ accepted' = accepted
    BY <1>5 DEF RecordSent, RecordFailed
  <2>2. \A q \in Run : runPc'[q] = "sent" => runPc[q] = "sent" /\ current'[q] = current[q]
    BY <1>5 DEF RecordSent, RecordFailed
  <2>3. CASE RecordSent(r)
    BY <2>1, <2>2, <2>3 DEF RecordSent
  <2>4. CASE RecordFailed(r)
    BY <2>1, <2>2, <2>4 DEF RecordFailed
  <2>5. QED BY <1>5, <2>3, <2>4
<1>6. ASSUME NEW r \in Run, EndRun(r) \/ RunCrashes(r) PROVE TransfersRecorded'
  BY <1>6 DEF EndRun, RunCrashes
<1>7. QED
  <2>1. ASSUME NEW o \in Org, NEW s \in {"restricted", "enabled"}, AccountUpdated(o, s)
        PROVE  TransfersRecorded'
    BY <1>1, <2>1 DEF AccountUpdated
  <2>2. ASSUME NEW b \in Booking, HoldElapses(b) \/ RecordEarning(b) PROVE TransfersRecorded'
    BY <1>1, <2>2 DEF HoldElapses, RecordEarning
  <2>3. ASSUME NEW r \in Run, ClaimFails(r) PROVE TransfersRecorded'
    BY <1>1, <2>3 DEF ClaimFails
  <2>4. ASSUME NEW d \in Refund, RefundStep(d) \/ HandlerCrashes(d) PROVE TransfersRecorded'
    BY <1>1, <2>4 DEF RefundStep, ReadForReversal, CallReverseTransfer, WriteReversed, HandlerCrashes
  <2>5. CASE UNCHANGED vars
    BY <1>1, <2>5 DEF vars
  <2>6. QED BY <1>2, <1>3, <1>4, <1>5, <1>6, <2>1, <2>2, <2>3, <2>4, <2>5 DEF Next, RunStep

\* With answers lost as well: a booking is paid by two transfers only where one of the two
\* payouts is FAILED, the row of a transfer whose answer never arrived; and a payout that is
\* SENT has its transfer.
THEOREM TwiceIsFailedAlways ==
  ASSUME ConstantsAssumption
  PROVE  Spec => [](TwiceIsFailed /\ \A k \in Batch : payout[k] = "SENT" => k \in accepted)
<1>1. Init => TransfersRecorded
  BY DEF Init, TransfersRecorded
<1>2. ASSUME TypeOK, OwnerInv, TransfersRecorded
      PROVE  TwiceIsFailed /\ \A k \in Batch : payout[k] = "SENT" => k \in accepted
  <2>1. \A k \in accepted : k \in Batch /\ payout[k] \in PayoutStatus \cup {"NONE"}
    BY <1>2 DEF TypeOK
  <2>2. \A k \in accepted : payout[k] # "FAILED" => k \in Live
    BY <1>2, <2>1 DEF TransfersRecorded, Live, PayoutStatus
  <2>3. QED BY <1>2, <2>2 DEF OwnerInv, ClaimedOnce, TransfersRecorded, TwiceIsFailed
<1>3. QED BY TypeCorrect, OwnerInit, OwnerStep, RecordedStep, <1>1, <1>2, PTL DEF Spec

-----------------------------------------------------------------------------
(* What was planned was due, and stays so: holds do not come back and rows are *)
(* not deleted.  The minimum is compared only after the accounts are read.     *)

WasDue(k) ==
    /\ \A a, b \in k : SameTransfer(a, b)
    /\ k \subseteq elapsed
    /\ \A b \in k : earning[b] # "NONE"
PlansWereDue ==
    \A r \in Run : \A k \in plan[r] :
        /\ WasDue(k)
        /\ runPc[r] # "accounts" => Amount(k) >= MinimumPayout
DueInv == PlansWereDue /\ PayoutsWereDue

LEMMA DueInit == Init => DueInv
  BY DEF Init, DueInv, PlansWereDue, PayoutsWereDue

\* Nothing that was due stops having been due.
LEMMA DueGrows == ASSUME TypeOK, [Next]_vars, NEW k \in Batch, WasDue(k)
                  PROVE  WasDue(k)'
<1> USE DEF TypeOK, WasDue, ledgerVars, SameTransfer
<1>1. elapsed \subseteq elapsed'
  BY DEF Next, vars, runVars, stripeVars, AccountUpdated, HoldElapses, RecordEarning, RunStep,
         ReadEarnings, ReadAccounts, Claim, ClaimFails, Transfer, RecordSent, RecordFailed,
         EndRun, RunCrashes, RefundStep, ReadForReversal, CallReverseTransfer, WriteReversed,
         HandlerCrashes
<1>2. \A b \in Booking : earning[b] # "NONE" => earning'[b] # "NONE"
  BY DEF Next, vars, runVars, stripeVars, AccountUpdated, HoldElapses, RecordEarning, RunStep,
         ReadEarnings, ReadAccounts, Claim, ClaimFails, Transfer, RecordSent, RecordFailed,
         EndRun, RunCrashes, RefundStep, ReadForReversal, CallReverseTransfer, WriteReversed,
         HandlerCrashes
<1>3. QED BY <1>1, <1>2 DEF Batch

LEMMA DuePlans == ASSUME TypeOK, DueInv, [Next]_vars
                  PROVE  PlansWereDue'
<1> DEFINE Planned(r, k) == WasDue(k) /\ (runPc[r] # "accounts" => Amount(k) >= MinimumPayout)
<1>1. \A r \in Run : \A k \in plan[r] : k \in Batch /\ Planned(r, k) /\ WasDue(k)'
  BY DueGrows DEF DueInv, PlansWereDue, TypeOK
<1>2. SUFFICES ASSUME NEW q \in Run, NEW k \in plan'[q]
               PROVE  WasDue(k)' /\ (runPc'[q] # "accounts" => Amount(k) >= MinimumPayout)
  BY DEF PlansWereDue
<1>3. CASE plan'[q] \subseteq plan[q] /\ (runPc'[q] # "accounts" => runPc[q] # "accounts")
  BY <1>1, <1>3
<1>4. CASE ReadEarnings(q)
  <2>1. k \in DueBatches /\ runPc'[q] = "accounts"
    BY <1>4 DEF ReadEarnings, TypeOK
  <2>2. k \in Batch /\ WasDue(k)
    BY <2>1 DEF DueBatches, Due, WasDue, SameTransfer, Batch, TypeOK, Owed
  <2>3. QED BY <2>1, <2>2, DueGrows
<1>5. CASE ReadAccounts(q)
  <2>1. k \in plan[q] /\ Sendable(k)
    BY <1>5 DEF ReadAccounts, TypeOK
  <2>2. QED BY <2>1, <1>1 DEF Sendable
<1>6. ASSUME ~ ReadEarnings(q), ~ ReadAccounts(q)
      PROVE  plan'[q] \subseteq plan[q] /\ (runPc'[q] # "accounts" => runPc[q] # "accounts")
  BY <1>6 DEF Next, vars, runVars, TypeOK, AccountUpdated, HoldElapses, RecordEarning, RunStep,
         ReadEarnings, ReadAccounts, Claim, ClaimFails, Transfer, RecordSent, RecordFailed,
         EndRun, RunCrashes, RefundStep, ReadForReversal, CallReverseTransfer, WriteReversed,
         HandlerCrashes
<1>7. QED BY <1>3, <1>4, <1>5, <1>6

LEMMA DuePayouts == ASSUME TypeOK, LocalsOK, OwnerInv, DueInv, [Next]_vars
                    PROVE  PayoutsWereDue'
<1>1. ASSUME NEW k \in Batch, WasDue(k), Amount(k) >= MinimumPayout
      PROVE  WasDue(k)' /\ Amount(k)' >= MinimumPayout
  BY <1>1, DueGrows
<1>2. \A k \in Batch : payout[k] # "NONE" => WasDue(k) /\ Amount(k) >= MinimumPayout
  BY DEF DueInv, PayoutsWereDue, WasDue
<1>3. ASSUME NEW r \in Run, Claim(r)
      PROVE  \A k \in Batch : payout'[k] # "NONE" => WasDue(k) /\ Amount(k) >= MinimumPayout
  <2>1. PICK k \in plan[r] : Claim(r)!(k)
    BY ONLY <1>3 DEF Claim
  <2>2. WasDue(k) /\ Amount(k) >= MinimumPayout
    BY <2>1 DEF DueInv, PlansWereDue
  <2>3. \A j \in Batch : j # k => payout'[j] = payout[j]
    BY <2>1 DEF TypeOK
  <2>4. QED BY <2>2, <2>3, <1>2
<1>4. ASSUME \A r \in Run : ~ Claim(r)
      PROVE  \A k \in Batch : payout'[k] # "NONE" => payout[k] # "NONE"
  BY <1>4 DEF OwnerInv, RunsOwnPending, Busy, LocalsOK,
         Next, vars, ledgerVars, TypeOK, AccountUpdated, HoldElapses, RecordEarning, RunStep,
         ReadEarnings, ReadAccounts, Claim, ClaimFails, Transfer, RecordSent, RecordFailed,
         EndRun, RunCrashes, RefundStep, ReadForReversal, CallReverseTransfer, WriteReversed,
         HandlerCrashes
<1>5. \A k \in Batch : payout'[k] # "NONE" => WasDue(k)' /\ Amount(k)' >= MinimumPayout
  BY <1>1, <1>2, <1>3, <1>4
<1>6. QED BY <1>5 DEF PayoutsWereDue, WasDue

\* Every payout row was due when it was written and still is, in every mode.
THEOREM PayoutsWereDueAlways == Spec => []PayoutsWereDue
<1>1. DueInv => PayoutsWereDue
  BY DEF DueInv
<1>2. TypeOK /\ LocalsOK /\ OwnerInv /\ DueInv /\ [Next]_vars => DueInv'
  BY DuePlans, DuePayouts DEF DueInv
<1>3. QED BY <1>1, <1>2, DueInit, TypeCorrect, OwnerInit, OwnerStep, PTL DEF Spec

-----------------------------------------------------------------------------
(* The ledger implements PayOnce. *)

HandlersHaveEarning ==
    \A d \in Refund : handler[d].pc # "idle" => earning[handler[d].booking] # "NONE"

\* An earning that was recorded stays recorded.
LEMMA EarningsStay == ASSUME TypeOK, [Next]_vars, NEW b \in Booking, earning[b] # "NONE"
                      PROVE  earning'[b] # "NONE"
  BY DEF Next, vars, ledgerVars, runVars, stripeVars, TypeOK, AccountUpdated, HoldElapses,
         RecordEarning, RunStep, ReadEarnings, ReadAccounts, Claim, ClaimFails, Transfer,
         RecordSent, RecordFailed, EndRun, RunCrashes, RefundStep, ReadForReversal,
         CallReverseTransfer, WriteReversed, HandlerCrashes

LEMMA HandlersInit == Init => HandlersHaveEarning
  BY DEF Init, HandlersHaveEarning, Idle

LEMMA HandlersStep == ASSUME TypeOK, LocalsOK, HandlersHaveEarning, [Next]_vars
                      PROVE  HandlersHaveEarning'
<1> SUFFICES ASSUME NEW d \in Refund, handler'[d].pc # "idle"
             PROVE  earning'[handler'[d].booking] # "NONE"
  BY DEF HandlersHaveEarning
<1>1. \A b \in Booking : earning[b] # "NONE" => earning'[b] # "NONE"
  BY EarningsStay
<1>2. \/ handler'[d].booking = handler[d].booking /\ handler[d].pc # "idle"
      \/ \E b \in Booking : ReadForReversal(d, b)
  BY DEF Next, vars, ledgerVars, runVars, stripeVars, TypeOK, AccountUpdated, HoldElapses,
         RecordEarning, RunStep, ReadEarnings, ReadAccounts, Claim, ClaimFails, Transfer,
         RecordSent, RecordFailed, EndRun, RunCrashes, RefundStep, ReadForReversal,
         CallReverseTransfer, WriteReversed, HandlerCrashes, Idle, Handler
<1>3. CASE handler'[d].booking = handler[d].booking /\ handler[d].pc # "idle"
  BY <1>1, <1>3 DEF HandlersHaveEarning, LocalsOK
<1>4. ASSUME NEW b \in Booking, ReadForReversal(d, b)
      PROVE  earning'[handler'[d].booking] # "NONE"
  BY <1>4 DEF ReadForReversal, ledgerVars, TypeOK, Owed
<1>5. QED BY <1>2, <1>3, <1>4

LEMMA PromiseStep == ASSUME ConstantsAssumption, "lost" \notin StripeAnswer,
                            TypeOK, LocalsOK, OwnerInv, TransfersKnown, PayoutsWereDue,
                            HandlersHaveEarning, [Next]_vars
                     PROVE  [Promise!Next]_(Promise!vars)
<1> USE DEF Promise!Next, Promise!vars
<1>1. ASSUME NEW b \in Booking, HoldElapses(b) PROVE Promise!HoldElapses(b)
  <2>1. UNCHANGED <<Earned, accepted>>
    BY <1>1 DEF HoldElapses, stripeVars, Earned
  <2>2. QED BY <1>1, <2>1 DEF HoldElapses, Promise!HoldElapses
<1>2. ASSUME NEW b \in Booking, RecordEarning(b) PROVE Promise!Earn(b)
  <2>1. Earned' = Earned \cup {b}
    BY <1>2 DEF RecordEarning, Earned, TypeOK
  <2>2. QED BY <1>2, <2>1 DEF RecordEarning, stripeVars, Promise!Earn
<1>3. ASSUME NEW r \in Run, Transfer(r) PROVE [Promise!Next]_(Promise!vars)
  <2>1. PICK answer \in StripeAnswer : Transfer(r)!(answer)
    BY ONLY <1>3 DEF Transfer
  <2> PICK k : k = current[r]
    OBVIOUS
  <2>2. UNCHANGED <<elapsed, Earned>>
    BY <2>1 DEF ledgerVars, Earned
  <2>3. CASE accepted' = accepted
    BY <2>2, <2>3
  <2>4. CASE accepted' = accepted \cup {k} /\ answer = "accepted"
    <3>1. k \in Batch /\ payout[k] = "PENDING" /\ k \notin accepted
      BY <2>1 DEF LocalsOK, OwnerInv, RunsOwnPending, TransfersKnown, Busy
    <3>2. k \subseteq Earned \cap elapsed
      BY <3>1 DEF PayoutsWereDue, Earned, Batch
    <3>3. ASSUME NEW j \in accepted, NEW b \in k, b \in j PROVE FALSE
      <4>1. j \in Batch /\ payout[j] \in {"PENDING", "SENT"} /\ j # k
        BY <3>1 DEF TransfersKnown, TypeOK
      <4>2. payoutOf[b] = k /\ payoutOf[b] = j
        BY <3>1, <3>3, <4>1 DEF OwnerInv, ClaimedOnce, Live
      <4>3. QED BY <4>1, <4>2
    <3>4. k \subseteq (Earned \cap elapsed) \ UNION accepted
      BY <3>2, <3>3
    <3>5. Promise!Send(k)
      <4>1. elapsed' = elapsed /\ Earned' = Earned
        BY <2>2
      <4>2. QED BY ONLY <2>4, <3>1, <3>4, <4>1 DEF Promise!Send, Batch
    <3>6. k \in SUBSET Booking
      BY <3>1 DEF Batch
    <3>7. QED BY <3>5, <3>6
  <2>5. QED BY <2>1, <2>3, <2>4 DEF ConstantsAssumption
<1>4. ASSUME UNCHANGED <<elapsed, accepted>>,
             \A b \in Booking : earning[b] = "NONE" <=> earning'[b] = "NONE"
      PROVE  UNCHANGED Promise!vars
  <2>1. Earned' = Earned
    BY <1>4 DEF Earned
  <2>2. QED BY <1>4, <2>1
<1>5. ASSUME ~ \E b \in Booking : HoldElapses(b) \/ RecordEarning(b),
             ~ \E r \in Run : Transfer(r)
      PROVE  /\ UNCHANGED <<elapsed, accepted>>
             /\ \A b \in Booking : earning[b] = "NONE" <=> earning'[b] = "NONE"
  <2>1. UNCHANGED <<elapsed, accepted>>
    BY <1>5 DEF Next, vars, ledgerVars, runVars, stripeVars, AccountUpdated, RunStep,
       ReadEarnings, ReadAccounts, Claim, ClaimFails, RecordSent, RecordFailed, EndRun,
       RunCrashes, RefundStep, ReadForReversal, CallReverseTransfer, WriteReversed,
       HandlerCrashes
  <2>2. \/ UNCHANGED earning
        \/ \E r \in Run : Claim(r) \/ RecordFailed(r)
        \/ \E d \in Refund : WriteReversed(d)
    BY <1>5 DEF Next, vars, ledgerVars, runVars, stripeVars, AccountUpdated, RunStep,
       ReadEarnings, ReadAccounts, ClaimFails, RecordSent, EndRun, RunCrashes, RefundStep,
       ReadForReversal, CallReverseTransfer, HandlerCrashes
  <2>3. ASSUME NEW r \in Run, Claim(r)
        PROVE  \A b \in Booking : earning[b] = "NONE" <=> earning'[b] = "NONE"
    <3>1. PICK k \in plan[r] : Claim(r)!(k)
      BY ONLY <2>3 DEF Claim
    <3>2. \A b \in k : earning[b] \in {"HELD", "PAYABLE"}
      BY ONLY <3>1 DEF Claimable, Owed
    <3>3. \A b \in Booking : earning'[b] = IF b \in k THEN "PAID" ELSE earning[b]
      BY <3>1
    <3>4. QED BY <3>2, <3>3
  <2>4. ASSUME NEW r \in Run, RecordFailed(r)
        PROVE  \A b \in Booking : earning[b] = "NONE" <=> earning'[b] = "NONE"
    <3> DEFINE k == current[r]
    <3>1. k # NoPayout
      BY <2>4 DEF RecordFailed, LocalsOK, Busy, Batch, NoPayout
    <3>2. \A b \in Booking : payoutOf[b] = k => earning[b] # "NONE"
      BY <3>1 DEF OwnerInv, EarningNamesLive
    <3>3. \A b \in Booking :
             earning'[b] = IF payoutOf[b] = k THEN "PAYABLE" ELSE earning[b]
      BY ONLY <2>4 DEF RecordFailed
    <3>4. QED BY ONLY <3>2, <3>3
  <2>5. ASSUME NEW d \in Refund, WriteReversed(d)
        PROVE  \A b \in Booking : earning[b] = "NONE" <=> earning'[b] = "NONE"
    <3> DEFINE c == handler[d].booking
    <3>0. /\ handler[d].pc # "idle"
          /\ earning' = [earning EXCEPT ![c] = "REVERSED"]
      BY ONLY <2>5 DEF WriteReversed
    <3>1. c \in Booking /\ earning[c] # "NONE"
      BY <3>0 DEF HandlersHaveEarning, LocalsOK
    <3>2. \A b \in Booking : earning'[b] = IF b = c THEN "REVERSED" ELSE earning[b]
      BY <3>0, <3>1 DEF TypeOK
    <3>3. QED BY ONLY <3>1, <3>2
  <2>6. QED BY <2>1, <2>2, <2>3, <2>4, <2>5
<1>6. CASE \E b \in Booking : HoldElapses(b) \/ RecordEarning(b)
  BY <1>1, <1>2, <1>6
<1>7. CASE \E r \in Run : Transfer(r)
  BY <1>3, <1>7
<1>8. QED
  <2>1. SUFFICES ASSUME ~ \E b \in Booking : HoldElapses(b) \/ RecordEarning(b),
                        ~ \E r \in Run : Transfer(r)
                 PROVE  UNCHANGED Promise!vars
    BY <1>6, <1>7
  <2>2. QED BY ONLY <1>4, <1>5, <2>1

\* When Stripe's answers arrive, the ledger of payouts.ts implements PayOnce: every step
\* records an earning, lets a hold run out, sends money that is due and was never sent,
\* or changes nothing a host or a guest can see.
THEOREM LedgerKeepsPromise == ASSUME ConstantsAssumption, "lost" \notin StripeAnswer
                              PROVE  Spec => PromiseKept
<1>1. Init => Promise!Init
  BY DEF Init, Promise!Init, Earned
<1>2. TypeOK /\ LocalsOK /\ HandlersHaveEarning /\ [Next]_vars => HandlersHaveEarning'
  BY HandlersStep
<1>3. Spec => []HandlersHaveEarning
  BY <1>2, HandlersInit, TypeCorrect, PTL DEF Spec
<1>4. QED
  BY <1>1, <1>3, KnownAlways, PayoutsWereDueAlways, PromiseStep, PTL
     DEF Spec, PromiseKept, Promise!Spec
-----------------------------------------------------------------------------
(* How payouts end. *)

LEMMA EndStep == ASSUME TypeOK, LocalsOK, OwnerInv, [Next]_vars, NEW k \in Batch
                 PROVE  /\ payout[k] \in {"SENT", "FAILED"} => payout'[k] = payout[k]
                        /\ payout[k] = "PENDING" /\ payout'[k] = "FAILED" =>
                              \A b \in k : payoutOf'[b] # k /\ earning'[b] \in Owed
<1> USE DEF TypeOK
<1>1. CASE UNCHANGED payout
  BY <1>1
<1>2. ASSUME NEW r \in Run, Claim(r)
      PROVE  payout'[k] = payout[k] \/ (payout[k] = "NONE" /\ payout'[k] = "PENDING")
  BY <1>2 DEF Claim, Claimable
<1>3. ASSUME NEW r \in Run, RecordSent(r)
      PROVE  payout'[k] = payout[k] \/ (payout[k] = "PENDING" /\ payout'[k] = "SENT")
  BY <1>3 DEF RecordSent, LocalsOK, OwnerInv, RunsOwnPending, Busy
<1>4. ASSUME NEW r \in Run, RecordFailed(r)
      PROVE  \/ payout'[k] = payout[k] /\ payout[k] # "PENDING"
             \/ payout'[k] = payout[k] /\ payout'[k] # "FAILED"
             \/ /\ payout[k] = "PENDING"
                /\ \A b \in k : payoutOf'[b] # k /\ earning'[b] \in Owed
  <2>1. current[r] \in Batch /\ payout[current[r]] = "PENDING"
    BY <1>4 DEF RecordFailed, LocalsOK, OwnerInv, RunsOwnPending, Busy
  <2>2. CASE k # current[r]
    BY <1>4, <2>1, <2>2 DEF RecordFailed
  <2>3. CASE k = current[r]
    <3>1. \A b \in k : b \in Booking /\ payoutOf[b] = k
      BY <2>1, <2>3 DEF OwnerInv, ClaimedOnce, Live, Batch
    <3>2. \A b \in k : payoutOf'[b] = NoPayout /\ earning'[b] = "PAYABLE"
      BY <1>4, <2>3, <3>1 DEF RecordFailed
    <3>3. k # NoPayout
      BY DEF Batch, NoPayout
    <3>4. QED BY <2>1, <2>3, <3>2, <3>3 DEF Owed
  <2>4. QED BY <2>2, <2>3
<1>5. \/ UNCHANGED payout
      \/ \E r \in Run : Claim(r) \/ RecordSent(r) \/ RecordFailed(r)
  BY DEF Next, vars, ledgerVars, AccountUpdated, HoldElapses, RecordEarning, RunStep,
     ReadEarnings, ReadAccounts, ClaimFails, Transfer, EndRun, RunCrashes, RefundStep,
     ReadForReversal, CallReverseTransfer, WriteReversed, HandlerCrashes
<1>6. QED BY <1>1, <1>2, <1>3, <1>4, <1>5

\* A payout that has ended is never written again, and one that fails gives back all it
\* had claimed, in every mode: lost answers, crashes and refunds in between included.
THEOREM PayoutsEndOnceAlways == Spec => PayoutsEndOnce
<1>1. TypeOK /\ LocalsOK /\ OwnerInv /\ [Next]_vars =>
        [ \A k \in Batch :
            /\ payout[k] \in {"SENT", "FAILED"} => payout'[k] = payout[k]
            /\ payout[k] = "PENDING" /\ payout'[k] = "FAILED" =>
                  \A b \in k : payoutOf'[b] # k /\ earning'[b] \in Owed
        ]_vars
  BY EndStep
<1>2. QED BY <1>1, TypeCorrect, OwnerInit, OwnerStep, PTL DEF Spec, PayoutsEndOnce

-----------------------------------------------------------------------------
(* What is taken back.  A handler that is about to reverse a transfer has read it off *)
(* the earning's own payout, and one about to write a clawback has reversed.  What    *)
(* keeps a second reversal away is who is busy with the booking: while it is          *)
(* uncrossed, a clawback is alone, and once it is written the earning is REVERSED,    *)
(* which no run undoes because its payout is SENT.                                    *)

NamesItsBatch == \A b \in Booking : payoutOf[b] # NoPayout => b \in payoutOf[b]
ReversalsOK ==
    \A d \in Refund :
        /\ handler[d].pc = "reverse" => handler[d].booking \in handler[d].transfer
        /\ handler[d].pc = "write" /\ handler[d].transfer # NoPayout =>
              reversals[handler[d].booking] > 0
Backed ==
    \A b \in Booking :
        /\ reversals[b] > 0 => \E k \in accepted : b \in k
        /\ clawedBack[b] => reversals[b] > 0
BackedInv == Backed /\ NamesItsBatch /\ ReversalsOK

TakesBack(d, b) == Handles(d, b) /\ handler[d].transfer # NoPayout
Alone(b) == \A d, e \in Refund : TakesBack(d, b) /\ Handles(e, b) => d = e
ToTakeBack(b) == \A d \in Refund : TakesBack(d, b) =>
                    handler[d].pc = "reverse" /\ earning[b] = "PAID" /\ HasTransfer(b)
ToWrite(b) == \E d \in Refund : TakesBack(d, b) /\ handler[d].pc = "write"
Written(b) == /\ earning[b] = "REVERSED" /\ clawedBack[b]
              /\ \A d \in Refund : ~ Handles(d, b)
Uncrossed(b) ==
    /\ Alone(b)
    /\ \/ reversals[b] = 0 /\ ToTakeBack(b)
       \/ reversals[b] = 1 /\ HasTransfer(b) /\ (ToWrite(b) \/ Written(b))
UncrossedOK == \A b \in Booking : b \notin crossed => Uncrossed(b)
ClawInv == BackedInv /\ UncrossedOK

LEMMA ClawInit == Init => ClawInv
  BY DEF Init, ClawInv, BackedInv, Backed, NamesItsBatch, ReversalsOK, UncrossedOK, Uncrossed,
         Alone, ToTakeBack, TakesBack, Handles, Idle

LEMMA BackedStep == ASSUME TypeOK, LocalsOK, BackedInv, [Next]_vars
                    PROVE  BackedInv'
<1> USE DEF TypeOK, ledgerVars, runVars, stripeVars
<1>1. accepted \subseteq accepted'
  BY DEF Next, vars, AccountUpdated, HoldElapses, RecordEarning, RunStep,
     ReadEarnings, ReadAccounts, Claim, ClaimFails, Transfer, RecordSent, RecordFailed,
     EndRun, RunCrashes, RefundStep, ReadForReversal, CallReverseTransfer, WriteReversed,
     HandlerCrashes
<1>2. NamesItsBatch'
  <2>1. ASSUME NEW r \in Run, Claim(r) PROVE NamesItsBatch'
    BY <2>1 DEF Claim, BackedInv, NamesItsBatch
  <2>2. ASSUME NEW r \in Run, RecordFailed(r) PROVE NamesItsBatch'
    BY <2>2 DEF RecordFailed, BackedInv, NamesItsBatch
  <2>3. CASE UNCHANGED payoutOf
    BY <2>3 DEF BackedInv, NamesItsBatch
  <2>4. QED
    BY <2>1, <2>2, <2>3 DEF Next, vars, AccountUpdated, HoldElapses, RecordEarning, RunStep,
       ReadEarnings, ReadAccounts, ClaimFails, Transfer, RecordSent, EndRun, RunCrashes,
       RefundStep, ReadForReversal, CallReverseTransfer, WriteReversed, HandlerCrashes
<1>3. CASE UNCHANGED <<clawedBack, reversals, handler>>
  BY <1>1, <1>2, <1>3 DEF BackedInv, Backed, ReversalsOK
<1>4. ASSUME NEW d \in Refund, NEW b \in Booking, ReadForReversal(d, b)
      PROVE  BackedInv'
  <2>1. PICK h \in Handler :
            /\ handler' = [handler EXCEPT ![d] = h]
            /\ h.booking = b
            /\ \/ h.pc = "write" /\ h.transfer = NoPayout
               \/ h.pc = "reverse" /\ h.transfer = payoutOf[b] /\ payoutOf[b] # NoPayout
    BY ONLY <1>4, TypeOK DEF ReadForReversal, Handler, HasTransfer, NoPayout
  <2>2. ReversalsOK'
    BY <1>4, <2>1 DEF ReadForReversal, BackedInv, ReversalsOK, NamesItsBatch
  <2>3. Backed'
    BY <1>4 DEF ReadForReversal, BackedInv, Backed
  <2>4. QED BY <1>2, <2>2, <2>3 DEF BackedInv
<1>5. ASSUME NEW d \in Refund, CallReverseTransfer(d) PROVE BackedInv'
  <2> DEFINE b == handler[d].booking
             k == handler[d].transfer
  <2>1. PICK answer \in StripeAnswer \cup {"refused"} : CallReverseTransfer(d)!(answer)
    BY ONLY <1>5 DEF CallReverseTransfer
  <2>2. b \in Booking /\ b \in k /\ handler[d].pc = "reverse"
    BY <2>1 DEF LocalsOK, BackedInv, ReversalsOK
  <2>3. answer # "refused" => k \in accepted
    BY ONLY <2>1, Zenon DEF Reversible
  <2>4. \A c \in Booking :
           reversals'[c] = IF c = b /\ answer # "refused" THEN reversals[c] + 1 ELSE reversals[c]
    <3>1. \A c \in Booking : reversals[c] \in Nat
      OBVIOUS
    <3>2. CASE answer = "refused"
      BY <2>1, <3>2
    <3>3. CASE answer # "refused"
      <4>1. reversals' = [reversals EXCEPT ![b] = @ + 1]
        BY <2>1, <3>3
      <4>2. QED BY <2>2, <3>3, <4>1
    <3>4. QED BY <3>2, <3>3
  <2>5. \A c \in Refund : c # d => handler'[c] = handler[c]
    BY <2>1
  <2>6. \/ handler'[d] = Idle
        \/ answer = "accepted" /\ handler'[d].pc = "write" /\ handler'[d].booking = b
    BY <2>1 DEF Handler
  <2>7. Backed'
    BY <1>1, <2>1, <2>2, <2>3, <2>4 DEF BackedInv, Backed
  <2>8. ReversalsOK'
    <3>1. \A c \in Booking : reversals[c] > 0 => reversals'[c] > 0
      BY <2>4
    <3>2. ASSUME NEW c \in Refund, c # d
          PROVE  /\ handler'[c].pc = "reverse" => handler'[c].booking \in handler'[c].transfer
                 /\ handler'[c].pc = "write" /\ handler'[c].transfer # NoPayout =>
                       reversals'[handler'[c].booking] > 0
      BY <2>5, <3>1, <3>2 DEF BackedInv, ReversalsOK, LocalsOK
    <3>3. CASE handler'[d] = Idle
      BY <3>2, <3>3 DEF ReversalsOK, Idle
    <3>4. CASE answer = "accepted" /\ handler'[d].pc = "write" /\ handler'[d].booking = b
      <4>1. reversals'[b] > 0
        BY <2>2, <2>4, <3>4
      <4>2. QED BY <3>2, <3>4, <4>1 DEF ReversalsOK
    <3>5. QED BY <2>6, <3>3, <3>4
  <2>9. QED BY <1>2, <2>7, <2>8 DEF BackedInv
<1>6. ASSUME NEW d \in Refund, WriteReversed(d) PROVE BackedInv'
  <2> DEFINE b == handler[d].booking
  <2>1. b \in Booking /\ (handler[d].transfer # NoPayout => reversals[b] > 0)
    BY <1>6 DEF WriteReversed, LocalsOK, BackedInv, ReversalsOK
  <2>2. \A c \in Booking : clawedBack'[c] =
                              IF c = b THEN handler[d].transfer # NoPayout ELSE clawedBack[c]
    BY <1>6, <2>1 DEF WriteReversed
  <2>3. Backed'
    BY <1>6, <2>1, <2>2 DEF WriteReversed, BackedInv, Backed
  <2>4. ReversalsOK'
    BY <1>6 DEF WriteReversed, BackedInv, ReversalsOK, Idle
  <2>5. QED BY <1>2, <2>3, <2>4 DEF BackedInv
<1>7. ASSUME NEW d \in Refund, HandlerCrashes(d) PROVE BackedInv'
  BY <1>2, <1>7 DEF HandlerCrashes, BackedInv, Backed, ReversalsOK, Idle
<1>8. QED
  <2>1. \/ UNCHANGED <<clawedBack, reversals, handler>>
        \/ \E d \in Refund : RefundStep(d) \/ HandlerCrashes(d)
    BY DEF Next, vars, AccountUpdated, HoldElapses, RecordEarning, RunStep,
       ReadEarnings, ReadAccounts, Claim, ClaimFails, Transfer, RecordSent, RecordFailed,
       EndRun, RunCrashes
  <2>2. QED BY <1>3, <1>4, <1>5, <1>6, <1>7, <2>1 DEF RefundStep

\* What was sent for a booking stays sent, and only a refund's own write moves its earning.
LEMMA SentStays == ASSUME TypeOK, LocalsOK, OwnerInv, [Next]_vars, NEW b \in Booking, HasTransfer(b)
    PROVE  /\ HasTransfer(b)'
           /\ \/ earning'[b] = earning[b]
              \/ \E d \in Refund : WriteReversed(d) /\ handler[d].booking = b
<1> USE DEF TypeOK, ledgerVars, stripeVars
<1>0. /\ payoutOf[b] \in Batch /\ payout[payoutOf[b]] = "SENT"
      /\ earning[b] \in {"PAID", "REVERSED"}
  BY DEF HasTransfer, OwnerInv, EarningNamesLive
<1>1. ASSUME payoutOf'[b] = payoutOf[b], payout'[payoutOf[b]] = "SENT"
      PROVE  HasTransfer(b)'
  BY <1>0, <1>1 DEF HasTransfer
<1>2. ASSUME NEW c \in Booking, RecordEarning(c)
      PROVE  HasTransfer(b)' /\ earning'[b] = earning[b]
  BY <1>0, <1>1, <1>2 DEF RecordEarning
<1>3. ASSUME NEW r \in Run, Claim(r)
      PROVE  HasTransfer(b)' /\ earning'[b] = earning[b]
  <2>1. PICK k \in plan[r] : Claim(r)!(k)
    BY ONLY <1>3 DEF Claim
  <2>2. k \in Batch /\ payout[k] = "NONE" /\ (\A c \in k : earning[c] \in Owed)
    BY <2>1 DEF Claimable
  <2>3. b \notin k /\ payoutOf[b] # k
    BY <1>0, <2>2 DEF Owed
  <2>4. /\ payoutOf'[b] = payoutOf[b] /\ earning'[b] = earning[b]
        /\ payout' = [payout EXCEPT ![k] = "PENDING"]
    BY <2>1, <2>3
  <2>5. payout'[payoutOf[b]] = payout[payoutOf[b]]
    BY <1>0, <2>3, <2>4
  <2>6. QED BY <1>0, <1>1, <2>4, <2>5
<1>4. ASSUME NEW r \in Run, RecordSent(r) \/ RecordFailed(r)
      PROVE  HasTransfer(b)' /\ earning'[b] = earning[b]
  <2>1. current[r] \in Batch /\ payout[current[r]] = "PENDING"
    BY <1>4 DEF RecordSent, RecordFailed, LocalsOK, OwnerInv, RunsOwnPending, Busy
  <2>2. payoutOf[b] # current[r]
    BY <1>0, <2>1
  <2>3. payoutOf'[b] = payoutOf[b] /\ earning'[b] = earning[b]
    BY <1>4, <2>2 DEF RecordSent, RecordFailed
  <2>4. payout'[payoutOf[b]] = payout[payoutOf[b]]
    BY <1>0, <1>4, <2>1, <2>2 DEF RecordSent, RecordFailed
  <2>5. QED BY <1>0, <1>1, <2>3, <2>4
<1>5. ASSUME NEW d \in Refund, WriteReversed(d)
      PROVE  /\ HasTransfer(b)'
             /\ earning'[b] = earning[b] \/ handler[d].booking = b
  BY <1>0, <1>1, <1>5 DEF WriteReversed
<1>6. ASSUME UNCHANGED <<earning, payoutOf, payout>>
      PROVE  HasTransfer(b)' /\ earning'[b] = earning[b]
  BY <1>0, <1>1, <1>6
<1>7. \/ UNCHANGED <<earning, payoutOf, payout>>
      \/ \E c \in Booking : RecordEarning(c)
      \/ \E r \in Run : Claim(r) \/ RecordSent(r) \/ RecordFailed(r)
      \/ \E d \in Refund : WriteReversed(d)
  BY DEF Next, vars, AccountUpdated, HoldElapses, RunStep, ReadEarnings, ReadAccounts,
     ClaimFails, Transfer, EndRun, RunCrashes, RefundStep, ReadForReversal,
     CallReverseTransfer, HandlerCrashes
<1>8. QED BY <1>2, <1>3, <1>4, <1>5, <1>6, <1>7

LEMMA UncrossedStep == ASSUME TypeOK, LocalsOK, OwnerInv, BackedInv, UncrossedOK, [Next]_vars
                       PROVE  UncrossedOK'
<1> SUFFICES ASSUME NEW b \in Booking, b \notin crossed'
             PROVE  Uncrossed(b)'
  BY DEF UncrossedOK
<1> USE DEF TypeOK, ledgerVars, runVars, stripeVars
<1>1. Uncrossed(b)
  <2>1. crossed \subseteq crossed'
    BY DEF Next, vars, AccountUpdated, HoldElapses, RecordEarning, RunStep,
       ReadEarnings, ReadAccounts, Claim, ClaimFails, Transfer, RecordSent, RecordFailed,
       EndRun, RunCrashes, RefundStep, ReadForReversal, CallReverseTransfer, WriteReversed,
       HandlerCrashes, Forgotten
  <2>2. QED BY <2>1 DEF UncrossedOK
<1>2. ASSUME \A e \in Refund : /\ Handles(e, b)' <=> Handles(e, b)
                               /\ Handles(e, b) => handler'[e] = handler[e],
             reversals'[b] = reversals[b], clawedBack'[b] = clawedBack[b],
             ~ \E d \in Refund : WriteReversed(d) /\ handler[d].booking = b
      PROVE  Uncrossed(b)'
  <2>1. HasTransfer(b) => HasTransfer(b)' /\ earning'[b] = earning[b]
    BY <1>2, SentStays
  <2>2. \A e \in Refund : /\ TakesBack(e, b)' <=> TakesBack(e, b)
                          /\ TakesBack(e, b) => handler'[e] = handler[e]
    BY <1>2 DEF TakesBack, Handles
  <2>3. Alone(b)'
    BY <1>1, <1>2, <2>2 DEF Uncrossed, Alone
  <2>4. ToTakeBack(b) => ToTakeBack(b)'
    BY <2>1, <2>2 DEF ToTakeBack
  <2>5. ToWrite(b) => ToWrite(b)'
    BY <2>2 DEF ToWrite
  <2>6. HasTransfer(b) /\ Written(b) => Written(b)'
    BY <1>2, <2>1 DEF Written
  <2>7. QED BY <1>1, <1>2, <2>1, <2>3, <2>4, <2>5, <2>6 DEF Uncrossed
<1>3. ASSUME UNCHANGED <<clawedBack, reversals, handler>>
      PROVE  Uncrossed(b)'
  <2>1. \A d \in Refund : ~ WriteReversed(d)
    BY <1>3 DEF WriteReversed, Idle
  <2>2. QED BY <1>2, <1>3, <2>1 DEF Handles
<1>4. ASSUME NEW d \in Refund, NEW c \in Booking, ReadForReversal(d, c)
      PROVE  Uncrossed(b)'
  <2>1. PICK h \in Handler :
            /\ handler' = [handler EXCEPT ![d] = h]
            /\ h.booking = c /\ h.pc # "idle"
            /\ \/ earning[c] \in Owed /\ h.transfer = NoPayout
               \/ h.pc = "reverse" /\ earning[c] = "PAID" /\ HasTransfer(c)
    BY ONLY <1>4, TypeOK DEF ReadForReversal, Handler, NoPayout, HasTransfer
  <2>2. handler[d].pc = "idle" /\ UNCHANGED <<earning, payoutOf, payout, clawedBack, reversals>>
    BY ONLY <1>4 DEF ReadForReversal, ledgerVars
  <2>3. crossed' = IF Meets(d, c) THEN crossed \cup {c} ELSE crossed
    BY ONLY <1>4 DEF ReadForReversal
  <2>4. /\ handler'[d] = h
        /\ \A e \in Refund : e # d => handler'[e] = handler[e]
    BY <2>1
  <2>5. CASE c # b
    <3>1. \A e \in Refund : ~ WriteReversed(e)
      BY <2>1, <2>2, <2>4 DEF WriteReversed, Idle
    <3>2. QED BY <1>2, <2>1, <2>2, <2>4, <2>5, <3>1 DEF Handles
  <2>6. CASE c = b
    <3>1. ~ Meets(d, b)
      BY <2>3, <2>6
    <3>2. \A e \in Refund \ {d} : Handles(e, b) => handler[e].transfer = NoPayout /\ h.transfer = NoPayout
      BY <2>4, <3>1 DEF Meets
    <3>3. earning[b] # "REVERSED" /\ ~ Handles(d, b)
      BY <2>1, <2>2, <2>6 DEF Handles, Owed
    <3>4. \A e \in Refund : ~ TakesBack(e, b)
      BY <3>2, <3>3 DEF TakesBack
    <3>5. reversals[b] = 0
      BY <1>1, <3>3, <3>4 DEF Uncrossed, ToWrite, Written
    <3>6. \A e \in Refund : e # d => /\ Handles(e, b)' <=> Handles(e, b)
                                     /\ ~ TakesBack(e, b)'
      BY <2>4, <3>4 DEF Handles, TakesBack
    <3>7. TakesBack(d, b)' => h.transfer # NoPayout
      BY <2>4 DEF TakesBack
    <3>8. Alone(b)'
      BY <3>2, <3>6, <3>7 DEF Alone
    <3>9. ToTakeBack(b)'
      <4>1. HasTransfer(b) => HasTransfer(b)'
        BY <2>2 DEF HasTransfer
      <4>2. QED BY <2>1, <2>2, <2>4, <2>6, <3>6, <3>7, <4>1 DEF ToTakeBack
    <3>10. QED BY <2>2, <3>5, <3>8, <3>9 DEF Uncrossed
  <2>7. QED BY <2>5, <2>6
<1>5. ASSUME NEW d \in Refund, CallReverseTransfer(d)
      PROVE  Uncrossed(b)'
  <2> DEFINE c == handler[d].booking
  <2>1. PICK answer \in StripeAnswer \cup {"refused"} : CallReverseTransfer(d)!(answer)
    BY ONLY <1>5 DEF CallReverseTransfer
  <2>2. /\ c \in Booking /\ handler[d].pc = "reverse"
        /\ UNCHANGED <<earning, payoutOf, payout, clawedBack>>
        /\ reversals' = IF answer = "refused" THEN reversals
                                              ELSE [reversals EXCEPT ![c] = @ + 1]
        /\ crossed' = IF answer = "lost" THEN crossed \cup {c} ELSE crossed
    BY <2>1 DEF LocalsOK
  <2>3. handler[d].transfer # NoPayout
    BY <2>2 DEF BackedInv, ReversalsOK, NoPayout
  <2>4. \A e \in Refund : e # d => handler'[e] = handler[e]
    BY <2>1
  <2>5. \/ handler'[d] = Idle /\ answer # "accepted"
        \/ /\ answer = "accepted" /\ handler'[d].pc = "write" /\ handler'[d].booking = c
           /\ handler'[d].transfer = handler[d].transfer
    BY <2>1 DEF Handler
  <2>6. CASE c # b
    <3>1. \A e \in Refund : ~ (WriteReversed(e) /\ handler[e].booking = b)
      BY <2>2, <2>4, <2>6 DEF WriteReversed, Idle
    <3>2. reversals'[b] = reversals[b]
      BY <2>2, <2>6
    <3>3. ~ Handles(d, b) /\ ~ Handles(d, b)'
      BY <2>5, <2>6 DEF Handles, Idle
    <3>4. QED BY <1>2, <2>2, <2>4, <3>1, <3>2, <3>3 DEF Handles
  <2>7. CASE c = b
    <3>1. TakesBack(d, b) /\ Handles(d, b)
      BY <2>2, <2>3, <2>7 DEF TakesBack, Handles
    <3>2. \A e \in Refund : Handles(e, b) => e = d
      BY <1>1, <3>1 DEF Uncrossed, Alone
    <3>3. \A e \in Refund : e # d => ~ Handles(e, b)'
      BY <2>4, <3>2 DEF Handles
    <3>4. reversals[b] = 0 /\ ToTakeBack(b)
      BY <1>1, <2>2, <3>1, <3>2 DEF Uncrossed, ToWrite, Written, TakesBack
    <3>5. HasTransfer(b)'
      BY <2>2, <3>1, <3>4 DEF ToTakeBack, HasTransfer
    <3>6. Alone(b)'
      BY <3>3 DEF Alone, TakesBack
    <3>7. CASE answer = "accepted"
      <4>1. reversals'[b] = 1
        BY <2>2, <2>7, <3>4, <3>7
      <4>2. ToWrite(b)'
        BY <2>3, <2>5, <2>7, <3>7 DEF ToWrite, TakesBack, Handles
      <4>3. QED BY <3>5, <3>6, <4>1, <4>2 DEF Uncrossed
    <3>8. CASE answer # "accepted" /\ answer # "lost"
      <4>1. answer = "refused"
        BY <2>1, <3>8, ConstantsAssumption DEF ConstantsAssumption
      <4>2. reversals'[b] = 0 /\ handler'[d] = Idle
        BY <2>2, <2>5, <3>4, <4>1
      <4>3. \A e \in Refund : ~ Handles(e, b)'
        BY <3>3, <4>2 DEF Handles, Idle
      <4>4. ToTakeBack(b)'
        BY <4>3 DEF ToTakeBack, TakesBack
      <4>5. QED BY <3>6, <4>2, <4>4 DEF Uncrossed
    <3>9. answer # "lost"
      BY <2>2, <2>7
    <3>10. QED BY <3>7, <3>8, <3>9
  <2>8. QED BY <2>6, <2>7
<1>6. ASSUME NEW d \in Refund, WriteReversed(d)
      PROVE  Uncrossed(b)'
  <2> DEFINE c == handler[d].booking
  <2>1. /\ c \in Booking /\ handler[d].pc = "write"
        /\ handler' = [handler EXCEPT ![d] = Idle]
        /\ earning' = [earning EXCEPT ![c] = "REVERSED"]
        /\ clawedBack' = [clawedBack EXCEPT ![c] = handler[d].transfer # NoPayout]
        /\ UNCHANGED <<payoutOf, payout, reversals, crossed>>
    BY <1>6 DEF WriteReversed, LocalsOK
  <2>2. /\ handler'[d] = Idle
        /\ \A e \in Refund : e # d => handler'[e] = handler[e]
    BY <2>1
  <2>3. CASE c # b
    <3>1. \A e \in Refund : ~ (WriteReversed(e) /\ handler[e].booking = b)
      BY <2>1, <2>2, <2>3 DEF WriteReversed, Idle
    <3>2. clawedBack'[b] = clawedBack[b]
      BY <2>1, <2>3
    <3>3. ~ Handles(d, b) /\ ~ Handles(d, b)'
      BY <2>2, <2>3 DEF Handles, Idle
    <3>4. QED BY <1>2, <2>1, <2>2, <3>1, <3>2, <3>3 DEF Handles
  <2>4. CASE c = b
    <3>1. Handles(d, b)
      BY <2>1, <2>4 DEF Handles
    <3>2. ~ Handles(d, b)'
      BY <2>2 DEF Handles, Idle
    <3>3. CASE handler[d].transfer # NoPayout
      <4>1. TakesBack(d, b)
        BY <3>1, <3>3 DEF TakesBack
      <4>2. \A e \in Refund : e # d => ~ Handles(e, b)
        BY <1>1, <4>1 DEF Uncrossed, Alone
      <4>3. \A e \in Refund : ~ Handles(e, b)'
        BY <2>2, <3>2, <4>2 DEF Handles
      <4>4. reversals[b] = 1 /\ HasTransfer(b)
        BY <1>1, <2>1, <2>4, <3>3 DEF BackedInv, ReversalsOK, Uncrossed
      <4>5. reversals'[b] = 1 /\ HasTransfer(b)'
        BY <2>1, <4>4 DEF HasTransfer
      <4>6. earning'[b] = "REVERSED" /\ clawedBack'[b]
        <5>1. clawedBack'[b] = (handler[d].transfer # NoPayout)
          BY <2>1, <2>4
        <5>2. QED BY <2>1, <2>4, <3>3, <5>1
      <4>7. QED BY <4>3, <4>5, <4>6 DEF Uncrossed, Written, Alone, TakesBack
    <3>4. CASE handler[d].transfer = NoPayout
      <4>1. ~ TakesBack(d, b)
        BY <3>4 DEF TakesBack
      <4>2. \A e \in Refund : ~ TakesBack(e, b)
        BY <1>1, <3>1, <4>1 DEF Uncrossed, Alone
      <4>3. reversals[b] = 0
        BY <1>1, <3>1, <4>2 DEF Uncrossed, ToWrite, Written
      <4>4. \A e \in Refund : ~ TakesBack(e, b)'
        BY <2>2, <3>2, <4>2 DEF TakesBack, Handles
      <4>5. QED BY <2>1, <4>3, <4>4 DEF Uncrossed, Alone, ToTakeBack
    <3>5. QED BY <3>3, <3>4
  <2>5. QED BY <2>3, <2>4
<1>7. ASSUME NEW d \in Refund, HandlerCrashes(d)
      PROVE  Uncrossed(b)'
  <2> DEFINE c == handler[d].booking
  <2>1. /\ c \in Booking /\ handler[d].pc # "idle"
        /\ handler' = [handler EXCEPT ![d] = Idle]
        /\ crossed' = IF ForgetsReversal(d) THEN crossed \cup {c} ELSE crossed
        /\ UNCHANGED <<earning, payoutOf, payout, clawedBack, reversals>>
    BY <1>7 DEF HandlerCrashes, Forgotten, LocalsOK
  <2>2. /\ handler'[d] = Idle
        /\ \A e \in Refund : e # d => handler'[e] = handler[e]
    BY <2>1
  <2>3. CASE c # b
    <3>1. ~ Handles(d, b) /\ ~ Handles(d, b)'
      BY <2>2, <2>3 DEF Handles, Idle
    <3>2. \A e \in Refund : ~ (WriteReversed(e) /\ handler[e].booking = b)
      BY <2>1, <2>2, <2>3 DEF WriteReversed, Idle
    <3>3. QED BY <1>2, <2>1, <2>2, <3>1, <3>2 DEF Handles
  <2>4. CASE c = b
    <3>1. Handles(d, b) /\ ~ ForgetsReversal(d)
      BY <2>1, <2>4 DEF Handles
    <3>2. ~ Handles(d, b)'
      BY <2>2 DEF Handles, Idle
    <3>3. \A e \in Refund : /\ Handles(e, b)' => Handles(e, b) /\ handler'[e] = handler[e]
                            /\ TakesBack(e, b)' => TakesBack(e, b) /\ handler'[e] = handler[e]
      BY <2>2, <3>2 DEF Handles, TakesBack
    <3>4. Alone(b)'
      BY <1>1, <3>3 DEF Uncrossed, Alone
    <3>5. ~ (HasTransfer(b) /\ ToWrite(b)) /\ ~ Written(b)
      BY <1>1, <3>1 DEF ToWrite, Written, Uncrossed, Alone, ForgetsReversal, TakesBack
    <3>6. reversals[b] = 0 /\ ToTakeBack(b)
      BY <1>1, <3>5 DEF Uncrossed
    <3>7. ToTakeBack(b)'
      BY <2>1, <3>3, <3>6 DEF ToTakeBack, HasTransfer
    <3>8. QED BY <2>1, <3>4, <3>6, <3>7 DEF Uncrossed
  <2>5. QED BY <2>3, <2>4
<1>8. QED
  <2>1. \/ UNCHANGED <<clawedBack, reversals, handler>>
        \/ \E d \in Refund : RefundStep(d) \/ HandlerCrashes(d)
    BY DEF Next, vars, AccountUpdated, HoldElapses, RecordEarning, RunStep,
       ReadEarnings, ReadAccounts, Claim, ClaimFails, Transfer, RecordSent, RecordFailed,
       EndRun, RunCrashes
  <2>2. QED BY <1>3, <1>4, <1>5, <1>6, <1>7, <2>1 DEF RefundStep

\* Nothing is taken back from a host who was not sent it, and no row says so of money that
\* was not taken back; and a clawback that no other refund of its booking met, and that was
\* not cut short, is made once and its row says so.  In every mode.
THEOREM ClawbacksAreExactAlways == Spec => []ClawbacksAreExact
<1>1. TypeOK /\ ClawInv => ClawbacksAreExact
  <2>1. SUFFICES ASSUME TypeOK, ClawInv, NEW b \in Booking
                 PROVE  /\ reversals[b] > 0 => \E k \in accepted : b \in k
                        /\ clawedBack[b] => reversals[b] > 0
                        /\ b \notin crossed =>
                              /\ reversals[b] <= 1
                              /\ (\A d \in Refund : ~ Handles(d, b)) =>
                                    /\ clawedBack[b] <=> reversals[b] = 1
                                    /\ reversals[b] = 1 => earning[b] = "REVERSED"
    BY DEF ClawbacksAreExact
  <2>2. /\ reversals[b] > 0 => \E k \in accepted : b \in k
        /\ clawedBack[b] => reversals[b] > 0
    BY <2>1 DEF ClawInv, BackedInv, Backed
  <2>3. ASSUME b \notin crossed
        PROVE  \/ reversals[b] = 0
               \/ reversals[b] = 1 /\ (ToWrite(b) \/ Written(b))
    BY <2>1, <2>3 DEF ClawInv, UncrossedOK, Uncrossed
  <2>4. ToWrite(b) => \E d \in Refund : Handles(d, b)
    BY DEF ToWrite, TakesBack
  <2>5. Written(b) => clawedBack[b] /\ earning[b] = "REVERSED"
    BY DEF Written
  <2>6. reversals[b] \in Nat /\ clawedBack[b] \in BOOLEAN
    BY <2>1 DEF TypeOK
  <2>7. QED BY <2>2, <2>3, <2>4, <2>5, <2>6
<1>2. TypeOK /\ LocalsOK /\ OwnerInv /\ ClawInv /\ [Next]_vars => ClawInv'
  BY BackedStep, UncrossedStep DEF ClawInv
<1>3. QED BY <1>1, <1>2, ClawInit, TypeCorrect, OwnerInit, OwnerStep, PTL DEF Spec

-----------------------------------------------------------------------------
(* The composition with the webhook. *)

\* A delivery in progress is about a booking, and only one that has got to reversing an
\* earning is in the middle of reverseEarning.
HookOK ==
    /\ hook \in [Refund -> Hook]
    /\ \A d \in Refund : hook[d].pc # "idle" => hook[d].booking \in Booking
    /\ \A d \in Refund : handler[d] # Idle => handler[d].pc # "idle" /\ hook[d].pc = "reverse"

SettlementInv == TypeOK /\ LocalsOK /\ HookOK

LEMMA SettlementInvInit == SettlementInit => SettlementInv
<1>1. SettlementInit => HookOK
  BY DEF SettlementInit, Init, HookOK, Hook, HookPc, IdleHook, Idle
<1>2. QED BY <1>1, TypeInit DEF SettlementInit, SettlementInv

\* Every step of the composition is a step of the ledger, or leaves it alone.
LEMMA StepMaps == ASSUME ProcessCrashes = TRUE, SettlementInv, [SettlementNext]_allVars
                  PROVE  [Next]_vars
<1> USE DEF SettlementInv
<1>1. ASSUME NEW d \in Refund, Earn(d) PROVE [Next]_vars
  <2>1. hook[d].booking \in Booking
    BY <1>1 DEF Earn, HookOK
  <2>2. RecordEarning(hook[d].booking) \/ UNCHANGED vars
    BY <1>1 DEF Earn
  <2>3. QED BY <2>1, <2>2 DEF Next
<1>2. ASSUME NEW d \in Refund, StartReversal(d) PROVE Next
  <2>1. hook[d].booking \in Booking
    BY <1>2 DEF StartReversal, HookOK
  <2>2. QED BY <1>2, <2>1 DEF StartReversal, Next, RefundStep
<1>3. ASSUME NEW d \in Refund, CallStripe(d) \/ FinishReversal(d) PROVE Next
  BY <1>3 DEF CallStripe, FinishReversal, Next, RefundStep
<1>4. ASSUME NEW d \in Refund, DeliveryFails(d) PROVE [Next]_vars
  <2>1. CASE handler[d].pc # "idle"
    <3>1. HandlerCrashes(d)
      BY <1>4, <2>1 DEF DeliveryFails, HandlerCrashes
    <3>2. QED BY <3>1 DEF Next
  <2>2. CASE handler[d] = Idle
    <3>1. handler' = handler
      BY <1>4, <2>2 DEF DeliveryFails, TypeOK
    <3>2. crossed' = crossed
      BY <1>4, <2>2 DEF DeliveryFails, Forgotten, ForgetsReversal, Idle
    <3>3. QED BY <1>4, <3>1, <3>2 DEF DeliveryFails, vars, ledgerVars, runVars, stripeVars
  <2>3. QED BY <2>1, <2>2 DEF HookOK
<1>5. ASSUME LedgerStep \/ \E r \in Run : RunDies(r) PROVE Next
  BY <1>5 DEF LedgerStep, RunDies, Next
<1>6. ASSUME NEW d \in Refund,
             \/ Confirm(d) \/ Explain(d) \/ NothingToReverse(d) \/ PaidWithoutTransfer(d)
             \/ AskForReview(d) \/ AnswerStripe(d) \/ EarnFails(d)
      PROVE  UNCHANGED vars
  BY <1>6 DEF Confirm, Explain, NothingToReverse, PaidWithoutTransfer, AskForReview,
     AnswerStripe, EarnFails
<1>7. ASSUME NEW b \in Booking, NEW s \in {"CONFIRMED", "CANCELLED"},
             StartPayment(b) \/ GuestPays(b) \/ RefundCharge(b) \/ MoveBooking(b, s)
      PROVE  UNCHANGED vars
  BY <1>7 DEF StartPayment, GuestPays, RefundCharge, MoveBooking
<1>8. ASSUME NEW d \in Refund, NEW e \in Event, Deliver(d, e[1], e[2])
      PROVE  UNCHANGED vars
  BY <1>8 DEF Deliver
<1>9. CASE UNCHANGED allVars
  BY <1>9 DEF allVars
<1>10. QED
  BY <1>1, <1>2, <1>3, <1>4, <1>5, <1>6, <1>7, <1>8, <1>9 DEF SettlementNext, HookStep

LEMMA HookStepOK == ASSUME ProcessCrashes = TRUE, SettlementInv, [SettlementNext]_allVars
                    PROVE  HookOK'
<1> USE DEF SettlementInv, TypeOK
<1>0. Idle.pc = "idle" /\ Idle \in Handler /\ IdleHook \in Hook /\ IdleHook.pc = "idle"
  BY DEF Idle, Handler, IdleHook, Hook, HookPc
<1>1. CASE UNCHANGED <<hook, handler>>
  BY <1>1 DEF HookOK
<1>2. ASSUME NEW d \in Refund, NEW e \in Event, Deliver(d, e[1], e[2]) PROVE HookOK'
  <2>1. e[1] \in {"succeeded", "refunded"} /\ e[2] \in Booking
    BY DEF Event, Paid
  <2> DEFINE new == [pc |-> IF e[1] = "succeeded" THEN "confirm" ELSE "reverse",
                     kind |-> e[1], booking |-> e[2]]
  <2>2. new \in Hook /\ new.booking \in Booking
    BY <2>1 DEF Hook, HookPc
  <2>3. hook[d].pc = "idle" /\ hook' = [hook EXCEPT ![d] = new] /\ handler' = handler
    BY <1>2 DEF Deliver, vars
  <2>4. handler[d] = Idle
    BY <2>3 DEF HookOK
  <2> HIDE DEF new
  <2>5. QED BY <2>2, <2>3, <2>4 DEF HookOK
<1>3. ASSUME NEW d \in Refund, NEW pc \in HookPc, hook[d].pc # "idle", Moves(d, pc),
             \/ handler' = handler /\ handler[d] = Idle
             \/ handler' = [handler EXCEPT ![d] = Idle]
      PROVE  HookOK'
  <2> DEFINE new == [hook[d] EXCEPT !.pc = pc]
  <2>1. new \in Hook /\ new.booking \in Booking /\ hook' = [hook EXCEPT ![d] = new]
    BY <1>3 DEF HookOK, Hook, Moves
  <2> HIDE DEF new
  <2>2. handler'[d] = Idle /\ \A c \in Refund : c # d => handler'[c] = handler[c]
    BY <1>3
  <2>3. QED BY <2>1, <2>2 DEF HookOK
<1>4. ASSUME NEW d \in Refund,
             \/ Confirm(d) \/ Explain(d) \/ Earn(d) \/ EarnFails(d) \/ NothingToReverse(d)
             \/ PaidWithoutTransfer(d) \/ AskForReview(d)
      PROVE  HookOK'
  <2>1. PICK pc \in HookPc : Moves(d, pc)
    BY <1>4 DEF Confirm, Explain, Earn, EarnFails, NothingToReverse, PaidWithoutTransfer,
       AskForReview, HookPc
  <2>2. hook[d].pc # "idle" /\ (hook[d].pc # "reverse" \/ handler[d].pc = "idle")
    BY <1>4 DEF Confirm, Explain, Earn, EarnFails, NothingToReverse, PaidWithoutTransfer,
       AskForReview
  <2>3. handler' = handler
    BY <1>4 DEF Confirm, Explain, Earn, EarnFails, NothingToReverse, PaidWithoutTransfer,
       AskForReview, vars, RecordEarning
  <2>4. handler[d] = Idle
    BY <2>2 DEF HookOK
  <2>5. QED BY <1>3, <2>1, <2>2, <2>3, <2>4
<1>5. ASSUME NEW d \in Refund, StartReversal(d) PROVE HookOK'
  <2>1. hook' = hook /\ hook[d].pc = "reverse"
    BY <1>5 DEF StartReversal, hookVars
  <2>2. handler'[d].pc # "idle" /\ \A c \in Refund : c # d => handler'[c] = handler[c]
    BY <1>5 DEF StartReversal, ReadForReversal
  <2>3. QED BY <2>1, <2>2 DEF HookOK
<1>6. ASSUME NEW d \in Refund, CallStripe(d) PROVE HookOK'
  <2>1. /\ handler[d].pc = "reverse"
        /\ \/ handler' = [handler EXCEPT ![d] = Idle]
           \/ handler' = [handler EXCEPT ![d] = [handler[d] EXCEPT !.pc = "write"]]
    BY <1>6 DEF CallStripe, CallReverseTransfer
  <2>2. hook[d].pc = "reverse"
    BY <1>0, <2>1 DEF HookOK
  <2>3. CASE handler' = [handler EXCEPT ![d] = Idle]
    <3>1. Moves(d, "review")
      BY <1>0, <1>6, <2>3 DEF CallStripe
    <3>2. QED BY <1>3, <2>2, <2>3, <3>1 DEF HookPc
  <2>4. CASE handler' = [handler EXCEPT ![d] = [handler[d] EXCEPT !.pc = "write"]]
    <3>1. handler'[d].pc = "write" /\ \A c \in Refund : c # d => handler'[c] = handler[c]
      BY <2>4 DEF Handler
    <3>2. hook' = hook
      BY <1>6, <3>1 DEF CallStripe
    <3>3. QED BY <2>2, <3>1, <3>2 DEF HookOK
  <2>5. QED BY <2>1, <2>3, <2>4
<1>7. ASSUME NEW d \in Refund, FinishReversal(d) PROVE HookOK'
  <2>1. /\ handler[d].pc = "write" /\ Moves(d, "done")
        /\ handler' = [handler EXCEPT ![d] = Idle]
    BY <1>7 DEF FinishReversal, WriteReversed
  <2>2. hook[d].pc = "reverse"
    BY <1>0, <2>1 DEF HookOK
  <2>3. QED BY <1>3, <2>1, <2>2 DEF HookPc
<1>8. ASSUME NEW d \in Refund, AnswerStripe(d) \/ DeliveryFails(d) PROVE HookOK'
  <2>1. hook' = [hook EXCEPT ![d] = IdleHook]
    BY <1>8 DEF AnswerStripe, DeliveryFails
  <2>2. handler'[d] = Idle /\ \A c \in Refund : c # d => handler'[c] = handler[c]
    BY <1>8 DEF AnswerStripe, DeliveryFails, vars, HookOK
  <2>3. QED BY <1>0, <2>1, <2>2 DEF HookOK
<1>9. ASSUME LedgerStep \/ \E r \in Run : RunDies(r) PROVE UNCHANGED <<hook, handler>>
  BY <1>9 DEF LedgerStep, RunDies, RunCrashes, hookVars, AccountUpdated, HoldElapses, RunStep, ReadEarnings,
     ReadAccounts, Claim, ClaimFails, Transfer, RecordSent, RecordFailed, EndRun
<1>10. ASSUME NEW b \in Booking, NEW s \in {"CONFIRMED", "CANCELLED"},
              StartPayment(b) \/ GuestPays(b) \/ RefundCharge(b) \/ MoveBooking(b, s)
       PROVE  UNCHANGED <<hook, handler>>
  BY <1>10 DEF StartPayment, GuestPays, RefundCharge, MoveBooking, vars
<1>11. CASE UNCHANGED allVars
  BY <1>1, <1>11 DEF allVars, vars, hookVars
<1>12. QED
  BY <1>1, <1>2, <1>4, <1>5, <1>6, <1>7, <1>8, <1>9, <1>10, <1>11 DEF SettlementNext, HookStep

\* A webhook that is delivered twice, out of order or cut short, and that leaves off in the
\* middle of a reversal, does nothing to the ledger that Payouts does not allow.
THEOREM SettlementImplementsPayouts == ASSUME ProcessCrashes = TRUE
                                       PROVE  SettlementSpec => LedgerIsPayouts
<1>1. SettlementInv /\ [SettlementNext]_allVars => SettlementInv' /\ [Next]_vars
  BY StepMaps, HookStepOK, TypeStep DEF SettlementInv
<1>2. SettlementInit => Init
  BY DEF SettlementInit
<1>3. QED
  BY <1>1, <1>2, SettlementInvInit, PTL DEF SettlementSpec, LedgerIsPayouts, Spec

\* So no delivery, doubled, reordered or cut short, makes a run send twice: a transfer that
\* overlaps another is for a payout the code has marked FAILED, whatever Stripe answers.
\* Where answers may be lost, that is all the code promises: PaidOnce itself is refuted.
COROLLARY WebhookPaysOnce == ASSUME ConstantsAssumption, ProcessCrashes = TRUE
                             PROVE  SettlementSpec => []TwiceIsFailed
<1>1. QED BY SettlementImplementsPayouts, TwiceIsFailedAlways, PTL DEF LedgerIsPayouts

-----------------------------------------------------------------------------
(* What an answer means.  AnsweredIsSettled needs to know where each delivery is: *)
(* one about a success has confirmed the booking when it goes on to the earning,  *)
(* and when it is done the earning exists, or its insert failed unseen.           *)

Settled(b) == booking[b] # "PENDING" /\ (earning[b] # "NONE" \/ b \in swallowed)

SettledInv ==
    /\ AnsweredIsSettled
    /\ booking \in [Booking -> {"PENDING", "CONFIRMED", "CANCELLED"}]
    /\ \A d \in Refund :
          /\ hook[d].pc \in {"reverse", "review"} => hook[d].kind = "refunded"
          /\ hook[d].pc \in {"explain", "earn"} => booking[hook[d].booking] # "PENDING"
          /\ hook[d].pc = "done" /\ hook[d].kind = "succeeded" => Settled(hook[d].booking)

\* An insert that failed unseen is forgotten only by one that succeeds.
LEMMA SettledStays ==
    ASSUME ProcessCrashes = TRUE, SettlementInv, [SettlementNext]_allVars,
           NEW b \in Booking, earning[b] # "NONE" \/ b \in swallowed
    PROVE  (earning[b] # "NONE" \/ b \in swallowed)'
<1>1. CASE earning[b] # "NONE"
  BY <1>1, StepMaps, EarningsStay DEF SettlementInv
<1>2. CASE swallowed \subseteq swallowed'
  BY <1>1, <1>2
<1>3. ASSUME NEW d \in Refund, Earn(d) PROVE (earning[b] # "NONE" \/ b \in swallowed)'
  <2>1. CASE b # hook[d].booking
    BY <1>1, <1>3, <2>1 DEF Earn
  <2>2. CASE b = hook[d].booking
    BY <1>3, <2>2 DEF Earn, RecordEarning, vars, SettlementInv, TypeOK
  <2>3. QED BY <2>1, <2>2
<1>4. swallowed \subseteq swallowed' \/ \E d \in Refund : Earn(d)
  BY DEF SettlementNext, StartPayment, GuestPays, RefundCharge, MoveBooking, Deliver, HookStep,
     Confirm, Explain, NothingToReverse, PaidWithoutTransfer, StartReversal, CallStripe,
     FinishReversal, AskForReview, AnswerStripe, EarnFails, DeliveryFails, LedgerStep, RunDies,
     hookVars, allVars
<1>5. QED BY <1>2, <1>3, <1>4

LEMMA SettledInit == SettlementInit => SettledInv
  BY DEF SettlementInit, SettledInv, AnsweredIsSettled, IdleHook

LEMMA SettledStep == ASSUME ProcessCrashes = TRUE, SettlementInv, SettlementInv', SettledInv,
                            [SettlementNext]_allVars
                     PROVE  SettledInv'
<1> USE DEF SettledInv, Settled
<1>0. \A b \in Booking : earning[b] # "NONE" \/ b \in swallowed
                            => earning'[b] # "NONE" \/ b \in swallowed'
  BY SettledStays
<1>1. /\ booking' \in [Booking -> {"PENDING", "CONFIRMED", "CANCELLED"}]
      /\ \A b \in Booking : booking[b] # "PENDING" => booking'[b] # "PENDING"
  BY DEF SettlementInv, HookOK, SettlementNext, StartPayment, GuestPays, RefundCharge,
     MoveBooking, Deliver, HookStep, Confirm, Explain, Earn, NothingToReverse,
     PaidWithoutTransfer, StartReversal,
     CallStripe, FinishReversal, AskForReview, AnswerStripe, EarnFails, DeliveryFails,
     LedgerStep, RunDies, hookVars, allVars
<1>2. ASSUME NEW d \in Refund, AnswerStripe(d) PROVE SettledInv'
  <2>1. hook' = [hook EXCEPT ![d] = IdleHook] /\ IdleHook.pc = "idle"
    BY <1>2 DEF AnswerStripe, IdleHook
  <2>2. answered' = answered \cup {<<hook[d].kind, hook[d].booking>>} /\ hook[d].pc = "done"
    BY <1>2 DEF AnswerStripe
  <2>3. AnsweredIsSettled'
    BY <1>0, <1>1, <2>2 DEF AnsweredIsSettled
  <2>4. QED BY <1>0, <1>1, <2>1, <2>3 DEF SettlementInv, HookOK
<1>3. ASSUME answered' = answered PROVE AnsweredIsSettled'
  BY <1>0, <1>1, <1>3 DEF AnsweredIsSettled
<1>4. ASSUME answered' = answered, NEW d \in Refund, hook[d].pc # "idle",
             NEW pc \in HookPc, Moves(d, pc),
             pc \in {"reverse", "review"} => hook[d].kind = "refunded",
             pc \in {"explain", "earn"} => booking'[hook[d].booking] # "PENDING",
             pc = "done" /\ hook[d].kind = "succeeded" =>
                /\ booking'[hook[d].booking] # "PENDING"
                /\ earning'[hook[d].booking] # "NONE" \/ hook[d].booking \in swallowed'
      PROVE  SettledInv'
  <2>1. /\ hook'[d].pc = pc /\ hook'[d].kind = hook[d].kind
        /\ hook'[d].booking = hook[d].booking
        /\ \A c \in Refund : c # d => hook'[c] = hook[c]
    BY <1>4 DEF Moves, SettlementInv, HookOK, Hook
  <2>2. AnsweredIsSettled'
    BY <1>3, <1>4
  <2>3. ASSUME NEW c \in Refund, c # d
        PROVE  /\ hook'[c].pc \in {"reverse", "review"} => hook'[c].kind = "refunded"
               /\ hook'[c].pc \in {"explain", "earn"} => booking'[hook'[c].booking] # "PENDING"
               /\ hook'[c].pc = "done" /\ hook'[c].kind = "succeeded" =>
                     Settled(hook[c].booking)'
    BY <1>0, <1>1, <2>1, <2>3 DEF SettlementInv, HookOK
  <2>4. QED BY <1>1, <1>4, <2>1, <2>2, <2>3
<1>5. ASSUME NEW d \in Refund, Confirm(d) PROVE SettledInv'
  <2> DEFINE b == hook[d].booking
             pc == IF booking[b] = "PENDING" THEN "explain" ELSE "earn"
  <2>1. b \in Booking /\ hook[d].pc # "idle"
    BY <1>5 DEF Confirm, SettlementInv, HookOK
  <2>2. booking'[b] # "PENDING"
    BY <1>5, <2>1 DEF Confirm
  <2>3. pc \in HookPc /\ pc \in {"explain", "earn"} /\ Moves(d, pc) /\ answered' = answered
    BY <1>5 DEF Confirm, HookPc
  <2> HIDE DEF pc
  <2>4. QED BY <1>4, <2>1, <2>2, <2>3
<1>6. ASSUME NEW d \in Refund, Explain(d) PROVE SettledInv'
  BY <1>1, <1>4, <1>6 DEF Explain, HookPc, SettlementInv, HookOK
<1>7. ASSUME NEW d \in Refund, Earn(d) \/ EarnFails(d) PROVE SettledInv'
  <2>1. hook[d].booking \in Booking /\ hook[d].pc = "earn" /\ Moves(d, "done")
        /\ answered' = answered
    BY <1>7 DEF Earn, EarnFails, SettlementInv, HookOK
  <2>2. earning'[hook[d].booking] # "NONE" \/ hook[d].booking \in swallowed'
    <3>1. CASE Earn(d)
      BY <2>1, <3>1 DEF Earn, RecordEarning, vars, SettlementInv, TypeOK
    <3>2. CASE EarnFails(d)
      BY <3>2 DEF EarnFails
    <3>3. QED BY <1>7, <3>1, <3>2
  <2>3. booking'[hook[d].booking] # "PENDING"
    BY <1>1, <2>1
  <2>4. QED BY <1>4, <2>1, <2>2, <2>3 DEF HookPc
<1>8. ASSUME NEW d \in Refund, NothingToReverse(d) \/ PaidWithoutTransfer(d) \/ AskForReview(d)
      PROVE  SettledInv'
  <2>1. hook[d].kind = "refunded" /\ hook[d].pc # "idle" /\ answered' = answered
    BY <1>8 DEF NothingToReverse, PaidWithoutTransfer, AskForReview
  <2>2. PICK pc \in {"done", "review"} : Moves(d, pc)
    BY <1>8 DEF NothingToReverse, PaidWithoutTransfer, AskForReview
  <2>3. QED BY <1>4, <2>1, <2>2 DEF HookPc
<1>9. ASSUME NEW d \in Refund, CallStripe(d) \/ FinishReversal(d) PROVE SettledInv'
  <2>1. handler[d] # Idle
    BY <1>9 DEF CallStripe, FinishReversal, CallReverseTransfer, WriteReversed, Idle
  <2>2. hook[d].pc = "reverse" /\ hook[d].kind = "refunded"
    BY <2>1 DEF SettlementInv, HookOK
  <2>3. answered' = answered
    BY <1>9 DEF CallStripe, FinishReversal
  <2>4. Moves(d, "review") \/ Moves(d, "done") \/ hook' = hook
    BY <1>9 DEF CallStripe, FinishReversal
  <2>5. CASE hook' = hook
    BY <1>0, <1>1, <1>3, <2>3, <2>5 DEF SettlementInv, HookOK
  <2>6. CASE Moves(d, "review")
    BY <1>4, <2>2, <2>3, <2>6 DEF HookPc
  <2>7. CASE Moves(d, "done")
    BY <1>4, <2>2, <2>3, <2>7 DEF HookPc
  <2>8. QED BY <2>4, <2>5, <2>6, <2>7
<1>10. ASSUME NEW d \in Refund, NEW e \in Event, Deliver(d, e[1], e[2]) PROVE SettledInv'
  <2>1. e[1] \in {"succeeded", "refunded"}
    BY DEF Event, Paid
  <2>2. /\ answered' = answered
        /\ hook'[d].pc = IF e[1] = "succeeded" THEN "confirm" ELSE "reverse"
        /\ hook'[d].kind = e[1]
        /\ \A c \in Refund : c # d => hook'[c] = hook[c]
    BY <1>10 DEF Deliver, SettlementInv, HookOK
  <2>3. QED BY <1>0, <1>1, <1>3, <2>1, <2>2 DEF SettlementInv, HookOK
<1>11. ASSUME NEW d \in Refund, DeliveryFails(d) PROVE SettledInv'
  <2>1. /\ answered' = answered /\ hook'[d].pc = "idle"
        /\ \A c \in Refund : c # d => hook'[c] = hook[c]
    BY <1>11 DEF DeliveryFails, SettlementInv, HookOK, IdleHook
  <2>2. QED BY <1>0, <1>1, <1>3, <2>1 DEF SettlementInv, HookOK
<1>12. ASSUME hook' = hook, answered' = answered PROVE SettledInv'
  BY <1>0, <1>1, <1>3, <1>12 DEF SettlementInv, HookOK
<1>13. ASSUME \/ \E d \in Refund : StartReversal(d)
              \/ \E b \in Booking, s \in {"CONFIRMED", "CANCELLED"} :
                    \/ StartPayment(b) \/ GuestPays(b)
                    \/ RefundCharge(b) \/ MoveBooking(b, s)
              \/ LedgerStep \/ \E r \in Run : RunDies(r)
              \/ UNCHANGED allVars
       PROVE  hook' = hook /\ answered' = answered
  BY <1>13 DEF StartReversal, StartPayment, GuestPays, RefundCharge, MoveBooking, LedgerStep, RunDies,
     allVars, hookVars
<1>14. QED
  BY <1>2, <1>5, <1>6, <1>7, <1>8, <1>9, <1>10, <1>11, <1>12, <1>13 DEF SettlementNext, HookStep

\* A success that Stripe was told has been received is settled, wherever earlier deliveries
\* of the same event were cut short: its booking is no longer waiting for payment, and its
\* host has an earning unless an insert of that very earning failed and was taken for the
\* duplicate.  So this is the one way a payment Stripe will not repeat can go unearned.
THEOREM AnsweredIsSettledAlways == ASSUME ProcessCrashes = TRUE
                                   PROVE  SettlementSpec => []AnsweredIsSettled
<1>1. SettlementInv /\ [SettlementNext]_allVars => SettlementInv'
  BY StepMaps, HookStepOK, TypeStep DEF SettlementInv
<1>2. SettlementInv /\ SettlementInv' /\ SettledInv /\ [SettlementNext]_allVars => SettledInv'
  BY SettledStep
<1>3. SettledInv => AnsweredIsSettled
  BY DEF SettledInv
<1>4. QED
  BY <1>1, <1>2, <1>3, SettlementInvInit, SettledInit, PTL DEF SettlementSpec
-----------------------------------------------------------------------------
(* Whose money it is.  MoneyFollowsTheGuest needs to know that a delivery in progress is   *)
(* about something the guest's payment has been through, that a reversal in progress is    *)
(* its delivery's, and that a transfer is for a payout row, whose earnings were recorded.  *)

MoneyInv ==
    /\ charge \in [Booking -> {"none", "intent", "succeeded", "refunded"}]
    /\ \A b \in Booking :
          /\ earning[b] # "NONE" => charge[b] \in Paid
          /\ earning[b] = "REVERSED" \/ reversals[b] > 0 => charge[b] = "refunded"
    /\ \A k \in accepted : payout[k] # "NONE"
    /\ \A d \in Refund : hook[d].pc # "idle" =>
          /\ charge[hook[d].booking] \in Paid
          /\ hook[d].kind = "refunded" => charge[hook[d].booking] = "refunded"
    /\ \A d \in Refund : handler[d] # Idle => handler[d].booking = hook[d].booking

LEMMA MoneyInit == SettlementInit => MoneyInv
  BY DEF SettlementInit, Init, MoneyInv, IdleHook, Idle

\* Money that was paid stays paid, and money given back stays given back.
LEMMA ChargesAdvance == ASSUME MoneyInv, [SettlementNext]_allVars
    PROVE  /\ charge' \in [Booking -> {"none", "intent", "succeeded", "refunded"}]
           /\ \A b \in Booking : /\ charge[b] \in Paid => charge'[b] \in Paid
                                 /\ charge[b] = "refunded" => charge'[b] = "refunded"
  BY DEF MoneyInv, Paid, SettlementNext, StartPayment, GuestPays, RefundCharge, MoveBooking,
     Deliver, HookStep, Confirm, Explain, Earn, NothingToReverse, PaidWithoutTransfer,
     StartReversal, CallStripe, FinishReversal, AskForReview, AnswerStripe, EarnFails,
     DeliveryFails, LedgerStep, RunDies, payments, hookVars, allVars

\* A reversal in progress is about a booking whose payment was given back.
LEMMA ReversalsAreRefunds ==
    ASSUME SettlementInv, SettledInv, MoneyInv, NEW d \in Refund, handler[d].pc # "idle"
    PROVE  handler[d].booking \in Booking /\ charge[handler[d].booking] = "refunded"
  BY DEF SettlementInv, HookOK, LocalsOK, SettledInv, MoneyInv, Idle

\* What a step writes into the ledger, the guest's payment allows.
LEMMA LedgerFollows ==
    ASSUME SettlementInv, SettledInv, OwnerInv, MoneyInv, [SettlementNext]_allVars
    PROVE  /\ \A b \in Booking : /\ earning'[b] # "NONE" => charge[b] \in Paid
                                 /\ earning'[b] = "REVERSED" => charge[b] = "refunded"
                                 /\ reversals'[b] > 0 => charge[b] = "refunded"
           /\ \A k \in accepted' : payout'[k] # "NONE"
<1> DEFINE Follows == /\ \A b \in Booking : /\ earning'[b] # "NONE" => charge[b] \in Paid
                                            /\ earning'[b] = "REVERSED" => charge[b] = "refunded"
                                            /\ reversals'[b] > 0 => charge[b] = "refunded"
                      /\ \A k \in accepted' : payout'[k] # "NONE"
<1> USE DEF SettlementInv, TypeOK
<1>1. CASE UNCHANGED <<earning, reversals, accepted, payout>>
  BY <1>1 DEF MoneyInv
<1>2. ASSUME NEW d \in Refund, Earn(d) PROVE Follows
  <2>1. hook[d].booking \in Booking /\ charge[hook[d].booking] \in Paid
    BY <1>2 DEF Earn, HookOK, MoneyInv
  <2>2. \A b \in Booking : \/ earning'[b] = earning[b]
                           \/ b = hook[d].booking /\ earning'[b] = "HELD"
    BY <1>2, <2>1 DEF Earn, RecordEarning, vars
  <2>3. UNCHANGED <<reversals, accepted, payout>>
    BY <1>2 DEF Earn, RecordEarning, vars, stripeVars
  <2>4. QED BY <2>1, <2>2, <2>3 DEF MoneyInv
<1>3. ASSUME NEW d \in Refund, CallStripe(d) PROVE Follows
  <2> DEFINE b == handler[d].booking
  <2>1. CallReverseTransfer(d)
    BY ONLY <1>3 DEF CallStripe
  <2>2. handler[d].pc # "idle" /\ UNCHANGED <<earning, payout, accepted>>
        /\ (reversals' = reversals \/ reversals' = [reversals EXCEPT ![b] = @ + 1])
    BY ONLY <2>1, Zenon DEF CallReverseTransfer, ledgerVars
  <2>3. b \in Booking /\ charge[b] = "refunded"
    BY <2>2, ReversalsAreRefunds
  <2>4. \A c \in Booking : c # b => reversals'[c] = reversals[c]
    BY <2>2
  <2>5. QED BY <2>2, <2>3, <2>4 DEF MoneyInv
<1>4. ASSUME NEW d \in Refund, FinishReversal(d) PROVE Follows
  <2> DEFINE b == handler[d].booking
  <2>1. /\ handler[d].pc # "idle" /\ UNCHANGED <<payout, accepted, reversals>>
        /\ earning' = [earning EXCEPT ![b] = "REVERSED"]
    BY <1>4 DEF FinishReversal, WriteReversed, stripeVars
  <2>2. b \in Booking /\ charge[b] = "refunded"
    BY <2>1, ReversalsAreRefunds
  <2>3. QED BY <2>1, <2>2 DEF MoneyInv, Paid
<1>5. ASSUME NEW r \in Run, Claim(r) PROVE Follows
  <2>1. PICK k \in plan[r] : Claim(r)!(k)
    BY ONLY <1>5 DEF Claim
  <2>2. \A b \in k : earning[b] # "NONE"
    BY <2>1 DEF Claimable, Owed
  <2>3. \A b \in Booking : earning'[b] = IF b \in k THEN "PAID" ELSE earning[b]
    BY <2>1
  <2>4. \A j \in Batch : payout'[j] = IF j = k THEN "PENDING" ELSE payout[j]
    BY <2>1
  <2>5. UNCHANGED <<accepted, reversals>>
    BY <2>1 DEF stripeVars
  <2>6. QED BY <2>2, <2>3, <2>4, <2>5 DEF MoneyInv
<1>6. ASSUME NEW r \in Run, Transfer(r) PROVE Follows
  <2>1. /\ \/ accepted' = accepted
           \/ accepted' = accepted \cup {current[r]}
        /\ UNCHANGED <<earning, payout, reversals>>
    BY <1>6 DEF Transfer, ledgerVars
  <2>2. current[r] \in Batch /\ payout[current[r]] = "PENDING"
    BY <1>6 DEF Transfer, LocalsOK, OwnerInv, RunsOwnPending, Busy
  <2>3. QED BY <2>1, <2>2 DEF MoneyInv
<1>7. ASSUME NEW r \in Run, RecordSent(r) PROVE Follows
  BY <1>7 DEF RecordSent, stripeVars, MoneyInv
<1>8. ASSUME NEW r \in Run, RecordFailed(r) PROVE Follows
  <2> DEFINE k == current[r]
  <2>1. k # NoPayout
    BY <1>8 DEF RecordFailed, LocalsOK, Busy, Batch, NoPayout
  <2>2. \A b \in Booking : payoutOf[b] = k => earning[b] # "NONE"
    BY <2>1 DEF OwnerInv, EarningNamesLive
  <2>3. \A b \in Booking : earning'[b] = IF payoutOf[b] = k THEN "PAYABLE" ELSE earning[b]
    BY <1>8 DEF RecordFailed
  <2>4. \A j \in Batch : payout'[j] = IF j = k THEN "FAILED" ELSE payout[j]
    BY <1>8 DEF RecordFailed
  <2>5. UNCHANGED <<accepted, reversals>>
    BY <1>8 DEF RecordFailed, stripeVars
  <2>6. QED BY <2>2, <2>3, <2>4, <2>5 DEF MoneyInv
<1>9. \/ UNCHANGED <<earning, reversals, accepted, payout>>
      \/ \E d \in Refund : Earn(d) \/ CallStripe(d) \/ FinishReversal(d)
      \/ \E r \in Run : Claim(r) \/ Transfer(r) \/ RecordSent(r) \/ RecordFailed(r)
  BY DEF SettlementNext, StartPayment, GuestPays, RefundCharge, MoveBooking, Deliver,
     HookStep, Confirm, Explain, NothingToReverse, PaidWithoutTransfer, StartReversal,
     ReadForReversal, AskForReview, AnswerStripe, EarnFails, DeliveryFails, LedgerStep,
     AccountUpdated, HoldElapses, RunStep, ReadEarnings, ReadAccounts, ClaimFails, EndRun, RunDies, RunCrashes,
     vars, ledgerVars, stripeVars, allVars
<1>10. QED
  <2>1. Follows
    BY <1>1, <1>2, <1>3, <1>4, <1>5, <1>6, <1>7, <1>8, <1>9
  <2>2. QED BY <2>1

\* A delivery in progress stays about a payment that was made, or given back.
LEMMA HooksFollow == ASSUME SettlementInv, MoneyInv, [SettlementNext]_allVars
    PROVE  \A d \in Refund : hook'[d].pc # "idle" =>
              /\ charge'[hook'[d].booking] \in Paid
              /\ hook'[d].kind = "refunded" => charge'[hook'[d].booking] = "refunded"
<1> SUFFICES ASSUME NEW d \in Refund, hook'[d].pc # "idle"
             PROVE  /\ charge'[hook'[d].booking] \in Paid
                    /\ hook'[d].kind = "refunded" => charge'[hook'[d].booking] = "refunded"
  OBVIOUS
<1>1. CASE /\ hook[d].pc # "idle" /\ hook'[d].kind = hook[d].kind
           /\ hook'[d].booking = hook[d].booking
  BY <1>1, ChargesAdvance DEF SettlementInv, HookOK, MoneyInv
<1>2. ASSUME NEW e \in Event, Deliver(d, e[1], e[2])
      PROVE  /\ charge'[hook'[d].booking] \in Paid
             /\ hook'[d].kind = "refunded" => charge'[hook'[d].booking] = "refunded"
  <2>1. e[1] \in Paid /\ e[2] \in Booking
    BY DEF Event
  <2>2. hook'[d].kind = e[1] /\ hook'[d].booking = e[2] /\ charge' = charge
        /\ (charge[e[2]] = "refunded" \/ charge[e[2]] = e[1])
    BY <1>2 DEF Deliver, SettlementInv, HookOK, payments
  <2>3. QED BY <2>1, <2>2 DEF Paid
<1>3. \/ \E e \in Event : Deliver(d, e[1], e[2])
      \/ /\ hook[d].pc # "idle" /\ hook'[d].kind = hook[d].kind
         /\ hook'[d].booking = hook[d].booking
  <2>1. ASSUME NEW c \in Refund, HookStep(c) \/ EarnFails(c) \/ DeliveryFails(c)
        PROVE  \/ UNCHANGED hook
               \/ c = d /\ hook' = [hook EXCEPT ![c] = IdleHook]
               \/ c = d /\ hook[d].pc # "idle" /\ \E pc \in HookPc : Moves(c, pc)
               \/ c # d /\ hook'[d] = hook[d]
    <3>1. CASE c # d
      BY <2>1, <3>1 DEF HookStep, Confirm, Explain, Earn, NothingToReverse,
         PaidWithoutTransfer, StartReversal, CallStripe, FinishReversal, AskForReview,
         AnswerStripe, EarnFails, DeliveryFails, Moves, hookVars, SettlementInv, HookOK
    <3>2. handler[c].pc # "idle" => hook[c].pc # "idle"
      BY DEF SettlementInv, HookOK, Idle
    <3>3. CASE c = d
      BY <2>1, <3>2, <3>3 DEF HookStep, Confirm, Explain, Earn, NothingToReverse,
         PaidWithoutTransfer, StartReversal, CallStripe, CallReverseTransfer, FinishReversal,
         WriteReversed, AskForReview, AnswerStripe, EarnFails, DeliveryFails, hookVars, HookPc
    <3>4. QED BY <3>1, <3>3
  <2>2. ASSUME NEW c \in Refund, HookStep(c) \/ EarnFails(c) \/ DeliveryFails(c)
        PROVE  /\ hook[d].pc # "idle" /\ hook'[d].kind = hook[d].kind
               /\ hook'[d].booking = hook[d].booking
    BY <2>1, <2>2 DEF SettlementInv, HookOK, Hook, Moves, IdleHook
  <2>3. ASSUME NEW c \in Refund, NEW e \in Event, Deliver(c, e[1], e[2]), c # d
        PROVE  hook'[d] = hook[d]
    BY <2>3 DEF Deliver
  <2>4. CASE UNCHANGED hook
    BY <2>4
  <2>5. QED
    BY <2>2, <2>3, <2>4 DEF SettlementNext, StartPayment, GuestPays, RefundCharge,
       MoveBooking, LedgerStep, RunDies, hookVars, allVars
<1>4. QED BY <1>1, <1>2, <1>3

\* A reversal in progress stays its delivery's.
LEMMA HandlersFollow ==
    ASSUME ProcessCrashes = TRUE, SettlementInv, SettlementInv', MoneyInv,
           [SettlementNext]_allVars
    PROVE  \A d \in Refund : handler'[d] # Idle => handler'[d].booking = hook'[d].booking
<1> SUFFICES ASSUME NEW d \in Refund, handler'[d] # Idle
             PROVE  handler'[d].booking = hook'[d].booking
  OBVIOUS
<1> USE DEF SettlementInv, TypeOK
<1>1. CASE handler'[d] = handler[d] /\ hook'[d].booking = hook[d].booking
  BY <1>1 DEF MoneyInv
<1>2. CASE StartReversal(d)
  <2>1. hook' = hook /\ handler'[d].booking = hook[d].booking
    BY <1>2 DEF StartReversal, ReadForReversal, hookVars
  <2>2. QED BY <2>1
<1>3. CASE CallStripe(d)
  <2>1. handler[d] # Idle /\ handler'[d].booking = handler[d].booking
        /\ (hook' = hook \/ \E pc \in HookPc : Moves(d, pc))
    BY <1>3 DEF CallStripe, CallReverseTransfer, Idle, Handler, HookPc
  <2>2. hook'[d].booking = hook[d].booking
    BY <2>1 DEF Moves, HookOK, Hook
  <2>3. QED BY <2>1, <2>2 DEF MoneyInv
<1>4. ASSUME NEW c \in Refund, HookStep(c) \/ EarnFails(c) \/ DeliveryFails(c), c # d
      PROVE  handler'[d] = handler[d] /\ hook'[d].booking = hook[d].booking
  BY <1>4 DEF HookStep, Confirm, Explain, Earn, NothingToReverse, PaidWithoutTransfer,
     StartReversal, ReadForReversal, CallStripe, CallReverseTransfer, FinishReversal,
     WriteReversed, AskForReview, AnswerStripe, EarnFails, DeliveryFails, RecordEarning, Moves,
     hookVars, vars, HookOK
<1>5. ASSUME HookStep(d) \/ EarnFails(d) \/ DeliveryFails(d), ~ StartReversal(d), ~ CallStripe(d)
      PROVE  handler'[d] = handler[d] /\ hook'[d].booking = hook[d].booking
  <2>1. \/ handler'[d] = Idle
        \/ handler' = handler /\ \E pc \in HookPc : Moves(d, pc)
        \/ handler' = handler /\ hook[d].pc = "done"
    BY <1>5 DEF HookStep, Confirm, Explain, Earn, NothingToReverse, PaidWithoutTransfer,
       FinishReversal, WriteReversed, AskForReview, AnswerStripe, EarnFails, DeliveryFails,
       RecordEarning, vars, HookPc
  <2>2. handler[d] # Idle => hook[d].pc = "reverse"
    BY DEF HookOK
  <2>3. QED BY <2>1, <2>2 DEF Moves, HookOK, Hook
<1>6. ASSUME NEW c \in Refund, NEW e \in Event, Deliver(c, e[1], e[2])
      PROVE  handler'[d] = handler[d] /\ hook'[d].booking = hook[d].booking
  <2>1. handler' = handler /\ hook[c].pc = "idle"
    BY <1>6 DEF Deliver, vars
  <2>2. c # d
    BY <2>1 DEF HookOK
  <2>3. QED BY <1>6, <2>1, <2>2 DEF Deliver
<1>7. CASE UNCHANGED <<hook, handler>>
  BY <1>1, <1>7
<1>8. \/ \E c \in Refund : HookStep(c) \/ EarnFails(c) \/ DeliveryFails(c)
      \/ \E c \in Refund, e \in Event : Deliver(c, e[1], e[2])
      \/ UNCHANGED <<hook, handler>>
  BY DEF SettlementNext, StartPayment, GuestPays, RefundCharge, MoveBooking, LedgerStep,
     AccountUpdated, HoldElapses, RunStep, ReadEarnings, ReadAccounts, Claim, ClaimFails,
     Transfer, RecordSent, RecordFailed, EndRun, RunDies, RunCrashes, hookVars, vars, allVars
<1>9. QED BY <1>1, <1>2, <1>3, <1>4, <1>5, <1>6, <1>7, <1>8

LEMMA MoneyStep == ASSUME ProcessCrashes = TRUE, SettlementInv, SettlementInv', SettledInv,
                          OwnerInv, MoneyInv, [SettlementNext]_allVars
                   PROVE  MoneyInv'
<1>1. /\ charge' \in [Booking -> {"none", "intent", "succeeded", "refunded"}]
      /\ \A b \in Booking : /\ charge[b] \in Paid => charge'[b] \in Paid
                            /\ charge[b] = "refunded" => charge'[b] = "refunded"
  BY ChargesAdvance
<1>2. /\ \A b \in Booking : /\ earning'[b] # "NONE" => charge[b] \in Paid
                            /\ earning'[b] = "REVERSED" => charge[b] = "refunded"
                            /\ reversals'[b] > 0 => charge[b] = "refunded"
      /\ \A k \in accepted' : payout'[k] # "NONE"
  BY LedgerFollows
<1>3. QED BY <1>1, <1>2, HooksFollow, HandlersFollow DEF MoneyInv, Paid

LEMMA MoneyImplies == ASSUME SettlementInv, PayoutsWereDue, MoneyInv
                      PROVE  MoneyFollowsTheGuest
<1>1. ASSUME NEW b \in Booking, NEW k \in accepted, b \in k PROVE earning[b] # "NONE"
  BY <1>1 DEF SettlementInv, TypeOK, PayoutsWereDue, MoneyInv
<1>2. QED BY <1>1 DEF MoneyFollowsTheGuest, MoneyInv

\* Nothing is owed, sent or taken back that the guest's own money does not cover, whatever
\* order the deliveries come in, however often, and wherever one of them or a run stops.
THEOREM MoneyFollowsTheGuestAlways == ASSUME ProcessCrashes = TRUE
                                      PROVE  SettlementSpec => []MoneyFollowsTheGuest
<1>1. SettlementInv /\ [SettlementNext]_allVars => SettlementInv' /\ [Next]_vars
  BY StepMaps, HookStepOK, TypeStep DEF SettlementInv
<1>2. SettlementInit => Init
  BY DEF SettlementInit
<1>3. SettlementInv /\ OwnerInv /\ [Next]_vars => OwnerInv'
  BY OwnerStep DEF SettlementInv
<1>4. SettlementInv /\ SettlementInv' /\ SettledInv /\ [SettlementNext]_allVars => SettledInv'
  BY SettledStep
<1>5. SettlementInv /\ SettlementInv' /\ SettledInv /\ OwnerInv /\ MoneyInv
        /\ [SettlementNext]_allVars => MoneyInv'
  BY MoneyStep
<1>6. SettlementSpec => []PayoutsWereDue
  BY SettlementImplementsPayouts, PayoutsWereDueAlways, PTL DEF LedgerIsPayouts
<1>7. SettlementInv /\ PayoutsWereDue /\ MoneyInv => MoneyFollowsTheGuest
  BY MoneyImplies
<1>8. QED
  BY <1>1, <1>2, <1>3, <1>4, <1>5, <1>6, <1>7, SettlementInvInit, SettledInit, OwnerInit,
     MoneyInit, PTL DEF SettlementSpec
=============================================================================
