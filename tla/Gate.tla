-------------------------------- MODULE Gate --------------------------------
(***************************************************************************)
(* The gate of an estate: invitations and their passes, visits, the access *)
(* history and access cards (src/app/api/security).                        *)
(*                                                                         *)
(* Every handler reads a row, decides, and writes by id; one action is     *)
(* what it does between two awaits.  Consuming one use of a pass, creating *)
(* the visit and recording its IN event are one transaction.               *)
(*                                                                         *)
(* A row of AccessEvent names no visit.  The rows of passes, which a scan  *)
(* and a check-in write alike, are counted for the invitation they name;   *)
(* those of walk-ins and of departures, for the visit they were written    *)
(* about.                                                                  *)
(***************************************************************************)
EXTENDS Integers, FiniteSets

CONSTANTS
    Invitation,
    Visit,          \* rows of VisitorVisit that can be created
    Card,
    Request,        \* requests that can overlap
    MaxUses,        \* [Invitation -> Nat \ {0}]
    MaxScans,       \* how often a pass is scanned
    MaxCutShort,    \* over how many visits and passes a server process dies half-way
    Nobody          \* the invitation of a walk-in, and of a request with nothing to do

ASSUME ConstantsAssumption ==
    /\ IsFiniteSet(Visit) /\ IsFiniteSet(Request)
    /\ MaxUses \in [Invitation -> Nat \ {0}]
    /\ MaxScans \in Nat /\ MaxCutShort \in Nat
    /\ Nobody \notin Invitation \cup Visit \cup Card
    /\ Invitation \cap Visit = {} /\ Invitation \cap Card = {} /\ Visit \cap Card = {}

VARIABLES
    status,      \* VisitorInvitation.status; NONE where there is no row
    useCount,    \* VisitorInvitation.useCount
    approvedAt,  \* VisitorInvitation.approvedAt, as whether it was ever set
    window,      \* where now is against validFrom .. validTo
    visit,       \* VisitorVisit.status
    admittedOn,  \* VisitorVisit.invitationId
    qrRows,      \* AccessEvent rows of each pass with direction IN and method QR, by result
    inEvents,    \* rows of each walk-in with direction IN and method MANUAL
    outEvents,   \* rows of each visit with direction OUT
    card,        \* AccessCard.status
    request,     \* each request: where it is, what it is about and what it read
    answers,     \* history: the answers guards were given to a scan of each pass
    cutShort,    \* history: the visits whose handler died before writing an event, and the
                 \* passes whose scan died between its row and its answer
    raced        \* history: the visits that two requests were checking out when one did

passVars == <<status, useCount, approvedAt, window>>
visitVars == <<visit, admittedOn, inEvents, outEvents, raced>>
scanVars == <<qrRows, answers>>
vars == <<passVars, visitVars, scanVars, cutShort, card, request>>

-----------------------------------------------------------------------------
InvitationStatus == {"PENDING", "APPROVED", "REJECTED", "CANCELLED", "USED"}
CardStatus == {"ACTIVE", "SUSPENDED", "REVOKED"}
Result == {"GRANTED", "DENIED"}
Scanning == {"grant", "deny", "granted", "denied"}
RequestPc == {"idle", "checkin", "decide", "cancel", "walkin", "checkout", "leaving",
              "suspend", "revoke", "reinstate"} \cup Scanning
Idle == [pc |-> "idle", of |-> Nobody, count |-> 0]
At(step, x) == [pc |-> step, of |-> x, count |-> 0]

TypeOK ==
    /\ status \in [Invitation -> InvitationStatus \cup {"NONE"}]
    /\ useCount \in [Invitation -> Nat]
    /\ approvedAt \in [Invitation -> BOOLEAN]
    /\ window \in [Invitation -> {"before", "open", "after"}]
    /\ visit \in [Visit -> {"NONE", "ON_SITE", "CHECKED_OUT"}]
    /\ admittedOn \in [Visit -> Invitation \cup {Nobody}]
    /\ inEvents \in [Visit -> Nat]
    /\ outEvents \in [Visit -> Nat]
    /\ qrRows \in [Invitation \X Result -> Nat]
    /\ answers \in [Invitation \X Result -> Nat]
    /\ cutShort \subseteq Visit \cup Invitation
    /\ raced \subseteq Visit
    /\ card \in [Card -> CardStatus \cup {"NONE"}]
    /\ request \in [Request -> [pc : RequestPc,
                                of : Invitation \cup Visit \cup Card \cup {Nobody},
                                count : Nat]]

Init ==
    /\ status = [i \in Invitation |-> "NONE"]
    /\ useCount = [i \in Invitation |-> 0]
    /\ approvedAt = [i \in Invitation |-> FALSE]
    /\ window = [i \in Invitation |-> "before"]
    /\ visit = [v \in Visit |-> "NONE"]
    /\ admittedOn = [v \in Visit |-> Nobody]
    /\ inEvents = [v \in Visit |-> 0]
    /\ outEvents = [v \in Visit |-> 0]
    /\ qrRows = [p \in Invitation \X Result |-> 0]
    /\ answers = [p \in Invitation \X Result |-> 0]
    /\ cutShort = {}
    /\ raced = {}
    /\ card = [c \in Card |-> "NONE"]
    /\ request = [r \in Request |-> Idle]

-----------------------------------------------------------------------------
(* Invitations. *)

\* Whoever may approve visitors creates an approved invitation, anybody else a pending one.
Invite(i, s) ==
    /\ status[i] = "NONE"
    /\ status' = [status EXCEPT ![i] = s]
    /\ approvedAt' = [approvedAt EXCEPT ![i] = (s = "APPROVED")]
    /\ UNCHANGED <<useCount, window, visitVars, scanVars, cutShort, card, request>>

TimePasses(i) ==
    /\ window[i] # "after"
    /\ window' = [window EXCEPT ![i] = IF @ = "before" THEN "open" ELSE "after"]
    /\ UNCHANGED <<status, useCount, approvedAt, visitVars, scanVars, cutShort, card, request>>

ReadToDecide(r, i) ==
    /\ request[r] = Idle
    /\ status[i] = "PENDING"
    /\ request' = [request EXCEPT ![r] = At("decide", i)]
    /\ UNCHANGED <<passVars, visitVars, scanVars, cutShort, card>>

\* By id: whatever became of the invitation since it was read.
Decide(r, s) ==
    LET i == request[r].of IN
    /\ request[r].pc = "decide"
    /\ status' = [status EXCEPT ![i] = s]
    /\ approvedAt' = IF s = "APPROVED" THEN [approvedAt EXCEPT ![i] = TRUE] ELSE approvedAt
    /\ request' = [request EXCEPT ![r] = Idle]
    /\ UNCHANGED <<useCount, window, visitVars, scanVars, cutShort, card>>

\* Only a cancelled invitation cannot be cancelled: a used or rejected one can.
ReadToCancel(r, i) ==
    /\ request[r] = Idle
    /\ status[i] \notin {"NONE", "CANCELLED"}
    /\ request' = [request EXCEPT ![r] = At("cancel", i)]
    /\ UNCHANGED <<passVars, visitVars, scanVars, cutShort, card>>

Cancel(r) ==
    /\ request[r].pc = "cancel"
    /\ status' = [status EXCEPT ![request[r].of] = "CANCELLED"]
    /\ request' = [request EXCEPT ![r] = Idle]
    /\ UNCHANGED <<useCount, approvedAt, window, visitVars, scanVars, cutShort, card>>

-----------------------------------------------------------------------------
(* The gate. *)

\* What a scan of the pass answers.
ScanGrants(i) ==
    /\ status[i] \notin {"NONE", "CANCELLED", "REJECTED", "PENDING"}
    /\ window[i] = "open"
    /\ useCount[i] < MaxUses[i]

\* The scans of a pass so far, those that have yet to write their row included.
Scans(i) ==
    LET begun == {r \in Request : request[r].of = i /\ request[r].pc \in {"grant", "deny"}} IN
    qrRows[<<i, "GRANTED">>] - useCount[i] + qrRows[<<i, "DENIED">>] + Cardinality(begun)

\* The scan reads a pass of this property; one it does not recognise is answered DENIED
\* and leaves nothing.
ScanPass(r, i) ==
    /\ request[r] = Idle
    /\ status[i] # "NONE"
    /\ Scans(i) < MaxScans
    /\ request' = [request EXCEPT ![r] = At(IF ScanGrants(i) THEN "grant" ELSE "deny", i)]
    /\ UNCHANGED <<passVars, visitVars, scanVars, cutShort, card>>

\* Faulty variant: a refusal leaves no row.
RecordGrantOnly(r, step, result, next) ==
    /\ request[r].pc = step
    /\ qrRows' = IF result = "GRANTED" THEN [qrRows EXCEPT ![<<request[r].of, result>>] = @ + 1]
                                       ELSE qrRows
    /\ request' = [request EXCEPT ![r].pc = next]
    /\ UNCHANGED <<passVars, visitVars, answers, cutShort, card>>

\* The row is written before the guard sees the answer.
RecordScan(r, step, result, next) ==
    /\ request[r].pc = step
    /\ qrRows' = [qrRows EXCEPT ![<<request[r].of, result>>] = @ + 1]
    /\ request' = [request EXCEPT ![r].pc = next]
    /\ UNCHANGED <<passVars, visitVars, answers, cutShort, card>>

AnswerScan(r, step, result) ==
    /\ request[r].pc = step
    /\ answers' = [answers EXCEPT ![<<request[r].of, result>>] = @ + 1]
    /\ request' = [request EXCEPT ![r] = Idle]
    /\ UNCHANGED <<passVars, visitVars, qrRows, cutShort, card>>

\* Faulty variant: the status is left to the scan that came before.
AdmissibleByCount(i) ==
    /\ status[i] # "NONE"
    /\ window[i] = "open"
    /\ useCount[i] < MaxUses[i]

\* What a check-in asks of the invitation it reads.
Admissible(i) ==
    /\ status[i] = "APPROVED"
    /\ window[i] = "open"
    /\ useCount[i] < MaxUses[i]

ReadToCheckIn(r, i) ==
    /\ request[r] = Idle
    /\ Admissible(i)
    /\ request' = [request EXCEPT ![r] = [At("checkin", i) EXCEPT !.count = useCount[i]]]
    /\ UNCHANGED <<passVars, visitVars, scanVars, cutShort, card>>

\* Faulty variant: a pass is used up by its first use.
StatusAfterFirstUse(i, count) == "USED"

StatusAfterUse(i, count) == IF count + 1 >= MaxUses[i] THEN "USED" ELSE "APPROVED"

\* Faulty variant: without the use count in the WHERE clause.
UnconsumedAssumed(r) == TRUE

\* No use was consumed since this check-in read the invitation.
Unconsumed(r) == useCount[request[r].of] = request[r].count

\* The transaction: consume one use, create the visit, record that it came in.
CheckIn(r, v) ==
    LET i == request[r].of IN
    /\ request[r].pc = "checkin"
    /\ Unconsumed(r)
    /\ visit[v] = "NONE"
    /\ useCount' = [useCount EXCEPT ![i] = @ + 1]
    /\ status' = [status EXCEPT ![i] = StatusAfterUse(i, request[r].count)]
    /\ visit' = [visit EXCEPT ![v] = "ON_SITE"]
    /\ admittedOn' = [admittedOn EXCEPT ![v] = i]
    /\ qrRows' = [qrRows EXCEPT ![<<i, "GRANTED">>] = @ + 1]
    /\ request' = [request EXCEPT ![r] = Idle]
    /\ UNCHANGED <<approvedAt, window, inEvents, outEvents, raced, answers, cutShort, card>>

\* ConcurrentUse: another gate was first.
CheckInLoses(r) ==
    /\ request[r].pc = "checkin"
    /\ ~ Unconsumed(r)
    /\ request' = [request EXCEPT ![r] = Idle]
    /\ UNCHANGED <<passVars, visitVars, scanVars, cutShort, card>>

\* A walk-in's visit and its event are two writes.
WalkIn(r, v) ==
    /\ request[r] = Idle
    /\ visit[v] = "NONE"
    /\ visit' = [visit EXCEPT ![v] = "ON_SITE"]
    /\ request' = [request EXCEPT ![r] = At("walkin", v)]
    /\ UNCHANGED <<passVars, admittedOn, inEvents, outEvents, raced, scanVars, cutShort, card>>

RecordWalkIn(r) ==
    /\ request[r].pc = "walkin"
    /\ inEvents' = [inEvents EXCEPT ![request[r].of] = @ + 1]
    /\ request' = [request EXCEPT ![r] = Idle]
    /\ UNCHANGED <<passVars, visit, admittedOn, outEvents, raced, scanVars, cutShort, card>>

ReadToCheckOut(r, v) ==
    /\ request[r] = Idle
    /\ visit[v] = "ON_SITE"
    /\ request' = [request EXCEPT ![r] = At("checkout", v)]
    /\ UNCHANGED <<passVars, visitVars, scanVars, cutShort, card>>

CheckOut(r) ==
    /\ request[r].pc = "checkout"
    /\ visit' = [visit EXCEPT ![request[r].of] = "CHECKED_OUT"]
    /\ request' = [request EXCEPT ![r] = At("leaving", request[r].of)]
    /\ raced' = IF \E q \in Request \ {r} : request[q] = request[r]
                THEN raced \cup {request[r].of} ELSE raced
    /\ UNCHANGED <<passVars, admittedOn, inEvents, outEvents, scanVars, cutShort, card>>

RecordCheckOut(r) ==
    /\ request[r].pc = "leaving"
    /\ outEvents' = [outEvents EXCEPT ![request[r].of] = @ + 1]
    /\ request' = [request EXCEPT ![r] = Idle]
    /\ UNCHANGED <<passVars, visit, admittedOn, inEvents, raced, scanVars, cutShort, card>>

-----------------------------------------------------------------------------
(* Cards. *)

IssueCard(c) ==
    /\ card[c] = "NONE"
    /\ card' = [card EXCEPT ![c] = "ACTIVE"]
    /\ UNCHANGED <<passVars, visitVars, scanVars, cutShort, request>>

\* A suspended card can still be revoked; a revoked one can be neither.
ReadToSuspend(r, c, step) ==
    /\ request[r] = Idle
    /\ card[c] \in (IF step = "revoke" THEN {"ACTIVE", "SUSPENDED"} ELSE {"ACTIVE"})
    /\ request' = [request EXCEPT ![r] = At(step, c)]
    /\ UNCHANGED <<passVars, visitVars, scanVars, cutShort, card>>

\* Faulty variant: any card that is not in service can be returned to it.
ReadToReinstateAny(r, c) ==
    /\ request[r] = Idle
    /\ card[c] \in {"SUSPENDED", "REVOKED"}
    /\ request' = [request EXCEPT ![r] = At("reinstate", c)]
    /\ UNCHANGED <<passVars, visitVars, scanVars, cutShort, card>>

ReadToReinstate(r, c) ==
    /\ request[r] = Idle
    /\ card[c] = "SUSPENDED"
    /\ request' = [request EXCEPT ![r] = At("reinstate", c)]
    /\ UNCHANGED <<passVars, visitVars, scanVars, cutShort, card>>

CardAfter(step) == CASE step = "suspend" -> "SUSPENDED"
                     [] step = "revoke" -> "REVOKED"
                     [] step = "reinstate" -> "ACTIVE"

WriteCard(r) ==
    /\ request[r].pc \in {"suspend", "revoke", "reinstate"}
    /\ card' = [card EXCEPT ![request[r].of] = CardAfter(request[r].pc)]
    /\ request' = [request EXCEPT ![r] = Idle]
    /\ UNCHANGED <<passVars, visitVars, scanVars, cutShort>>

-----------------------------------------------------------------------------
\* The process of a request dies between two awaits.
RequestDies(r) ==
    /\ request[r] # Idle
    /\ cutShort' = IF request[r].pc \in {"walkin", "leaving", "granted", "denied"}
                   THEN cutShort \cup {request[r].of} ELSE cutShort
    /\ cutShort' = cutShort \/ Cardinality(cutShort) < MaxCutShort
    /\ request' = [request EXCEPT ![r] = Idle]
    /\ UNCHANGED <<passVars, visitVars, scanVars, card>>

Next ==
    \/ \E i \in Invitation : Invite(i, "PENDING") \/ Invite(i, "APPROVED") \/ TimePasses(i)
    \/ \E c \in Card : IssueCard(c)
    \/ \E r \in Request :
        \/ \E i \in Invitation : \/ ReadToDecide(r, i) \/ ReadToCancel(r, i)
                                \/ ReadToCheckIn(r, i) \/ ScanPass(r, i)
        \/ RecordScan(r, "grant", "GRANTED", "granted") \/ AnswerScan(r, "granted", "GRANTED")
        \/ RecordScan(r, "deny", "DENIED", "denied") \/ AnswerScan(r, "denied", "DENIED")
        \/ Decide(r, "APPROVED") \/ Decide(r, "REJECTED") \/ Cancel(r) \/ CheckInLoses(r)
        \/ \E v \in Visit : CheckIn(r, v) \/ WalkIn(r, v) \/ ReadToCheckOut(r, v)
        \/ RecordWalkIn(r) \/ CheckOut(r) \/ RecordCheckOut(r)
        \/ \E c \in Card : \/ ReadToSuspend(r, c, "suspend") \/ ReadToSuspend(r, c, "revoke")
                           \/ ReadToReinstate(r, c)
        \/ WriteCard(r) \/ RequestDies(r)

Spec == Init /\ [][Next]_vars

-----------------------------------------------------------------------------
(* Properties. *)

Admitted(i) == {v \in Visit : admittedOn[v] = i}

\* A scan is not busy with the pass it is about: it only reads it.
Busy(r, x) == request[r] # Idle /\ request[r].pc \notin Scanning /\ request[r].of = x
Quiet(x) == \A r \in Request : ~ Busy(r, x)

\* AdmissionsAreCounted: a pass admits exactly as many visits as its use count says, and
\* never more than it allows, however many gates scan it at once.  (the transaction of
\* checkInInvited; approvals and cancellations race with it)
AdmissionsAreCounted ==
    \A i \in Invitation : /\ Cardinality(Admitted(i)) = useCount[i]
                          /\ useCount[i] <= MaxUses[i]

\* OnlyTheApprovedEnter: nobody comes in on an invitation that nobody has approved.
\* (checkInInvited reads the status outside the transaction that relies on it)
OnlyTheApprovedEnter ==
    \A v \in Visit : admittedOn[v] \in Invitation => approvedAt[admittedOn[v]]

\* ScanAgrees: at every moment the answer of a scan and the decision of a check-in are
\* the same, though one lists the statuses that refuse and the other the one that does
\* not.  (passes/verify and visits/checkin)
ScanAgrees == \A i \in Invitation : ScanGrants(i) <=> Admissible(i)

\* HistoryHasNoHole: no guard was told the answer to a scan, and no use of a pass was
\* consumed, without its own row in the access history; and no row says more, unless a scan
\* is between its row and its answer or died there.  So a visitor who is scanned and then
\* admitted has two rows.  A walk-in nobody is busy with has one row for coming in, and any
\* visit one for leaving if it is checked out and none if not, unless a process died over
\* it; two requests that were checking it out at once may have written two.
\* (passes/verify, checkin, checkout)
Accounted(i, result) == answers[<<i, result>>] + (IF result = "GRANTED" THEN useCount[i] ELSE 0)
Shows(r, i, result) ==
    request[r].of = i /\ request[r].pc = (IF result = "GRANTED" THEN "granted" ELSE "denied")
HistoryHasNoHole ==
    /\ \A i \in Invitation, result \in Result :
          /\ qrRows[<<i, result>>] >= Accounted(i, result)
          /\ qrRows[<<i, result>>] > Accounted(i, result) =>
                i \in cutShort \/ \E r \in Request : Shows(r, i, result)
    /\ \A v \in Visit : visit[v] # "NONE" /\ Quiet(v) /\ v \notin cutShort =>
          /\ admittedOn[v] = Nobody => inEvents[v] = 1
          /\ outEvents[v] > 0 <=> visit[v] = "CHECKED_OUT"
          /\ v \notin raced => outEvents[v] <= 1

\* WithdrawnForGood: a pass that is cancelled, or a card that is revoked, while no request
\* is busy with it stays so: only a request that read it earlier can bring it back.
\* ("The pass stops working at once", "A revoked card never comes back")
WithdrawnForGood ==
    [][/\ \A i \in Invitation : status[i] = "CANCELLED" /\ Quiet(i)
                                => status'[i] = "CANCELLED" /\ Quiet(i)'
       /\ \A c \in Card : card[c] = "REVOKED" /\ Quiet(c)
                          => card'[c] = "REVOKED" /\ Quiet(c)']_vars

-----------------------------------------------------------------------------
(* A promise the code does not keep: gate_twice.cfg refutes it. *)

\* "Close out a visit on departure and stamp the exit in the access history"; a second
\* request is told "This visitor is already checked out.": a visit leaves once.
ExitIsStampedOnce == \A v \in Visit : outEvents[v] <= 1
=============================================================================
