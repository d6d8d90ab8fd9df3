----------------------------- MODULE GateProofs -----------------------------
(***************************************************************************)
(* Theorems about Gate, for every set of invitations, visits, cards and    *)
(* requests, and every number of uses a pass allows.                       *)
(***************************************************************************)
EXTENDS Gate, FiniteSetTheorems, TLAPS

\* What a request is about goes with where it is, and it read a row that exists.
RequestsOK ==
    \A r \in Request :
        /\ request[r].pc = "idle" => request[r] = Idle
        /\ request[r].pc \in {"checkin", "decide", "cancel"} \cup Scanning =>
              request[r].of \in Invitation /\ status[request[r].of] # "NONE"
        /\ request[r].pc \in {"walkin", "checkout", "leaving"} =>
              request[r].of \in Visit /\ visit[request[r].of] # "NONE"
        /\ request[r].pc \in {"suspend", "revoke", "reinstate"} => request[r].of \in Card
        /\ request[r].pc # "checkin" => request[r].count = 0

\* What a check-in read is still true where it matters: an approval is never unsaid.
PassesOK ==
    /\ \A r \in Request : request[r].pc = "checkin" =>
          request[r].count < MaxUses[request[r].of] /\ approvedAt[request[r].of]
    /\ \A i \in Invitation :
          /\ status[i] \in {"APPROVED", "USED"} => approvedAt[i]
          /\ status[i] = "NONE" => ~ approvedAt[i]
          /\ status[i] = "USED" => useCount[i] = MaxUses[i]
          /\ useCount[i] <= MaxUses[i]
    /\ \A v \in Visit : visit[v] = "NONE" => admittedOn[v] = Nobody
    /\ OnlyTheApprovedEnter

UsesAreAdmissions == \A i \in Invitation : Cardinality(Admitted(i)) = useCount[i]

LEMMA TypeInit == Init => TypeOK /\ RequestsOK
  BY DEF Init, TypeOK, RequestsOK, Idle, RequestPc, Scanning

LEMMA TypeStep == ASSUME TypeOK, RequestsOK, [Next]_vars
                  PROVE  TypeOK' /\ RequestsOK'
<1> USE ConstantsAssumption DEF TypeOK, RequestsOK, passVars, visitVars, scanVars, Idle, At,
        RequestPc, Scanning, Result, InvitationStatus, CardStatus
<1>1. ASSUME NEW i \in Invitation, NEW s \in {"PENDING", "APPROVED"}, Invite(i, s)
      PROVE  TypeOK' /\ RequestsOK'
  BY <1>1 DEF Invite
<1>2. ASSUME NEW i \in Invitation, TimePasses(i)
      PROVE  TypeOK' /\ RequestsOK'
  BY <1>2 DEF TimePasses
<1>3. ASSUME NEW c \in Card, IssueCard(c)
      PROVE  TypeOK' /\ RequestsOK'
  BY <1>3 DEF IssueCard
<1>4. ASSUME NEW r \in Request, NEW i \in Invitation, ReadToDecide(r, i)
      PROVE  TypeOK' /\ RequestsOK'
  BY <1>4 DEF ReadToDecide
<1>5. ASSUME NEW r \in Request, NEW i \in Invitation, ReadToCancel(r, i)
      PROVE  TypeOK' /\ RequestsOK'
  BY <1>5 DEF ReadToCancel
<1>6. ASSUME NEW r \in Request, NEW i \in Invitation, ReadToCheckIn(r, i)
      PROVE  TypeOK' /\ RequestsOK'
  BY <1>6 DEF ReadToCheckIn, Admissible
<1>7. ASSUME NEW r \in Request, NEW s \in {"APPROVED", "REJECTED"}, Decide(r, s)
      PROVE  TypeOK' /\ RequestsOK'
  BY <1>7 DEF Decide
<1>8. ASSUME NEW r \in Request, Cancel(r)
      PROVE  TypeOK' /\ RequestsOK'
  BY <1>8 DEF Cancel
<1>9. ASSUME NEW r \in Request, CheckInLoses(r)
      PROVE  TypeOK' /\ RequestsOK'
  BY <1>9 DEF CheckInLoses
<1>10. ASSUME NEW r \in Request, NEW v \in Visit, CheckIn(r, v)
       PROVE  TypeOK' /\ RequestsOK'
  <2> DEFINE i == request[r].of
             s == StatusAfterUse(i, request[r].count)
  <2>1. i \in Invitation /\ s \in {"USED", "APPROVED"}
    BY <1>10 DEF CheckIn, StatusAfterUse
  <2>2. /\ useCount' = [useCount EXCEPT ![i] = @ + 1]
        /\ status' = [status EXCEPT ![i] = s]
        /\ visit' = [visit EXCEPT ![v] = "ON_SITE"]
        /\ admittedOn' = [admittedOn EXCEPT ![v] = i]
        /\ qrRows' = [qrRows EXCEPT ![<<i, "GRANTED">>] = @ + 1]
        /\ request' = [request EXCEPT ![r] = Idle]
        /\ UNCHANGED <<approvedAt, window, inEvents, outEvents, raced, answers, cutShort, card>>
    BY <1>10 DEF CheckIn
  <2> HIDE DEF s, i
  <2>3. QED BY <2>1, <2>2
<1>11. ASSUME NEW r \in Request, NEW v \in Visit, WalkIn(r, v)
       PROVE  TypeOK' /\ RequestsOK'
  BY <1>11 DEF WalkIn
<1>12. ASSUME NEW r \in Request, RecordWalkIn(r)
       PROVE  TypeOK' /\ RequestsOK'
  BY <1>12 DEF RecordWalkIn
<1>13. ASSUME NEW r \in Request, NEW v \in Visit, ReadToCheckOut(r, v)
       PROVE  TypeOK' /\ RequestsOK'
  BY <1>13 DEF ReadToCheckOut
<1>14. ASSUME NEW r \in Request, CheckOut(r)
       PROVE  TypeOK' /\ RequestsOK'
  BY <1>14 DEF CheckOut
<1>15. ASSUME NEW r \in Request, RecordCheckOut(r)
       PROVE  TypeOK' /\ RequestsOK'
  BY <1>15 DEF RecordCheckOut
<1>16. ASSUME NEW r \in Request, NEW c \in Card, NEW step \in {"suspend", "revoke"},
              ReadToSuspend(r, c, step)
       PROVE  TypeOK' /\ RequestsOK'
  BY <1>16 DEF ReadToSuspend
<1>17. ASSUME NEW r \in Request, NEW c \in Card, ReadToReinstate(r, c)
       PROVE  TypeOK' /\ RequestsOK'
  BY <1>17 DEF ReadToReinstate
<1>18. ASSUME NEW r \in Request, WriteCard(r)
       PROVE  TypeOK' /\ RequestsOK'
  BY <1>18 DEF WriteCard, CardAfter
<1>19. ASSUME NEW r \in Request, RequestDies(r)
       PROVE  TypeOK' /\ RequestsOK'
  BY <1>19 DEF RequestDies
<1>20. CASE UNCHANGED vars
  BY <1>20 DEF vars
<1>22. ASSUME NEW r \in Request, NEW i \in Invitation, ScanPass(r, i)
       PROVE  TypeOK' /\ RequestsOK'
  <2>1. PICK step \in {"grant", "deny"} : request' = [request EXCEPT ![r] = At(step, i)]
    BY <1>22 DEF ScanPass
  <2>2. status[i] # "NONE" /\ UNCHANGED <<passVars, visitVars, scanVars, cutShort, card>>
    BY <1>22 DEF ScanPass
  <2>3. QED BY <2>1, <2>2
<1>23. ASSUME NEW r \in Request, NEW x \in Result, NEW step, NEW next \in {"granted", "denied"},
              step \in {"grant", "deny"}, RecordScan(r, step, x, next)
       PROVE  TypeOK' /\ RequestsOK'
  <2>1. request[r].of \in Invitation /\ status[request[r].of] # "NONE"
    BY <1>23 DEF RecordScan
  <2>2. qrRows' \in [Invitation \X Result -> Nat]
    BY <1>23, <2>1 DEF RecordScan
  <2>3. /\ request' = [request EXCEPT ![r].pc = next]
        /\ UNCHANGED <<passVars, visitVars, answers, cutShort, card>>
    BY <1>23 DEF RecordScan
  <2>4. request' = [request EXCEPT ![r] = At(next, request[r].of)]
    BY <1>23, <2>3 DEF RecordScan
  <2>5. QED BY <2>1, <2>2, <2>3, <2>4
<1>24. ASSUME NEW r \in Request, NEW x \in Result, NEW step, step \in {"granted", "denied"},
              AnswerScan(r, step, x)
       PROVE  TypeOK' /\ RequestsOK'
  <2>1. request[r].of \in Invitation
    BY <1>24 DEF AnswerScan
  <2>2. answers' \in [Invitation \X Result -> Nat]
    BY <1>24, <2>1 DEF AnswerScan
  <2>3. request' = [request EXCEPT ![r] = Idle]
        /\ UNCHANGED <<passVars, visitVars, qrRows, cutShort, card>>
    BY <1>24 DEF AnswerScan
  <2>4. QED BY <2>2, <2>3
<1>25. ASSUME NEW r \in Request,
              \/ RecordScan(r, "grant", "GRANTED", "granted")
              \/ RecordScan(r, "deny", "DENIED", "denied")
              \/ AnswerScan(r, "granted", "GRANTED") \/ AnswerScan(r, "denied", "DENIED")
       PROVE  TypeOK' /\ RequestsOK'
  BY ONLY <1>23, <1>24, <1>25 DEF Result
<1> HIDE DEF TypeOK, RequestsOK
<1>21. QED BY <1>1, <1>2, <1>3, <1>4, <1>5, <1>6, <1>7, <1>8, <1>9, <1>10, <1>11, <1>12,
              <1>13, <1>14, <1>15, <1>16, <1>17, <1>18, <1>19, <1>20, <1>22, <1>25 DEF Next

\* Every row and every request keeps its type.
THEOREM TypeCorrect == Spec => []TypeOK
<1>1. TypeOK /\ RequestsOK /\ [Next]_vars => (TypeOK /\ RequestsOK)'
  BY TypeStep
<1>2. QED BY TypeInit, <1>1, PTL DEF Spec

-----------------------------------------------------------------------------
(* Passes and the visits they admit. *)

LEMMA PassesInit == Init => PassesOK /\ UsesAreAdmissions
<1>1. ASSUME Init
      PROVE  PassesOK
  BY <1>1, ConstantsAssumption DEF Init, PassesOK, OnlyTheApprovedEnter, Idle
<1>2. ASSUME Init
      PROVE  UsesAreAdmissions
  <2>1. \A i \in Invitation : Admitted(i) = {} /\ useCount[i] = 0
    BY <1>2, ConstantsAssumption DEF Init, Admitted
  <2>2. QED BY <2>1, FS_EmptySet DEF UsesAreAdmissions
<1>3. QED BY <1>1, <1>2

\* One more visit admitted on a pass is one more use of it, and of no other.
LEMMA AdmissionAddsOne ==
  ASSUME TypeOK, PassesOK, UsesAreAdmissions, NEW i \in Invitation, NEW v \in Visit,
         visit[v] = "NONE",
         admittedOn' = [admittedOn EXCEPT ![v] = i], useCount' = [useCount EXCEPT ![i] = @ + 1]
  PROVE  UsesAreAdmissions'
<1>1. v \notin Admitted(i) /\ admittedOn[v] = Nobody
  BY ConstantsAssumption DEF PassesOK, Admitted
<1>2. Admitted(i)' = Admitted(i) \cup {v}
  BY DEF Admitted, TypeOK
<1>3. IsFiniteSet(Admitted(i))
  BY FS_Subset, ConstantsAssumption DEF Admitted
<1>4. Cardinality(Admitted(i)') = Cardinality(Admitted(i)) + 1
  BY <1>1, <1>2, <1>3, FS_AddElement
<1>5. \A j \in Invitation \ {i} : Admitted(j)' = Admitted(j)
  BY <1>1, ConstantsAssumption DEF Admitted, TypeOK
<1>6. QED BY <1>4, <1>5 DEF UsesAreAdmissions, TypeOK

\* What a step of a scan does to its request, and leaves alone.
LEMMA ScanIsRead ==
  ASSUME TypeOK, RequestsOK, NEW r \in Request,
         \/ \E i \in Invitation : ScanPass(r, i)
         \/ RecordScan(r, "grant", "GRANTED", "granted")
         \/ RecordScan(r, "deny", "DENIED", "denied")
         \/ AnswerScan(r, "granted", "GRANTED") \/ AnswerScan(r, "denied", "DENIED")
  PROVE  /\ UNCHANGED <<passVars, visitVars, cutShort, card>>
         /\ UNCHANGED <<status, useCount, approvedAt, visit, admittedOn>>
         /\ \A x \in {request[r], request'[r]} : x = Idle \/ x.pc \in Scanning
         /\ \A q \in Request : q # r => request'[q] = request[q]
<1> USE DEF TypeOK, passVars, visitVars, Idle, At, Scanning
<1>1. ASSUME NEW i \in Invitation, ScanPass(r, i)
      PROVE  /\ UNCHANGED <<passVars, visitVars, cutShort, card>>
             /\ \A x \in {request[r], request'[r]} : x = Idle \/ x.pc \in Scanning
             /\ \A q \in Request : q # r => request'[q] = request[q]
  BY <1>1 DEF ScanPass
<1>2. ASSUME \/ RecordScan(r, "grant", "GRANTED", "granted")
             \/ RecordScan(r, "deny", "DENIED", "denied")
      PROVE  /\ UNCHANGED <<passVars, visitVars, cutShort, card>>
             /\ \A x \in {request[r], request'[r]} : x = Idle \/ x.pc \in Scanning
             /\ \A q \in Request : q # r => request'[q] = request[q]
  BY <1>2 DEF RecordScan
<1>3. ASSUME AnswerScan(r, "granted", "GRANTED") \/ AnswerScan(r, "denied", "DENIED")
      PROVE  /\ UNCHANGED <<passVars, visitVars, cutShort, card>>
             /\ \A x \in {request[r], request'[r]} : x = Idle \/ x.pc \in Scanning
             /\ \A q \in Request : q # r => request'[q] = request[q]
  BY <1>3 DEF AnswerScan
<1>4. UNCHANGED <<passVars, visitVars>>
  BY <1>1, <1>2, <1>3
<1>5. QED BY <1>1, <1>2, <1>3, <1>4

LEMMA PassesStep ==
  ASSUME TypeOK, RequestsOK, PassesOK, UsesAreAdmissions, [Next]_vars
  PROVE  PassesOK' /\ UsesAreAdmissions'
<1> USE ConstantsAssumption DEF TypeOK, RequestsOK, PassesOK, OnlyTheApprovedEnter, passVars,
        visitVars, Idle, At
<1>1. ASSUME UNCHANGED <<useCount, admittedOn>>
      PROVE  UsesAreAdmissions'
  BY <1>1 DEF UsesAreAdmissions, Admitted
<1>2. ASSUME NEW i \in Invitation, NEW s \in {"PENDING", "APPROVED"}, Invite(i, s)
      PROVE  PassesOK' /\ UsesAreAdmissions'
  <2>1. /\ status[i] = "NONE" /\ status' = [status EXCEPT ![i] = s]
        /\ approvedAt' = [approvedAt EXCEPT ![i] = (s = "APPROVED")]
        /\ UNCHANGED <<useCount, visit, admittedOn, request>>
    BY <1>2 DEF Invite
  <2>2. \A j \in Invitation \ {i} : approvedAt'[j] = approvedAt[j] /\ status'[j] = status[j]
    BY <2>1
  <2>3. approvedAt'[i] = (s = "APPROVED") /\ status'[i] = s /\ ~ approvedAt[i]
    BY <2>1
  <2>4. \A j \in Invitation : approvedAt[j] => approvedAt'[j]
    BY <2>2, <2>3
  <2>5. \A j \in Invitation : /\ status'[j] \in {"APPROVED", "USED"} => approvedAt'[j]
                              /\ status'[j] = "NONE" => ~ approvedAt'[j]
                              /\ status'[j] = "USED" => useCount'[j] = MaxUses[j]
    <3>1. ASSUME NEW j \in Invitation \ {i}
          PROVE  /\ status'[j] \in {"APPROVED", "USED"} => approvedAt'[j]
                 /\ status'[j] = "NONE" => ~ approvedAt'[j]
                 /\ status'[j] = "USED" => useCount'[j] = MaxUses[j]
      BY <2>1, <2>2
    <3>2. s = "APPROVED" => approvedAt'[i]
      BY <2>3, Zenon
    <3>3. QED BY <2>1, <2>3, <3>1, <3>2
  <2>6. PassesOK'
    BY <2>1, <2>4, <2>5
  <2>7. QED BY <1>1, <2>1, <2>6
<1>3. ASSUME NEW r \in Request, NEW i \in Invitation, ReadToCheckIn(r, i)
      PROVE  PassesOK' /\ UsesAreAdmissions'
  <2>1. /\ request' = [request EXCEPT ![r] = [pc |-> "checkin", of |-> i, count |-> useCount[i]]]
        /\ useCount[i] < MaxUses[i] /\ approvedAt[i]
        /\ UNCHANGED <<status, useCount, approvedAt, visit, admittedOn>>
    <3>1. status[i] = "APPROVED" /\ useCount[i] < MaxUses[i]
      BY <1>3 DEF ReadToCheckIn, Admissible
    <3>2. approvedAt[i]
      BY <3>1
    <3>3. [At("checkin", i) EXCEPT !.count = useCount[i]]
             = [pc |-> "checkin", of |-> i, count |-> useCount[i]]
      OBVIOUS
    <3>4. QED BY <1>3, <3>1, <3>2, <3>3 DEF ReadToCheckIn
  <2>2. QED BY <1>1, <2>1
<1>4. ASSUME NEW r \in Request, NEW s \in {"APPROVED", "REJECTED"}, Decide(r, s)
      PROVE  PassesOK' /\ UsesAreAdmissions'
  <2>1. PICK i \in Invitation : i = request[r].of
    BY <1>4 DEF Decide
  <2>2. /\ status[i] # "NONE" /\ status' = [status EXCEPT ![i] = s]
        /\ approvedAt' = IF s = "APPROVED" THEN [approvedAt EXCEPT ![i] = TRUE] ELSE approvedAt
        /\ request' = [request EXCEPT ![r] = Idle]
        /\ UNCHANGED <<useCount, visit, admittedOn>>
    BY <1>4, <2>1 DEF Decide
  <2>3. \A j \in Invitation : approvedAt[j] => approvedAt'[j]
    BY <2>2
  <2>4. \A q \in Request : request'[q].pc = "checkin" => request'[q] = request[q]
    BY <2>2
  <2>5. \A j \in Invitation : /\ status'[j] \in {"APPROVED", "USED"} => approvedAt'[j]
                              /\ status'[j] = "NONE" => ~ approvedAt'[j]
                              /\ status'[j] = "USED" => useCount'[j] = MaxUses[j]
    BY <2>2, <2>3
  <2>6. PassesOK'
    BY <2>2, <2>3, <2>4, <2>5
  <2>7. QED BY <1>1, <2>2, <2>6
<1>5. ASSUME NEW r \in Request, Cancel(r)
      PROVE  PassesOK' /\ UsesAreAdmissions'
  BY <1>1, <1>5 DEF Cancel
<1>6. ASSUME NEW r \in Request, NEW v \in Visit, CheckIn(r, v)
      PROVE  PassesOK' /\ UsesAreAdmissions'
  <2>1. PICK i \in Invitation : i = request[r].of
    BY <1>6 DEF CheckIn
  <2> DEFINE s == StatusAfterUse(i, request[r].count)
  <2>2. /\ visit[v] = "NONE" /\ useCount[i] = request[r].count
        /\ useCount' = [useCount EXCEPT ![i] = @ + 1]
        /\ status' = [status EXCEPT ![i] = s]
        /\ visit' = [visit EXCEPT ![v] = "ON_SITE"]
        /\ admittedOn' = [admittedOn EXCEPT ![v] = i]
        /\ request' = [request EXCEPT ![r] = Idle]
        /\ UNCHANGED approvedAt
    BY <1>6, <2>1 DEF CheckIn, Unconsumed
  <2>3. useCount[i] < MaxUses[i] /\ approvedAt[i]
    BY <1>6, <2>1, <2>2 DEF CheckIn
  <2>4. /\ s \in {"USED", "APPROVED"}
        /\ s = "USED" => useCount[i] + 1 = MaxUses[i]
    BY <2>2, <2>3 DEF StatusAfterUse
  <2>5. UsesAreAdmissions'
    BY <2>2, AdmissionAddsOne
  <2> HIDE DEF s
  <2>6. \A j \in Invitation : /\ status'[j] \in {"APPROVED", "USED"} => approvedAt'[j]
                              /\ status'[j] = "NONE" => ~ approvedAt'[j]
                              /\ status'[j] = "USED" => useCount'[j] = MaxUses[j]
                              /\ useCount'[j] <= MaxUses[j]
    BY <2>2, <2>3, <2>4
  <2>7. PassesOK'
    BY <2>2, <2>3, <2>6
  <2>8. QED BY <2>5, <2>7
<1>7. ASSUME NEW r \in Request, NEW v \in Visit, WalkIn(r, v)
      PROVE  PassesOK' /\ UsesAreAdmissions'
  BY <1>1, <1>7 DEF WalkIn
<1>8. ASSUME NEW r \in Request, CheckOut(r)
      PROVE  PassesOK' /\ UsesAreAdmissions'
  BY <1>1, <1>8 DEF CheckOut
<1>9. ASSUME /\ UNCHANGED <<status, useCount, approvedAt, visit, admittedOn>>
             /\ \A q \in Request : request'[q].pc = "checkin" => request'[q] = request[q]
      PROVE  PassesOK' /\ UsesAreAdmissions'
  BY <1>1, <1>9
<1>10. ASSUME NEW r \in Request,
              \/ \E i \in Invitation : ReadToDecide(r, i) \/ ReadToCancel(r, i)
              \/ CheckInLoses(r) \/ RecordWalkIn(r) \/ RecordCheckOut(r)
              \/ \E v \in Visit : ReadToCheckOut(r, v)
       PROVE  PassesOK' /\ UsesAreAdmissions'
  BY <1>9, <1>10 DEF ReadToDecide, ReadToCancel, CheckInLoses, RecordWalkIn, RecordCheckOut,
                     ReadToCheckOut
<1>11. ASSUME NEW r \in Request,
              \/ \E c \in Card : \/ ReadToSuspend(r, c, "suspend") \/ ReadToSuspend(r, c, "revoke")
                                 \/ ReadToReinstate(r, c)
              \/ WriteCard(r) \/ RequestDies(r)
       PROVE  PassesOK' /\ UsesAreAdmissions'
  BY <1>9, <1>11 DEF ReadToSuspend, ReadToReinstate, WriteCard, RequestDies
<1>12. ASSUME (\E i \in Invitation : TimePasses(i)) \/ (\E c \in Card : IssueCard(c))
       PROVE  PassesOK' /\ UsesAreAdmissions'
  BY <1>9, <1>12 DEF TimePasses, IssueCard
<1>15. ASSUME NEW r \in Request,
              \/ \E i \in Invitation : ScanPass(r, i)
              \/ RecordScan(r, "grant", "GRANTED", "granted")
              \/ RecordScan(r, "deny", "DENIED", "denied")
              \/ AnswerScan(r, "granted", "GRANTED") \/ AnswerScan(r, "denied", "DENIED")
       PROVE  PassesOK' /\ UsesAreAdmissions'
  <2>1. /\ UNCHANGED <<passVars, visitVars, cutShort, card>>
        /\ UNCHANGED <<status, useCount, approvedAt, visit, admittedOn>>
        /\ \A x \in {request[r], request'[r]} : x = Idle \/ x.pc \in Scanning
        /\ \A q \in Request : q # r => request'[q] = request[q]
    BY ONLY TypeOK, RequestsOK, <1>15, ScanIsRead
  <2>2. \A q \in Request : request'[q].pc = "checkin" => request'[q] = request[q]
    BY ONLY <2>1 DEF Scanning, Idle
  <2>3. QED BY <1>9, <2>1, <2>2
<1>13. CASE UNCHANGED vars
  BY <1>9, <1>13 DEF vars
<1> HIDE DEF TypeOK
<1>14. QED
  BY <1>2, <1>3, <1>4, <1>5, <1>6, <1>7, <1>8, <1>10, <1>11, <1>12, <1>13, <1>15 DEF Next

\* What the three theorems below read off.
LEMMA PassesHold == Spec => [](TypeOK /\ PassesOK /\ UsesAreAdmissions)
<1>1. /\ TypeOK /\ RequestsOK /\ PassesOK /\ UsesAreAdmissions /\ [Next]_vars
      => (TypeOK /\ RequestsOK /\ PassesOK /\ UsesAreAdmissions)'
  BY TypeStep, PassesStep
<1>2. QED BY TypeInit, PassesInit, <1>1, PTL DEF Spec

\* A pass admits as many visits as its use count says and never more than it allows, however
\* many check-ins read it at once.
THEOREM AdmissionsAreCountedAlways == Spec => []AdmissionsAreCounted
<1>1. TypeOK /\ PassesOK /\ UsesAreAdmissions => AdmissionsAreCounted
  BY DEF PassesOK, UsesAreAdmissions, AdmissionsAreCounted
<1>2. QED BY PassesHold, <1>1, PTL

\* Nobody comes in on an invitation that nobody has approved, though decisions and
\* cancellations are written over whatever the invitation has become.
THEOREM OnlyTheApprovedEnterAlways == Spec => []OnlyTheApprovedEnter
<1>1. PassesOK => OnlyTheApprovedEnter
  BY DEF PassesOK
<1>2. QED BY PassesHold, <1>1, PTL

\* What a scan answers is what a check-in decides, in every state that is reached: a used
\* pass is the one whose count is at its maximum.
THEOREM ScanAgreesAlways == Spec => []ScanAgrees
<1>1. TypeOK /\ PassesOK => ScanAgrees
  BY ConstantsAssumption DEF TypeOK, PassesOK, ScanAgrees, ScanGrants, Admissible, InvitationStatus
<1>2. QED BY PassesHold, <1>1, PTL

-----------------------------------------------------------------------------
(* What was withdrawn. *)

LEMMA InvitationRead ==
  ASSUME TypeOK, NEW r \in Request, NEW i \in Invitation,
         ReadToDecide(r, i) \/ ReadToCancel(r, i) \/ ReadToCheckIn(r, i)
  PROVE  /\ request[r] = Idle
         /\ \E step \in {"decide", "cancel", "checkin"}, n \in Nat :
               request' = [request EXCEPT ![r] = [pc |-> step, of |-> i, count |-> n]]
<1>1. CASE ReadToDecide(r, i)
  BY <1>1 DEF ReadToDecide, At
<1>2. CASE ReadToCancel(r, i)
  BY <1>2 DEF ReadToCancel, At
<1>3. CASE ReadToCheckIn(r, i)
  <2>1. [At("checkin", i) EXCEPT !.count = useCount[i]]
           = [pc |-> "checkin", of |-> i, count |-> useCount[i]]
    BY DEF At
  <2>2. QED BY <1>3, <2>1 DEF ReadToCheckIn, TypeOK
<1>4. QED BY <1>1, <1>2, <1>3

LEMMA CancelledStays ==
  ASSUME TypeOK, RequestsOK, [Next]_vars, NEW i \in Invitation, status[i] = "CANCELLED", Quiet(i)
  PROVE  status'[i] = "CANCELLED" /\ Quiet(i)'
<1> USE ConstantsAssumption DEF TypeOK, RequestsOK, passVars, visitVars, Idle, At, Quiet, Busy,
        Scanning
<1>1. ASSUME NEW j \in Invitation, NEW s \in {"PENDING", "APPROVED"}, Invite(j, s)
      PROVE  status'[i] = "CANCELLED" /\ Quiet(i)'
  BY <1>1 DEF Invite
<1>2. ASSUME (\E j \in Invitation : TimePasses(j)) \/ (\E c \in Card : IssueCard(c))
      PROVE  status'[i] = "CANCELLED" /\ Quiet(i)'
  BY <1>2 DEF TimePasses, IssueCard
<1>3. ASSUME NEW r \in Request, NEW j \in Invitation,
             ReadToDecide(r, j) \/ ReadToCancel(r, j) \/ ReadToCheckIn(r, j)
      PROVE  status'[i] = "CANCELLED" /\ Quiet(i)'
  <2>1. j # i /\ UNCHANGED status
    BY <1>3 DEF ReadToDecide, ReadToCancel, ReadToCheckIn, Admissible
  <2>2. PICK step \in {"decide", "cancel", "checkin"}, n \in Nat :
            request' = [request EXCEPT ![r] = [pc |-> step, of |-> j, count |-> n]]
    BY <1>3, InvitationRead
  <2>3. QED BY <2>1, <2>2
<1>4. ASSUME NEW r \in Request, NEW s \in {"APPROVED", "REJECTED"}, Decide(r, s) \/ Cancel(r)
      PROVE  status'[i] = "CANCELLED" /\ Quiet(i)'
  BY <1>4 DEF Decide, Cancel
<1>5. ASSUME NEW r \in Request, NEW v \in Visit,
             CheckIn(r, v) \/ WalkIn(r, v) \/ ReadToCheckOut(r, v)
      PROVE  status'[i] = "CANCELLED" /\ Quiet(i)'
  <2>1. CASE CheckIn(r, v)
    BY <2>1 DEF CheckIn
  <2>2. CASE WalkIn(r, v)
    BY <2>2 DEF WalkIn
  <2>3. CASE ReadToCheckOut(r, v)
    BY <2>3 DEF ReadToCheckOut
  <2>4. QED BY <1>5, <2>1, <2>2, <2>3
<1>6. ASSUME NEW r \in Request,
             \/ CheckInLoses(r) \/ RecordWalkIn(r) \/ CheckOut(r) \/ RecordCheckOut(r)
             \/ WriteCard(r) \/ RequestDies(r)
      PROVE  status'[i] = "CANCELLED" /\ Quiet(i)'
  BY <1>6 DEF CheckInLoses, RecordWalkIn, CheckOut, RecordCheckOut, WriteCard, RequestDies
<1>7. ASSUME NEW r \in Request, NEW c \in Card,
             \/ ReadToSuspend(r, c, "suspend") \/ ReadToSuspend(r, c, "revoke")
             \/ ReadToReinstate(r, c)
      PROVE  status'[i] = "CANCELLED" /\ Quiet(i)'
  <2>1. \E step \in {"suspend", "revoke", "reinstate"} :
            request' = [request EXCEPT ![r] = At(step, c)]
    BY ONLY <1>7 DEF ReadToSuspend, ReadToReinstate
  <2>2. status' = status /\ c # i
    BY <1>7 DEF ReadToSuspend, ReadToReinstate
  <2>3. QED BY <2>1, <2>2
<1>8. CASE UNCHANGED vars
  BY <1>8 DEF vars
<1>10. ASSUME NEW r \in Request,
              \/ \E j \in Invitation : ScanPass(r, j)
              \/ RecordScan(r, "grant", "GRANTED", "granted")
              \/ RecordScan(r, "deny", "DENIED", "denied")
              \/ AnswerScan(r, "granted", "GRANTED") \/ AnswerScan(r, "denied", "DENIED")
       PROVE  status'[i] = "CANCELLED" /\ Quiet(i)'
  <2>1. /\ UNCHANGED <<passVars, visitVars, cutShort, card>>
        /\ UNCHANGED <<status, useCount, approvedAt, visit, admittedOn>>
        /\ \A x \in {request[r], request'[r]} : x = Idle \/ x.pc \in Scanning
        /\ \A q \in Request : q # r => request'[q] = request[q]
    BY ONLY TypeOK, RequestsOK, <1>10, ScanIsRead
  <2>2. QED BY ONLY <2>1, Quiet(i), status[i] = "CANCELLED", TypeOK DEF Quiet, Busy, Scanning, Idle
<1> HIDE DEF TypeOK
<1>9. QED BY <1>1, <1>2, <1>3, <1>4, <1>5, <1>6, <1>7, <1>8, <1>10 DEF Next

LEMMA RevokedStays ==
  ASSUME TypeOK, RequestsOK, [Next]_vars, NEW c \in Card, card[c] = "REVOKED", Quiet(c)
  PROVE  card'[c] = "REVOKED" /\ Quiet(c)'
<1> USE ConstantsAssumption DEF TypeOK, RequestsOK, passVars, visitVars, Idle, At, Quiet, Busy,
        Scanning
<1>1. ASSUME \/ \E i \in Invitation : Invite(i, "PENDING") \/ Invite(i, "APPROVED") \/ TimePasses(i)
             \/ \E d \in Card : IssueCard(d)
      PROVE  card'[c] = "REVOKED" /\ Quiet(c)'
  BY <1>1 DEF Invite, TimePasses, IssueCard
<1>2. ASSUME NEW r \in Request, NEW i \in Invitation,
             ReadToDecide(r, i) \/ ReadToCancel(r, i) \/ ReadToCheckIn(r, i)
      PROVE  card'[c] = "REVOKED" /\ Quiet(c)'
  <2>1. PICK step \in {"decide", "cancel", "checkin"}, n \in Nat :
            request' = [request EXCEPT ![r] = [pc |-> step, of |-> i, count |-> n]]
    BY <1>2, InvitationRead
  <2>2. UNCHANGED card /\ i # c
    BY <1>2 DEF ReadToDecide, ReadToCancel, ReadToCheckIn
  <2>3. QED BY <2>1, <2>2
<1>3. ASSUME NEW r \in Request, NEW v \in Visit,
             CheckIn(r, v) \/ WalkIn(r, v) \/ ReadToCheckOut(r, v)
      PROVE  card'[c] = "REVOKED" /\ Quiet(c)'
  <2>1. CASE CheckIn(r, v)
    BY <2>1 DEF CheckIn
  <2>2. CASE WalkIn(r, v)
    BY <2>2 DEF WalkIn
  <2>3. CASE ReadToCheckOut(r, v)
    BY <2>3 DEF ReadToCheckOut
  <2>4. QED BY <1>3, <2>1, <2>2, <2>3
<1>4. ASSUME NEW r \in Request,
             \/ Decide(r, "APPROVED") \/ Decide(r, "REJECTED") \/ Cancel(r) \/ CheckInLoses(r)
             \/ RecordWalkIn(r) \/ CheckOut(r) \/ RecordCheckOut(r) \/ RequestDies(r)
      PROVE  card'[c] = "REVOKED" /\ Quiet(c)'
  <2>1. CASE CheckOut(r)
    BY <2>1 DEF CheckOut
  <2>2. CASE ~ CheckOut(r)
    <3>1. card' = card /\ request' = [request EXCEPT ![r] = Idle]
      BY <1>4, <2>2 DEF Decide, Cancel, CheckInLoses, RecordWalkIn, RecordCheckOut, RequestDies
    <3>2. QED BY <3>1
  <2>3. QED BY <2>1, <2>2
<1>5. ASSUME NEW r \in Request, WriteCard(r)
      PROVE  card'[c] = "REVOKED" /\ Quiet(c)'
  BY <1>5 DEF WriteCard
<1>6. ASSUME NEW r \in Request, NEW d \in Card,
             \/ ReadToSuspend(r, d, "suspend") \/ ReadToSuspend(r, d, "revoke")
             \/ ReadToReinstate(r, d)
      PROVE  card'[c] = "REVOKED" /\ Quiet(c)'
  BY <1>6 DEF ReadToSuspend, ReadToReinstate
<1>7. CASE UNCHANGED vars
  BY <1>7 DEF vars
<1>9. ASSUME NEW r \in Request,
             \/ \E i \in Invitation : ScanPass(r, i)
             \/ RecordScan(r, "grant", "GRANTED", "granted")
             \/ RecordScan(r, "deny", "DENIED", "denied")
             \/ AnswerScan(r, "granted", "GRANTED") \/ AnswerScan(r, "denied", "DENIED")
      PROVE  card'[c] = "REVOKED" /\ Quiet(c)'
  <2>1. /\ UNCHANGED <<passVars, visitVars, cutShort, card>>
        /\ UNCHANGED <<status, useCount, approvedAt, visit, admittedOn>>
        /\ \A x \in {request[r], request'[r]} : x = Idle \/ x.pc \in Scanning
        /\ \A q \in Request : q # r => request'[q] = request[q]
    BY ONLY TypeOK, RequestsOK, <1>9, ScanIsRead
  <2>2. QED BY ONLY <2>1, Quiet(c), card[c] = "REVOKED", TypeOK DEF Quiet, Busy, Scanning, Idle
<1> HIDE DEF TypeOK
<1>8. QED BY <1>1, <1>2, <1>3, <1>4, <1>5, <1>6, <1>7, <1>9 DEF Next

\* A cancelled pass and a revoked card come back only by a request that read them before.
THEOREM Withdrawn == Spec => WithdrawnForGood
<1>1. TypeOK /\ RequestsOK /\ [Next]_vars => (TypeOK /\ RequestsOK)'
  BY TypeStep
<1>2. TypeOK /\ RequestsOK /\ [Next]_vars =>
        [/\ \A i \in Invitation : status[i] = "CANCELLED" /\ Quiet(i)
                                  => status'[i] = "CANCELLED" /\ Quiet(i)'
         /\ \A c \in Card : card[c] = "REVOKED" /\ Quiet(c)
                            => card'[c] = "REVOKED" /\ Quiet(c)']_vars
  BY CancelledStays, RevokedStays
<1>3. QED BY TypeInit, <1>1, <1>2, PTL DEF Spec, WithdrawnForGood

-----------------------------------------------------------------------------
(* The access history. *)

About(r, step, v) == request[r].pc = step /\ request[r].of = v

\* Between the two writes of a walk-in or of a check-out some request still owes the event;
\* and while a visit is not raced, only the request that wrote CHECKED_OUT owes its exit.
VisitsOK ==
    \A v \in Visit :
        /\ visit[v] = "NONE" => /\ inEvents[v] = 0 /\ outEvents[v] = 0 /\ v \notin cutShort
                                /\ admittedOn[v] = Nobody
        /\ inEvents[v] \in {0, 1}
        /\ \A r, q \in Request : About(r, "walkin", v) /\ About(q, "walkin", v) => r = q
        /\ \A r \in Request : About(r, "walkin", v) => inEvents[v] = 0
        /\ visit[v] # "NONE" /\ v \notin cutShort /\ admittedOn[v] = Nobody =>
              inEvents[v] = 1 \/ \E r \in Request : About(r, "walkin", v)
        /\ outEvents[v] > 0 => visit[v] = "CHECKED_OUT"
        /\ \A r \in Request : About(r, "leaving", v) => visit[v] = "CHECKED_OUT"
        /\ visit[v] = "CHECKED_OUT" /\ v \notin cutShort =>
              outEvents[v] > 0 \/ \E r \in Request : About(r, "leaving", v)

NotRaced(v) ==
    /\ visit[v] = "CHECKED_OUT" => \A r \in Request : ~ About(r, "checkout", v)
    /\ \A r, q \in Request : About(r, "leaving", v) /\ About(q, "leaving", v) => r = q
    /\ \A r \in Request : About(r, "leaving", v) => outEvents[v] = 0
    /\ outEvents[v] <= 1

HistoryOK == VisitsOK /\ \A v \in Visit : v \notin raced => NotRaced(v)

LEMMA HistoryInit == Init => HistoryOK
  BY DEF Init, HistoryOK, VisitsOK, NotRaced, About, Idle

Owing == {"walkin", "checkout", "leaving"}

\* Steps of requests that are about something else.
LEMMA SomethingElse ==
  ASSUME HistoryOK, UNCHANGED visitVars,
         \A v \in Visit : v \in cutShort' <=> v \in cutShort,
         \A r \in Request : request'[r].pc \in Owing \/ request[r].pc \in Owing
                            => request'[r] = request[r]
  PROVE  HistoryOK'
<1>1. \A r \in Request, v \in Visit : /\ About(r, "walkin", v)' <=> About(r, "walkin", v)
                                      /\ About(r, "checkout", v)' <=> About(r, "checkout", v)
                                      /\ About(r, "leaving", v)' <=> About(r, "leaving", v)
  BY DEF About, Owing
<1>2. UNCHANGED <<visit, admittedOn, inEvents, outEvents, raced>>
  BY DEF visitVars
<1>3. QED BY <1>1, <1>2 DEF HistoryOK, VisitsOK, NotRaced

LEMMA HistoryStep == ASSUME TypeOK, RequestsOK, HistoryOK, [Next]_vars
                     PROVE  HistoryOK'
<1> USE ConstantsAssumption DEF TypeOK, RequestsOK, HistoryOK, VisitsOK, NotRaced, About,
        passVars, visitVars, Idle, At
<1>1. ASSUME UNCHANGED <<visitVars, cutShort>>, NEW r \in Request,
             request[r].pc \notin Owing, request'[r].pc \notin Owing,
             \A q \in Request : q # r => request'[q] = request[q]
      PROVE  HistoryOK'
  BY ONLY HistoryOK, <1>1, SomethingElse
<1>2. ASSUME UNCHANGED <<visitVars, cutShort, request>>
      PROVE  HistoryOK'
  BY ONLY HistoryOK, <1>2, SomethingElse
<1>3. ASSUME \/ \E i \in Invitation : Invite(i, "PENDING") \/ Invite(i, "APPROVED") \/ TimePasses(i)
             \/ \E c \in Card : IssueCard(c)
             \/ UNCHANGED vars
      PROVE  UNCHANGED <<visitVars, cutShort, request>>
  BY ONLY <1>3 DEF Invite, TimePasses, IssueCard, vars
<1>4. ASSUME NEW r \in Request,
             \E c \in Card : \/ ReadToSuspend(r, c, "suspend") \/ ReadToSuspend(r, c, "revoke")
                             \/ ReadToReinstate(r, c)
      PROVE  HistoryOK'
  <2>1. \E c \in Card, step \in {"suspend", "revoke", "reinstate"} :
            request' = [request EXCEPT ![r] = At(step, c)]
    BY ONLY <1>4 DEF ReadToSuspend, ReadToReinstate
  <2>2. UNCHANGED <<visitVars, cutShort>> /\ request[r] = Idle
    BY ONLY <1>4 DEF ReadToSuspend, ReadToReinstate
  <2>3. QED BY <1>1, <2>1, <2>2 DEF Owing
<1>5. ASSUME NEW r \in Request, NEW i \in Invitation,
             ReadToDecide(r, i) \/ ReadToCancel(r, i) \/ ReadToCheckIn(r, i)
      PROVE  HistoryOK'
  <2>1. PICK step \in {"decide", "cancel", "checkin"}, n \in Nat :
            request' = [request EXCEPT ![r] = [pc |-> step, of |-> i, count |-> n]]
    BY <1>5, InvitationRead
  <2>2. UNCHANGED <<visitVars, cutShort>> /\ request[r].pc = "idle"
    BY <1>5, InvitationRead DEF ReadToDecide, ReadToCancel, ReadToCheckIn
  <2>3. QED BY <1>1, <2>1, <2>2 DEF Owing
<1>6. ASSUME NEW r \in Request,
             \/ \E i \in Invitation : ScanPass(r, i)
             \/ RecordScan(r, "grant", "GRANTED", "granted")
             \/ RecordScan(r, "deny", "DENIED", "denied")
             \/ AnswerScan(r, "granted", "GRANTED") \/ AnswerScan(r, "denied", "DENIED")
      PROVE  HistoryOK'
  <2>1. /\ UNCHANGED <<passVars, visitVars, cutShort, card>>
        /\ \A x \in {request[r], request'[r]} : x = Idle \/ x.pc \in Scanning
        /\ \A q \in Request : q # r => request'[q] = request[q]
    BY ONLY TypeOK, RequestsOK, <1>6, ScanIsRead
  <2>2. request[r].pc \notin Owing /\ request'[r].pc \notin Owing
    BY ONLY <2>1 DEF Owing, Scanning, Idle
  <2>3. QED BY ONLY <1>1, <2>1, <2>2
<1>7. ASSUME NEW r \in Request,
             \/ Decide(r, "APPROVED") \/ Decide(r, "REJECTED") \/ Cancel(r) \/ CheckInLoses(r)
             \/ WriteCard(r)
      PROVE  HistoryOK'
  <2>1. /\ request' = [request EXCEPT ![r] = Idle] /\ request[r].pc \notin Owing
        /\ UNCHANGED <<visitVars, cutShort>>
    BY ONLY <1>7 DEF Decide, Cancel, CheckInLoses, WriteCard, Owing
  <2>2. QED BY <1>1, <2>1 DEF Owing
<1>8. ASSUME NEW r \in Request, NEW v \in Visit, CheckIn(r, v)
      PROVE  HistoryOK'
  <2>1. /\ visit[v] = "NONE" /\ request[r].pc = "checkin" /\ request[r].of \in Invitation
        /\ visit' = [visit EXCEPT ![v] = "ON_SITE"]
        /\ admittedOn' = [admittedOn EXCEPT ![v] = request[r].of]
        /\ request' = [request EXCEPT ![r] = Idle]
        /\ UNCHANGED <<inEvents, outEvents, raced, cutShort>>
    BY <1>8 DEF CheckIn, Scanning
  <2>2. VisitsOK'
    BY <2>1
  <2>3. \A w \in Visit : w \notin raced' => NotRaced(w)'
    BY <2>1
  <2>4. QED BY <2>2, <2>3
<1>9. ASSUME NEW r \in Request, NEW v \in Visit, WalkIn(r, v)
      PROVE  HistoryOK'
  <2>1. /\ visit[v] = "NONE" /\ request[r].pc = "idle"
        /\ visit' = [visit EXCEPT ![v] = "ON_SITE"]
        /\ request' = [request EXCEPT ![r] = At("walkin", v)]
        /\ UNCHANGED <<admittedOn, inEvents, outEvents, raced, cutShort>>
    BY <1>9 DEF WalkIn
  <2>2. \A q \in Request : ~ About(q, "walkin", v)
    BY <2>1
  <2>3. VisitsOK'
    BY <2>1, <2>2
  <2>4. \A w \in Visit : w \notin raced' => NotRaced(w)'
    BY <2>1
  <2>5. QED BY <2>3, <2>4
<1>10. ASSUME NEW r \in Request, RecordWalkIn(r)
       PROVE  HistoryOK'
  <2>1. PICK v \in Visit : v = request[r].of
    BY <1>10 DEF RecordWalkIn
  <2>2. /\ About(r, "walkin", v) /\ inEvents' = [inEvents EXCEPT ![v] = @ + 1]
        /\ request' = [request EXCEPT ![r] = Idle]
        /\ UNCHANGED <<visit, admittedOn, outEvents, raced, cutShort>>
    BY <1>10, <2>1 DEF RecordWalkIn
  <2>3. VisitsOK'
    BY <2>2
  <2>4. \A w \in Visit : w \notin raced' => NotRaced(w)'
    BY <2>2
  <2>5. QED BY <2>3, <2>4
<1>11. ASSUME NEW r \in Request, NEW v \in Visit, ReadToCheckOut(r, v)
       PROVE  HistoryOK'
  <2>1. /\ visit[v] = "ON_SITE" /\ request[r].pc = "idle"
        /\ request' = [request EXCEPT ![r] = At("checkout", v)]
        /\ UNCHANGED <<visit, admittedOn, inEvents, outEvents, raced, cutShort>>
    BY <1>11 DEF ReadToCheckOut
  <2>2. VisitsOK'
    BY <2>1
  <2>3. \A w \in Visit : w \notin raced' => NotRaced(w)'
    BY <2>1
  <2>4. QED BY <2>2, <2>3
<1>12. ASSUME NEW r \in Request, CheckOut(r)
       PROVE  HistoryOK'
  <2>1. PICK v \in Visit : v = request[r].of
    BY <1>12 DEF CheckOut
  <2>2. /\ request[r].pc = "checkout" /\ visit[v] # "NONE"
        /\ visit' = [visit EXCEPT ![v] = "CHECKED_OUT"]
        /\ request' = [request EXCEPT ![r] = At("leaving", v)]
        /\ raced \subseteq raced' /\ raced' \subseteq raced \cup {v}
        /\ v \notin raced' => \A q \in Request \ {r} : request[q] # request[r]
        /\ UNCHANGED <<admittedOn, inEvents, outEvents, cutShort>>
    BY <1>12, <2>1 DEF CheckOut
  <2>3. VisitsOK'
    BY <2>2
  <2>4. v \notin raced' => \A q \in Request \ {r} : ~ About(q, "checkout", v)
    <3>1. ASSUME NEW q \in Request, About(q, "checkout", v) PROVE request[q] = request[r]
      BY <2>1, <2>2, <3>1
    <3>2. QED BY <2>2, <3>1
  <2>5. v \notin raced' => NotRaced(v)'
    <3>1. SUFFICES ASSUME v \notin raced' PROVE NotRaced(v)'
      OBVIOUS
    <3>2. visit[v] # "CHECKED_OUT"
      BY <2>1, <2>2, <3>1
    <3>3. outEvents[v] = 0 /\ \A q \in Request : ~ About(q, "leaving", v)
      BY <3>2
    <3>4. QED BY <2>2, <2>4, <3>1, <3>3
  <2>6. \A w \in Visit \ {v} : w \notin raced' => NotRaced(w)'
    BY <2>1, <2>2
  <2>7. QED BY <2>3, <2>5, <2>6
<1>13. ASSUME NEW r \in Request, RecordCheckOut(r)
       PROVE  HistoryOK'
  <2>1. PICK v \in Visit : v = request[r].of
    BY <1>13 DEF RecordCheckOut
  <2>2. /\ About(r, "leaving", v) /\ outEvents' = [outEvents EXCEPT ![v] = @ + 1]
        /\ request' = [request EXCEPT ![r] = Idle]
        /\ UNCHANGED <<visit, admittedOn, inEvents, raced, cutShort>>
    BY <1>13, <2>1 DEF RecordCheckOut
  <2>3. VisitsOK'
    BY <2>2
  <2>4. \A w \in Visit : w \notin raced' => NotRaced(w)'
    BY <2>2
  <2>5. QED BY <2>3, <2>4
<1>14. ASSUME NEW r \in Request, RequestDies(r)
       PROVE  HistoryOK'
  <2>1. /\ request' = [request EXCEPT ![r] = Idle]
        /\ cutShort \subseteq cutShort'
        /\ request[r].pc \in {"walkin", "leaving"} => request[r].of \in cutShort'
        /\ \A v \in Visit : v \in cutShort' => v \in cutShort \/ visit[v] # "NONE"
        /\ UNCHANGED <<visit, admittedOn, inEvents, outEvents, raced>>
    BY <1>14 DEF RequestDies, Scanning
  <2>2. VisitsOK'
    BY <2>1
  <2>3. \A w \in Visit : w \notin raced' => NotRaced(w)'
    BY <2>1
  <2>4. QED BY <2>2, <2>3
<1> HIDE DEF TypeOK, RequestsOK, HistoryOK
<1>15. QED
  BY <1>2, <1>3, <1>4, <1>5, <1>6, <1>7, <1>8, <1>9, <1>10, <1>11, <1>12, <1>13, <1>14 DEF Next

-----------------------------------------------------------------------------
(* The rows of passes: as many as the uses consumed, the answers given, and the *)
(* scans that are between their row and their answer.                           *)

Showing(i, x) == {r \in Request : Shows(r, i, x)}

RowsOf(i, x) ==
    /\ qrRows[<<i, x>>] >= Accounted(i, x) + Cardinality(Showing(i, x))
    /\ i \notin cutShort => qrRows[<<i, x>>] = Accounted(i, x) + Cardinality(Showing(i, x))

RowsOK == \A i \in Invitation, x \in Result : RowsOf(i, x)

LEMMA RowsInit == Init => RowsOK
<1>1. ASSUME Init, NEW i \in Invitation, NEW x \in Result PROVE RowsOf(i, x)
  <2>1. Showing(i, x) = {}
    BY <1>1 DEF Init, Showing, Shows, Idle
  <2>2. Cardinality(Showing(i, x)) = 0
    BY <2>1, FS_EmptySet
  <2>3. qrRows[<<i, x>>] = 0 /\ answers[<<i, x>>] = 0 /\ useCount[i] = 0
    BY <1>1 DEF Init
  <2>4. QED BY <2>2, <2>3 DEF RowsOf, Accounted
<1>2. QED BY <1>1 DEF RowsOK

LEMMA ShowingIsFinite ==
  ASSUME NEW i, NEW x
  PROVE  IsFiniteSet(Showing(i, x)) /\ Cardinality(Showing(i, x)) \in Nat
  BY FS_Subset, FS_CardinalityType, ConstantsAssumption DEF Showing

\* A request that begins to show an answer, or is done with it.
LEMMA ShowingMoves ==
  ASSUME TypeOK, NEW r \in Request, NEW i \in Invitation, NEW x \in Result,
         \A q \in Request : q # r => request'[q] = request[q]
  PROVE  /\ ~ Shows(r, i, x) /\ Shows(r, i, x)' =>
               Cardinality(Showing(i, x)') = Cardinality(Showing(i, x)) + 1
         /\ Shows(r, i, x) /\ ~ Shows(r, i, x)' =>
               Cardinality(Showing(i, x)') = Cardinality(Showing(i, x)) - 1
         /\ (Shows(r, i, x)' <=> Shows(r, i, x)) =>
               Cardinality(Showing(i, x)') = Cardinality(Showing(i, x))
<1>1. \A q \in Request : q # r => (Shows(q, i, x)' <=> Shows(q, i, x))
  BY DEF Shows
<1>2. ASSUME ~ Shows(r, i, x), Shows(r, i, x)'
      PROVE  Cardinality(Showing(i, x)') = Cardinality(Showing(i, x)) + 1
  <2>1. Showing(i, x)' = Showing(i, x) \cup {r} /\ r \notin Showing(i, x)
    BY <1>1, <1>2 DEF Showing
  <2>2. QED BY <2>1, ShowingIsFinite, FS_AddElement
<1>3. ASSUME Shows(r, i, x), ~ Shows(r, i, x)'
      PROVE  Cardinality(Showing(i, x)') = Cardinality(Showing(i, x)) - 1
  <2>1. Showing(i, x)' = Showing(i, x) \ {r} /\ r \in Showing(i, x)
    BY <1>1, <1>3 DEF Showing
  <2>2. QED BY <2>1, ShowingIsFinite, FS_RemoveElement
<1>4. ASSUME Shows(r, i, x)' <=> Shows(r, i, x)
      PROVE  Cardinality(Showing(i, x)') = Cardinality(Showing(i, x))
  <2>1. Showing(i, x)' = Showing(i, x)
    BY <1>1, <1>4 DEF Showing
  <2>2. QED BY <2>1, Zenon
<1>5. QED BY <1>2, <1>3, <1>4

\* Steps that write no row about a pass, answer no scan and consume no use.
LEMMA RowsElsewhere ==
  ASSUME TypeOK, RowsOK, NEW r \in Request, UNCHANGED <<qrRows, answers, useCount>>,
         cutShort \subseteq cutShort',
         \A q \in Request : q # r => request'[q] = request[q],
         request[r].pc \notin {"granted", "denied"}, request'[r].pc \notin {"granted", "denied"}
  PROVE  RowsOK'
<1>1. SUFFICES ASSUME NEW i \in Invitation, NEW x \in Result PROVE RowsOf(i, x)'
  BY DEF RowsOK
<1>2. Shows(r, i, x)' <=> Shows(r, i, x)
  BY DEF Shows
<1>3. Cardinality(Showing(i, x)') = Cardinality(Showing(i, x))
  BY <1>2, ShowingMoves
<1>4. RowsOf(i, x)
  BY DEF RowsOK
<1>5. QED BY <1>3, <1>4 DEF RowsOf, Accounted

\* Counting one more under one pair of a pass and a result.
LEMMA OneMore ==
  ASSUME NEW F, F \in [Invitation \X Result -> Nat], NEW G, NEW j, NEW x,
         G = [F EXCEPT ![<<j, x>>] = @ + 1], NEW i \in Invitation, NEW y \in Result
  PROVE  G[<<i, y>>] = F[<<i, y>>] + (IF i = j /\ y = x THEN 1 ELSE 0)
<1>1. <<i, y>> \in Invitation \X Result /\ F[<<i, y>>] \in Nat
  OBVIOUS
<1>2. CASE i = j /\ y = x
  BY <1>1, <1>2
<1>3. CASE ~ (i = j /\ y = x)
  <2>1. <<i, y>> # <<j, x>>
    BY <1>3
  <2>2. G[<<i, y>>] = F[<<i, y>>]
    BY <1>1, <2>1
  <2>3. QED BY <1>1, <1>3, <2>2
<1>4. QED BY <1>2, <1>3

LEMMA RowsStep == ASSUME TypeOK, RequestsOK, RowsOK, [Next]_vars
                  PROVE  RowsOK'
<1> USE DEF passVars, visitVars, scanVars
<1>1. ASSUME NEW r \in Request, NEW x \in Result, NEW step, NEW next,
             step \notin {"granted", "denied"},
             next = IF x = "GRANTED" THEN "granted" ELSE "denied", RecordScan(r, step, x, next)
      PROVE  RowsOK'
  <2> DEFINE j == request[r].of
  <2>1. SUFFICES ASSUME NEW i \in Invitation, NEW y \in Result PROVE RowsOf(i, y)'
    BY DEF RowsOK
  <2>2. /\ qrRows' = [qrRows EXCEPT ![<<j, x>>] = @ + 1]
        /\ request[r].pc = step /\ request' = [request EXCEPT ![r].pc = next]
        /\ UNCHANGED <<useCount, answers, cutShort>>
    BY <1>1 DEF RecordScan
  <2>3. /\ request'[r].pc = next /\ request'[r].of = j
        /\ \A q \in Request : q # r => request'[q] = request[q]
    BY <2>2 DEF TypeOK
  <2>4. ~ Shows(r, i, y) /\ (Shows(r, i, y)' <=> i = j /\ y = x)
    BY <1>1, <2>2, <2>3 DEF Shows, Result
  <2>5. Cardinality(Showing(i, y)')
           = Cardinality(Showing(i, y)) + (IF i = j /\ y = x THEN 1 ELSE 0)
    <3>1. CASE i = j /\ y = x
      BY <2>3, <2>4, <3>1, ShowingMoves
    <3>2. CASE ~ (i = j /\ y = x)
      <4>1. Cardinality(Showing(i, y)') = Cardinality(Showing(i, y))
        BY <2>3, <2>4, <3>2, ShowingMoves
      <4>2. QED BY <3>2, <4>1, ShowingIsFinite
    <3>3. QED BY <3>1, <3>2
  <2>6. qrRows'[<<i, y>>] = qrRows[<<i, y>>] + (IF i = j /\ y = x THEN 1 ELSE 0)
    <3>1. qrRows \in [Invitation \X Result -> Nat]
      BY DEF TypeOK
    <3>2. qrRows' = [qrRows EXCEPT ![<<j, x>>] = @ + 1]
      BY <2>2
    <3> HIDE DEF j
    <3>3. QED BY ONLY <3>1, <3>2, OneMore, i \in Invitation, y \in Result
  <2>7. Accounted(i, y)' = Accounted(i, y) /\ Accounted(i, y) \in Nat
    BY <2>2 DEF Accounted, TypeOK
  <2>8. RowsOf(i, y) /\ qrRows[<<i, y>>] \in Nat /\ Cardinality(Showing(i, y)) \in Nat
    BY ShowingIsFinite DEF RowsOK, TypeOK
  <2>9. QED BY <2>2, <2>5, <2>6, <2>7, <2>8 DEF RowsOf
<1>2. ASSUME NEW r \in Request, NEW x \in Result, NEW step,
             step = IF x = "GRANTED" THEN "granted" ELSE "denied", AnswerScan(r, step, x)
      PROVE  RowsOK'
  <2> DEFINE j == request[r].of
  <2>1. SUFFICES ASSUME NEW i \in Invitation, NEW y \in Result PROVE RowsOf(i, y)'
    BY DEF RowsOK
  <2>2. /\ answers' = [answers EXCEPT ![<<j, x>>] = @ + 1]
        /\ request[r].pc = step /\ request' = [request EXCEPT ![r] = Idle]
        /\ UNCHANGED <<useCount, qrRows, cutShort>>
    BY <1>2 DEF AnswerScan
  <2>3. request'[r].pc = "idle" /\ \A q \in Request : q # r => request'[q] = request[q]
    BY <2>2 DEF TypeOK, Idle
  <2>4. ~ Shows(r, i, y)' /\ (Shows(r, i, y) <=> i = j /\ y = x)
    BY <1>2, <2>2, <2>3 DEF Shows, Result
  <2>5. Cardinality(Showing(i, y)')
           = Cardinality(Showing(i, y)) - (IF i = j /\ y = x THEN 1 ELSE 0)
    <3>1. CASE i = j /\ y = x
      BY <2>3, <2>4, <3>1, ShowingMoves
    <3>2. CASE ~ (i = j /\ y = x)
      <4>1. Cardinality(Showing(i, y)') = Cardinality(Showing(i, y))
        BY <2>3, <2>4, <3>2, ShowingMoves
      <4>2. QED BY <3>2, <4>1, ShowingIsFinite
    <3>3. QED BY <3>1, <3>2
  <2>6. answers'[<<i, y>>] = answers[<<i, y>>] + (IF i = j /\ y = x THEN 1 ELSE 0)
    <3>1. answers \in [Invitation \X Result -> Nat]
      BY DEF TypeOK
    <3>2. answers' = [answers EXCEPT ![<<j, x>>] = @ + 1]
      BY <2>2
    <3> HIDE DEF j
    <3>3. QED BY ONLY <3>1, <3>2, OneMore, i \in Invitation, y \in Result
  <2>7. Accounted(i, y)' = Accounted(i, y) + (IF i = j /\ y = x THEN 1 ELSE 0)
    BY <2>2, <2>6 DEF Accounted, TypeOK
  <2>8. /\ RowsOf(i, y) /\ qrRows[<<i, y>>] \in Nat /\ Cardinality(Showing(i, y)) \in Nat
        /\ Accounted(i, y) \in Nat
    BY ShowingIsFinite DEF RowsOK, TypeOK, Accounted
  <2>9. QED BY <2>2, <2>5, <2>7, <2>8 DEF RowsOf
<1>3. ASSUME NEW r \in Request, NEW v \in Visit, CheckIn(r, v)
      PROVE  RowsOK'
  <2> DEFINE j == request[r].of
  <2>1. SUFFICES ASSUME NEW i \in Invitation, NEW y \in Result PROVE RowsOf(i, y)'
    BY DEF RowsOK
  <2>2. /\ qrRows' = [qrRows EXCEPT ![<<j, "GRANTED">>] = @ + 1]
        /\ useCount' = [useCount EXCEPT ![j] = @ + 1]
        /\ request[r].pc = "checkin" /\ request' = [request EXCEPT ![r] = Idle]
        /\ UNCHANGED <<answers, cutShort>>
    BY <1>3 DEF CheckIn
  <2>3. request'[r].pc = "idle" /\ \A q \in Request : q # r => request'[q] = request[q]
    BY <2>2 DEF TypeOK, Idle
  <2>4. ~ Shows(r, i, y)' /\ ~ Shows(r, i, y)
    BY <2>2, <2>3 DEF Shows
  <2>5. Cardinality(Showing(i, y)') = Cardinality(Showing(i, y))
    BY <2>3, <2>4, ShowingMoves
  <2>6. qrRows'[<<i, y>>] = qrRows[<<i, y>>] + (IF i = j /\ y = "GRANTED" THEN 1 ELSE 0)
    <3>1. qrRows \in [Invitation \X Result -> Nat]
      BY DEF TypeOK
    <3>2. qrRows' = [qrRows EXCEPT ![<<j, "GRANTED">>] = @ + 1]
      BY <2>2
    <3> HIDE DEF j
    <3>3. QED BY ONLY <3>1, <3>2, OneMore, i \in Invitation, y \in Result
  <2>7. useCount'[i] = useCount[i] + (IF i = j THEN 1 ELSE 0)
    BY <2>2 DEF TypeOK
  <2>10. Accounted(i, y)' = Accounted(i, y) + (IF i = j /\ y = "GRANTED" THEN 1 ELSE 0)
    <3>1. useCount[i] \in Nat /\ answers[<<i, y>>] \in Nat /\ answers' = answers
      BY <2>2 DEF TypeOK
    <3>2. useCount'[i] = useCount[i] + (IF i = j THEN 1 ELSE 0)
      BY <2>7
    <3> HIDE DEF j
    <3>3. CASE y = "GRANTED"
      BY ONLY <3>1, <3>2, <3>3 DEF Accounted
    <3>4. CASE y # "GRANTED"
      BY ONLY <3>1, <3>2, <3>4 DEF Accounted
    <3>5. QED BY <3>3, <3>4
  <2>8. /\ RowsOf(i, y) /\ qrRows[<<i, y>>] \in Nat /\ Cardinality(Showing(i, y)) \in Nat
        /\ Accounted(i, y) \in Nat
    BY ShowingIsFinite DEF RowsOK, TypeOK, Accounted
  <2>9. QED BY <2>2, <2>5, <2>6, <2>8, <2>10 DEF RowsOf
<1>4. ASSUME NEW r \in Request, RequestDies(r)
      PROVE  RowsOK'
  <2> DEFINE j == request[r].of
  <2>1. SUFFICES ASSUME NEW i \in Invitation, NEW y \in Result PROVE RowsOf(i, y)'
    BY DEF RowsOK
  <2>2. /\ request' = [request EXCEPT ![r] = Idle] /\ cutShort \subseteq cutShort'
        /\ request[r].pc \in {"granted", "denied"} => j \in cutShort'
        /\ UNCHANGED <<qrRows, answers, useCount>>
    BY <1>4 DEF RequestDies
  <2>3. request'[r].pc = "idle" /\ \A q \in Request : q # r => request'[q] = request[q]
    BY <2>2 DEF TypeOK, Idle
  <2>4. ~ Shows(r, i, y)' /\ (Shows(r, i, y) => i \in cutShort')
    BY <2>2, <2>3 DEF Shows
  <2>5. \/ Cardinality(Showing(i, y)') = Cardinality(Showing(i, y))
        \/ i \in cutShort' /\ Cardinality(Showing(i, y)') = Cardinality(Showing(i, y)) - 1
    BY <2>3, <2>4, ShowingMoves
  <2>6. Accounted(i, y)' = Accounted(i, y)
    BY <2>2 DEF Accounted
  <2>7. /\ RowsOf(i, y) /\ qrRows[<<i, y>>] \in Nat /\ Cardinality(Showing(i, y)) \in Nat
        /\ Accounted(i, y) \in Nat
    BY ShowingIsFinite DEF RowsOK, TypeOK, Accounted
  <2>8. QED BY <2>2, <2>5, <2>6, <2>7 DEF RowsOf
<1>5. ASSUME UNCHANGED <<qrRows, answers, useCount, cutShort, request>>
      PROVE  RowsOK'
  <2>1. SUFFICES ASSUME NEW i \in Invitation, NEW x \in Result PROVE RowsOf(i, x)'
    BY DEF RowsOK
  <2>2. Showing(i, x)' = Showing(i, x)
    BY <1>5 DEF Showing, Shows
  <2>3. Cardinality(Showing(i, x)') = Cardinality(Showing(i, x))
    BY <2>2, Zenon
  <2>4. RowsOf(i, x)
    BY DEF RowsOK
  <2>5. QED BY <1>5, <2>3, <2>4 DEF RowsOf, Accounted
<1>6. ASSUME \/ \E i \in Invitation : Invite(i, "PENDING") \/ Invite(i, "APPROVED") \/ TimePasses(i)
             \/ \E c \in Card : IssueCard(c)
             \/ UNCHANGED vars
      PROVE  UNCHANGED <<qrRows, answers, useCount, cutShort, request>>
  BY ONLY <1>6 DEF Invite, TimePasses, IssueCard, vars, passVars, scanVars
<1>7. ASSUME NEW r \in Request, NEW i \in Invitation,
             ReadToDecide(r, i) \/ ReadToCancel(r, i) \/ ReadToCheckIn(r, i)
      PROVE  RowsOK'
  <2>1. PICK step \in {"decide", "cancel", "checkin"}, n \in Nat :
            request' = [request EXCEPT ![r] = [pc |-> step, of |-> i, count |-> n]]
    BY <1>7, InvitationRead
  <2>2. UNCHANGED <<qrRows, answers, useCount, cutShort>> /\ request[r].pc = "idle"
    BY <1>7, InvitationRead DEF ReadToDecide, ReadToCancel, ReadToCheckIn, Idle
  <2>3. QED BY <2>1, <2>2, RowsElsewhere DEF TypeOK
<1>8. ASSUME NEW r \in Request, NEW i \in Invitation, ScanPass(r, i)
      PROVE  RowsOK'
  <2>1. PICK step \in {"grant", "deny"} : request' = [request EXCEPT ![r] = At(step, i)]
    BY <1>8 DEF ScanPass
  <2>2. UNCHANGED <<qrRows, answers, useCount, cutShort>> /\ request[r].pc = "idle"
    BY <1>8 DEF ScanPass, Idle
  <2>3. QED BY <2>1, <2>2, RowsElsewhere DEF TypeOK, At
<1>9. ASSUME NEW r \in Request,
             \/ \E c \in Card : \/ ReadToSuspend(r, c, "suspend") \/ ReadToSuspend(r, c, "revoke")
                                \/ ReadToReinstate(r, c)
             \/ \E v \in Visit : WalkIn(r, v) \/ ReadToCheckOut(r, v)
      PROVE  RowsOK'
  <2>1. \E x, step : /\ step \in {"suspend", "revoke", "reinstate", "walkin", "checkout"}
                     /\ request' = [request EXCEPT ![r] = At(step, x)]
    BY ONLY <1>9 DEF ReadToSuspend, ReadToReinstate, WalkIn, ReadToCheckOut
  <2>2. UNCHANGED <<qrRows, answers, useCount, cutShort>> /\ request[r] = Idle
    BY ONLY <1>9 DEF ReadToSuspend, ReadToReinstate, WalkIn, ReadToCheckOut, passVars, scanVars
  <2>3. /\ request[r].pc \notin {"granted", "denied"} /\ request'[r].pc \notin {"granted", "denied"}
        /\ \A q \in Request : q # r => request'[q] = request[q]
    BY <2>1, <2>2 DEF TypeOK, At, Idle
  <2>4. cutShort \subseteq cutShort'
    BY <2>2
  <2>5. QED BY ONLY TypeOK, RowsOK, r \in Request, <2>2, <2>3, <2>4, RowsElsewhere
<1>10. ASSUME NEW r \in Request,
              \/ Decide(r, "APPROVED") \/ Decide(r, "REJECTED") \/ Cancel(r) \/ CheckInLoses(r)
              \/ RecordWalkIn(r) \/ CheckOut(r) \/ RecordCheckOut(r) \/ WriteCard(r)
       PROVE  RowsOK'
  <2>1. /\ request' = [request EXCEPT ![r] = Idle]
           \/ request' = [request EXCEPT ![r] = At("leaving", request[r].of)]
        /\ request[r].pc \notin {"granted", "denied"}
        /\ UNCHANGED <<qrRows, answers, useCount, cutShort>>
    BY ONLY <1>10 DEF Decide, Cancel, CheckInLoses, RecordWalkIn, CheckOut, RecordCheckOut,
                      WriteCard, passVars, scanVars
  <2>2. QED BY <2>1, RowsElsewhere DEF TypeOK, At, Idle
<1>11. ASSUME NEW r \in Request,
              \/ RecordScan(r, "grant", "GRANTED", "granted")
              \/ RecordScan(r, "deny", "DENIED", "denied")
              \/ AnswerScan(r, "granted", "GRANTED") \/ AnswerScan(r, "denied", "DENIED")
       PROVE  RowsOK'
  BY ONLY <1>1, <1>2, <1>11 DEF Result
<1>12. QED
  BY <1>3, <1>4, <1>5, <1>6, <1>7, <1>8, <1>9, <1>10, <1>11 DEF Next

\* Every answer a guard was given and every use of a pass has its row, and every row of a
\* pass has its answer or its use, however the scans, check-ins and deaths of processes
\* interleave; once a visit is left alone its walk-in and its departure are recorded too,
\* the departure once unless two requests raced for it.
THEOREM HistoryIsWhole == Spec => []HistoryHasNoHole
<1>1. /\ TypeOK /\ RequestsOK /\ HistoryOK /\ RowsOK /\ [Next]_vars
      => (TypeOK /\ RequestsOK /\ HistoryOK /\ RowsOK)'
  BY TypeStep, HistoryStep, RowsStep
<1>2. TypeOK /\ HistoryOK /\ RowsOK => HistoryHasNoHole
  <2>1. SUFFICES ASSUME TypeOK, HistoryOK, RowsOK PROVE HistoryHasNoHole
    OBVIOUS
  <2>2. ASSUME NEW i \in Invitation, NEW x \in Result
        PROVE  /\ qrRows[<<i, x>>] >= Accounted(i, x)
               /\ qrRows[<<i, x>>] > Accounted(i, x) =>
                     i \in cutShort \/ \E r \in Request : Shows(r, i, x)
    <3>1. RowsOf(i, x) /\ qrRows[<<i, x>>] \in Nat /\ Cardinality(Showing(i, x)) \in Nat
      BY <2>1, ShowingIsFinite DEF RowsOK, TypeOK
    <3>2. Accounted(i, x) \in Nat
      BY <2>1 DEF Accounted, TypeOK
    <3>3. Cardinality(Showing(i, x)) > 0 => \E r \in Request : Shows(r, i, x)
      <4>1. Showing(i, x) = {} => Cardinality(Showing(i, x)) = 0
        BY FS_EmptySet
      <4>2. QED BY <3>1, <4>1 DEF Showing
    <3>4. QED BY <3>1, <3>2, <3>3 DEF RowsOf
  <2>3. ASSUME NEW v \in Visit, visit[v] # "NONE", Quiet(v), v \notin cutShort
        PROVE  /\ admittedOn[v] = Nobody => inEvents[v] = 1
               /\ outEvents[v] > 0 <=> visit[v] = "CHECKED_OUT"
               /\ v \notin raced => outEvents[v] <= 1
    <3>1. \A r \in Request : ~ About(r, "walkin", v) /\ ~ About(r, "leaving", v)
      BY <2>3 DEF Quiet, Busy, About, Idle, Scanning
    <3>2. QED BY <2>1, <2>3, <3>1 DEF TypeOK, HistoryOK, VisitsOK, NotRaced
  <2>4. QED BY <2>2, <2>3 DEF HistoryHasNoHole
<1>3. QED BY TypeInit, HistoryInit, RowsInit, <1>1, <1>2, PTL DEF Spec
=============================================================================
