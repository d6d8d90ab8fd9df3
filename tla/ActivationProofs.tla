-------------------------- MODULE ActivationProofs --------------------------
(***************************************************************************)
(* Theorems about Activation, for every set of overlapping requests.       *)
(***************************************************************************)
EXTENDS Activation, FiniteSetTheorems, TLAPS

\* What a handler holds goes with where it is.
HoldsOK(w) ==
    /\ w.pc \in {"save", "submit", "draft"} => w.what \in Declared
    /\ w.pc \in {"look", "activate"} => w.what \in RoleKey
    /\ w.pc = "staff" => w.what \in {"ACTIVE", "SUSPENDED"}

RequestRecord == [pc : Pc, what : Declared \cup RoleKey \cup Status \cup {"nothing"}, owner : BOOLEAN]

TypeInv == TypeOK /\ \A r \in Request : HoldsOK(request[r])

\* Roles come with approval and with the first activation; no status leads back before it.
RolesOK ==
    /\ approved => granted # {}
    /\ status = "ACTIVE" => approved
    /\ Activatable => granted = {}
    /\ \A r \in Request : request[r].pc = "staff" => approved

\* While no two activations ran at once, one at most is under way, and it is the first.
OneAtATime ==
    ~ overlapped =>
        /\ granted = {} \/ \E key \in RoleKey : granted = {key}
        /\ \A r \in Request : Activating(r) =>
              granted = {} /\ \A q \in Request : Activating(q) => q = r

Inv == TypeInv /\ RolesOK /\ OneAtATime

LEMMA InitInv == Init => Inv
<1> SUFFICES ASSUME Init
             PROVE  Inv
  OBVIOUS
<1>1. TypeInv
  BY DEF Init, TypeInv, TypeOK, HoldsOK, Idle, Pc, Status
<1>2. RolesOK
  BY DEF Init, RolesOK, Idle
<1>3. OneAtATime
  BY DEF Init, OneAtATime, Activating, Idle
<1>4. QED BY <1>1, <1>2, <1>3 DEF Inv

\* One handler moves to where it may be.
LEMMA OneRequest ==
  ASSUME TypeInv, NEW r \in Request, NEW w \in RequestRecord, HoldsOK(w),
         request' = [request EXCEPT ![r] = w]
  PROVE  /\ request' \in [Request -> RequestRecord]
         /\ \A q \in Request : HoldsOK(request[q])'
  BY DEF TypeInv, TypeOK, HoldsOK, RequestRecord

LEMMA IdleOK == Idle \in RequestRecord /\ HoldsOK(Idle)
  BY DEF Idle, RequestRecord, HoldsOK, Pc

\* A step that leaves the roles alone keeps them right: a handler that does not begin to
\* activate or to change the status, and a status that is none to activate from.
LEMMA Kept ==
  ASSUME Inv, NEW r \in Request, UNCHANGED <<approved, granted, overlapped>>,
         \A q \in Request \ {r} : request'[q] = request[q],
         request'[r].pc # "activate",
         request'[r].pc = "staff" => approved,
         status' = status \/ status' \in {"SUSPENDED", "REJECTED"} \/ (status' = "ACTIVE" /\ approved)
  PROVE  RolesOK' /\ OneAtATime'
<1>1. RolesOK'
  BY DEF Inv, RolesOK, Activatable
<1>2. \A q \in Request : Activating(q)' => Activating(q)
  BY DEF Activating
<1>3. OneAtATime'
  BY <1>2 DEF Inv, OneAtATime
<1>4. QED BY <1>1, <1>3

LEMMA NextInv == Inv /\ [Next]_vars => Inv'
<1> SUFFICES ASSUME Inv, [Next]_vars
             PROVE  Inv'
  OBVIOUS
<1>0. TypeInv /\ RolesOK /\ OneAtATime
  BY DEF Inv
<1> USE DEF Goto
<1>1. ASSUME NEW r \in Request, NEW d \in Declared, SubmitOnboarding(r, d)
      PROVE  Inv'
  <2>1. PICK step \in {"submit", "save"} : request' = [request EXCEPT ![r] = At(step, d, FALSE)]
    BY <1>1 DEF SubmitOnboarding
  <2>2. At(step, d, FALSE) \in RequestRecord /\ HoldsOK(At(step, d, FALSE))
    BY DEF At, RequestRecord, HoldsOK, Pc
  <2>3. UNCHANGED <<status, declared, completed, isOwner, approved, granted, overlapped>>
    BY <1>1 DEF SubmitOnboarding
  <2>4. TypeInv'
    BY <1>0, <2>1, <2>2, <2>3, OneRequest DEF TypeInv, TypeOK, RequestRecord
  <2>5. request'[r].pc \in {"submit", "save"} /\ \A q \in Request \ {r} : request'[q] = request[q]
    BY <1>0, <2>1 DEF TypeInv, TypeOK, At
  <2>6. QED BY <2>3, <2>4, <2>5, Kept DEF Inv
<1>2. ASSUME NEW r \in Request, SaveAnswers(r)
      PROVE  Inv'
  <2>1. PICK w : /\ request' = [request EXCEPT ![r] = w]
                 /\ w = Idle \/ w = At("look", ROLE_FOR(request[r].what), request[r].what = "landlord")
    BY <1>2 DEF SaveAnswers
  <2>2. w \in RequestRecord /\ HoldsOK(w) /\ w.pc \in {"idle", "look"}
    <3>1. ROLE_FOR(request[r].what) \in RoleKey /\ (request[r].what = "landlord") \in BOOLEAN
      BY DEF ROLE_FOR, RoleKey
    <3>2. CASE w = Idle
      BY <3>2, IdleOK DEF Idle
    <3>3. CASE w = At("look", ROLE_FOR(request[r].what), request[r].what = "landlord")
      BY <3>1, <3>3 DEF At, RequestRecord, HoldsOK, Pc
    <3>4. QED BY <2>1, <3>2, <3>3
  <2>3. /\ declared' \in Declared /\ completed' = TRUE
        /\ UNCHANGED <<status, isOwner, approved, granted, overlapped>>
    BY <1>0, <1>2 DEF SaveAnswers, TypeInv, HoldsOK
  <2>4. TypeInv'
    BY <1>0, <2>1, <2>2, <2>3, OneRequest DEF TypeInv, TypeOK, RequestRecord
  <2>5. request'[r].pc \in {"idle", "look"} /\ \A q \in Request \ {r} : request'[q] = request[q]
    BY <1>0, <2>1, <2>2 DEF TypeInv, TypeOK
  <2>6. QED BY <2>3, <2>4, <2>5, Kept DEF Inv
<1>3. ASSUME NEW r \in Request, NEW d \in Declared, ReadForDraft(r, d)
      PROVE  Inv'
  <2>1. /\ request' = [request EXCEPT ![r] = At("draft", d, FALSE)]
        /\ UNCHANGED <<status, declared, completed, isOwner, approved, granted, overlapped>>
    BY <1>3 DEF ReadForDraft
  <2>2. At("draft", d, FALSE) \in RequestRecord /\ HoldsOK(At("draft", d, FALSE))
    BY DEF At, RequestRecord, HoldsOK, Pc
  <2>3. TypeInv'
    BY <1>0, <2>1, <2>2, OneRequest DEF TypeInv, TypeOK, RequestRecord
  <2>4. request'[r].pc = "draft" /\ \A q \in Request \ {r} : request'[q] = request[q]
    BY <1>0, <2>1 DEF TypeInv, TypeOK, At
  <2>5. QED BY <2>1, <2>3, <2>4, Kept DEF Inv
<1>4. ASSUME NEW r \in Request, SaveDraft(r)
      PROVE  Inv'
  <2>1. /\ request' = [request EXCEPT ![r] = Idle] /\ declared' \in Declared
        /\ UNCHANGED <<status, completed, isOwner, approved, granted, overlapped>>
    BY <1>0, <1>4 DEF SaveDraft, TypeInv, HoldsOK
  <2>2. TypeInv'
    BY <1>0, <2>1, IdleOK, OneRequest DEF TypeInv, TypeOK, RequestRecord
  <2>3. request'[r].pc = "idle" /\ \A q \in Request \ {r} : request'[q] = request[q]
    BY <1>0, <2>1 DEF TypeInv, TypeOK, Idle
  <2>4. QED BY <2>1, <2>2, <2>3, Kept DEF Inv
<1>5. ASSUME NEW r \in Request, NEW key \in RoleKey, NEW owner \in BOOLEAN, ReadToApprove(r, key, owner)
      PROVE  Inv'
  <2>1. /\ request' = [request EXCEPT ![r] = At("look", key, owner)]
        /\ UNCHANGED <<status, declared, completed, isOwner, approved, granted, overlapped>>
    BY <1>5 DEF ReadToApprove
  <2>2. At("look", key, owner) \in RequestRecord /\ HoldsOK(At("look", key, owner))
    BY DEF At, RequestRecord, HoldsOK, Pc
  <2>3. TypeInv'
    BY <1>0, <2>1, <2>2, OneRequest DEF TypeInv, TypeOK, RequestRecord
  <2>4. request'[r].pc = "look" /\ \A q \in Request \ {r} : request'[q] = request[q]
    BY <1>0, <2>1 DEF TypeInv, TypeOK, At
  <2>5. QED BY <2>1, <2>3, <2>4, Kept DEF Inv
<1>6. ASSUME NEW r \in Request, ReadToReject(r)
      PROVE  Inv'
  <2>1. /\ request' = [request EXCEPT ![r] = At("reject", "nothing", FALSE)]
        /\ UNCHANGED <<status, declared, completed, isOwner, approved, granted, overlapped>>
    BY <1>6 DEF ReadToReject
  <2>2. At("reject", "nothing", FALSE) \in RequestRecord /\ HoldsOK(At("reject", "nothing", FALSE))
    BY DEF At, RequestRecord, HoldsOK, Pc
  <2>3. TypeInv'
    BY <1>0, <2>1, <2>2, OneRequest DEF TypeInv, TypeOK, RequestRecord
  <2>4. request'[r].pc = "reject" /\ \A q \in Request \ {r} : request'[q] = request[q]
    BY <1>0, <2>1 DEF TypeInv, TypeOK, At
  <2>5. QED BY <2>1, <2>3, <2>4, Kept DEF Inv
<1>7. ASSUME NEW r \in Request, Reject(r) \/ SuspendOrReactivate(r)
      PROVE  Inv'
  <2>1. /\ request' = [request EXCEPT ![r] = Idle]
        /\ UNCHANGED <<declared, completed, isOwner, approved, granted, overlapped>>
    BY <1>7 DEF Reject, SuspendOrReactivate
  <2>2. status' \in {"SUSPENDED", "REJECTED"} \/ (status' = "ACTIVE" /\ approved)
    BY <1>0, <1>7 DEF Reject, SuspendOrReactivate, TypeInv, HoldsOK, RolesOK
  <2>3. TypeInv'
    BY <1>0, <2>1, <2>2, IdleOK, OneRequest DEF TypeInv, TypeOK, RequestRecord, Status
  <2>4. request'[r].pc = "idle" /\ \A q \in Request \ {r} : request'[q] = request[q]
    BY <1>0, <2>1 DEF TypeInv, TypeOK, Idle
  <2>5. QED BY <2>1, <2>2, <2>3, <2>4, Kept DEF Inv
<1>8. ASSUME NEW r \in Request, LookAtStatus(r)
      PROVE  Inv'
  <2>1. CASE Activatable
    <3>1. /\ request[r].pc = "look"
          /\ request' = [request EXCEPT ![r] = [request[r] EXCEPT !.pc = "activate"]]
          /\ overlapped' = (overlapped \/ \E q \in Request : Activating(q))
          /\ UNCHANGED <<status, declared, completed, isOwner, approved, granted>>
      BY <1>8, <2>1 DEF LookAtStatus
    <3>2. [request[r] EXCEPT !.pc = "activate"] \in RequestRecord /\ HoldsOK([request[r] EXCEPT !.pc = "activate"])
      BY <1>0, <3>1 DEF TypeInv, TypeOK, RequestRecord, HoldsOK, Pc
    <3>3. overlapped' \in BOOLEAN
      BY <3>1
    <3>4. TypeInv'
      BY <1>0, <3>1, <3>2, <3>3, OneRequest DEF TypeInv, TypeOK, RequestRecord
    <3>5. \A q \in Request : q # r => request'[q] = request[q]
      BY <1>0, <3>1 DEF TypeInv, TypeOK
    <3>6. request'[r].pc = "activate"
      BY <1>0, <3>1 DEF TypeInv, TypeOK
    <3>7. RolesOK'
      BY <1>0, <3>1, <3>5, <3>6 DEF RolesOK, Activatable
    <3>8. OneAtATime'
      <4>1. granted' = {}
        BY <1>0, <2>1, <3>1 DEF RolesOK
      <4>2. ~ overlapped' => \A q \in Request : Activating(q)' => q = r
        BY <3>1, <3>5 DEF Activating
      <4>3. QED BY <4>1, <4>2 DEF OneAtATime
    <3>9. QED BY <3>4, <3>7, <3>8 DEF Inv
  <2>2. CASE ~ Activatable
    <3>1. request' = [request EXCEPT ![r] = Idle]
      BY <1>8, <2>2 DEF LookAtStatus
    <3>2. UNCHANGED <<status, declared, completed, isOwner, approved, granted>>
      BY <1>8, <2>2 DEF LookAtStatus
    <3>3. overlapped' = overlapped
      BY <1>0, <1>8, <2>2, Zenon DEF LookAtStatus, TypeInv, TypeOK
    <3>4. TypeInv'
      BY <1>0, <3>1, <3>2, <3>3, IdleOK, OneRequest DEF TypeInv, TypeOK, RequestRecord
    <3>5. request'[r].pc = "idle" /\ \A q \in Request \ {r} : request'[q] = request[q]
      BY <1>0, <3>1 DEF TypeInv, TypeOK, Idle
    <3>6. QED BY <3>2, <3>3, <3>4, <3>5, Kept DEF Inv
  <2>3. QED BY <2>1, <2>2
<1>9. ASSUME NEW r \in Request, Activate(r)
      PROVE  Inv'
  <2>1. /\ Activating(r) /\ request' = [request EXCEPT ![r] = Idle]
        /\ UNCHANGED <<declared, completed, overlapped>>
    BY <1>9 DEF Activate
  <2>2. request[r].what \in RoleKey /\ request[r].owner \in BOOLEAN
    BY <1>0, <2>1 DEF TypeInv, TypeOK, HoldsOK, Activating
  <2>3. request'[r].pc = "idle" /\ \A q \in Request \ {r} : request'[q] = request[q]
    BY <1>0, <2>1 DEF TypeInv, TypeOK, Idle
  <2>4. CASE request[r].what \in granted
    <3>1. UNCHANGED <<status, isOwner, approved, granted>>
      BY <1>9, <2>4 DEF Activate
    <3>2. TypeInv'
      BY <1>0, <2>1, <3>1, IdleOK, OneRequest DEF TypeInv, TypeOK, RequestRecord
    <3>3. QED BY <2>1, <2>3, <3>1, <3>2, Kept DEF Inv
  <2>5. CASE request[r].what \notin granted
    <3>1. /\ status' = "ACTIVE" /\ isOwner' = request[r].owner /\ approved' = TRUE
          /\ granted' = granted \cup {request[r].what}
      BY <1>9, <2>5 DEF Activate
    <3>2. TypeInv'
      BY <1>0, <2>1, <2>2, <3>1, IdleOK, OneRequest DEF TypeInv, TypeOK, RequestRecord, Status
    <3>3. RolesOK'
      BY <3>1 DEF RolesOK, Activatable
    <3>4. OneAtATime'
      <4>1. ASSUME ~ overlapped
            PROVE  granted' = {request[r].what} /\ \A q \in Request : ~ Activating(q)'
        <5>1. granted = {} /\ \A q \in Request : Activating(q) => q = r
          BY <1>0, <2>1, <4>1 DEF OneAtATime
        <5>2. \A q \in Request : ~ Activating(q)'
          BY <2>3, <5>1 DEF Activating
        <5>3. QED BY <3>1, <5>1, <5>2
      <4>2. QED BY <2>1, <2>2, <4>1 DEF OneAtATime
    <3>5. QED BY <3>2, <3>3, <3>4 DEF Inv
  <2>6. QED BY <2>4, <2>5
<1>10. ASSUME NEW r \in Request, NEW s \in {"ACTIVE", "SUSPENDED"}, ReadToSuspendOrReactivate(r, s)
       PROVE  Inv'
  <2>1. /\ approved /\ request' = [request EXCEPT ![r] = At("staff", s, FALSE)]
        /\ UNCHANGED <<status, declared, completed, isOwner, approved, granted, overlapped>>
    BY <1>10 DEF ReadToSuspendOrReactivate
  <2>2. At("staff", s, FALSE) \in RequestRecord /\ HoldsOK(At("staff", s, FALSE))
    BY DEF At, RequestRecord, HoldsOK, Pc, Status
  <2>3. TypeInv'
    BY <1>0, <2>1, <2>2, OneRequest DEF TypeInv, TypeOK, RequestRecord
  <2>4. request'[r].pc = "staff" /\ \A q \in Request \ {r} : request'[q] = request[q]
    BY <1>0, <2>1 DEF TypeInv, TypeOK, At
  <2>5. QED BY <2>1, <2>3, <2>4, Kept DEF Inv
<1>11. ASSUME NEW r \in Request, RequestDies(r)
       PROVE  Inv'
  <2>1. /\ request' = [request EXCEPT ![r] = Idle]
        /\ UNCHANGED <<status, declared, completed, isOwner, approved, granted, overlapped>>
    BY <1>11 DEF RequestDies
  <2>2. TypeInv'
    BY <1>0, <2>1, IdleOK, OneRequest DEF TypeInv, TypeOK, RequestRecord
  <2>3. request'[r].pc = "idle" /\ \A q \in Request \ {r} : request'[q] = request[q]
    BY <1>0, <2>1 DEF TypeInv, TypeOK, Idle
  <2>4. QED BY <2>1, <2>2, <2>3, Kept DEF Inv
<1>12. CASE UNCHANGED vars
  BY <1>12 DEF vars, Inv, TypeInv, TypeOK, HoldsOK, RolesOK, OneAtATime, Activatable, Activating
<1>13. QED BY <1>1, <1>2, <1>3, <1>4, <1>5, <1>6, <1>7, <1>8, <1>9, <1>10, <1>11, <1>12 DEF Next

\* The account and every handler keep their type.
THEOREM TypeCorrect == Spec => []TypeOK
<1>1. Inv => TypeOK
  BY DEF Inv, TypeInv
<1>2. QED BY InitInv, NextInv, <1>1, PTL DEF Spec

\* An ACTIVE account has a role, and one only unless two activations ran at once.
THEOREM ActiveCanWork == Spec => []ActiveHoldsARole
<1>1. Inv => ActiveHoldsARole
  <2>1. ASSUME Inv, ~ overlapped
        PROVE  Cardinality(granted) <= 1
    <3>1. granted = {} \/ \E key \in RoleKey : granted = {key}
      BY <2>1 DEF Inv, OneAtATime
    <3>2. CASE granted = {}
      BY <3>2, FS_EmptySet
    <3>3. ASSUME NEW key \in RoleKey, granted = {key}
          PROVE  Cardinality(granted) <= 1
      <4>1. Cardinality({key}) = 1
        BY FS_Singleton
      <4>2. QED BY <3>3, <4>1
    <3>4. QED BY <3>1, <3>2, <3>3
  <2>2. QED BY <2>1 DEF Inv, RolesOK, ActiveHoldsARole
<1>2. QED BY InitInv, NextInv, <1>1, PTL DEF Spec

\* A rejection or a suspension is undone by no submission and no approval that was not
\* already activating.
THEOREM DecisionsAreKept == Spec => DecisionsStand
<1> DEFINE Stands == NoneActivates /\ status \in {"SUSPENDED", "REJECTED"} =>
                        NoneActivates' /\ (NoneReactivates => status' # "ACTIVE")
<1>1. ASSUME Inv, [Next]_vars, NoneActivates, status \in {"SUSPENDED", "REJECTED"}
      PROVE  NoneActivates' /\ (NoneReactivates => status' # "ACTIVE")
  <2> USE <1>1 DEF Inv, TypeInv, TypeOK, NoneActivates, NoneReactivates, Goto, At, Idle
  <2>1. ASSUME NEW r \in Request, NEW d \in Declared, SubmitOnboarding(r, d) \/ ReadForDraft(r, d)
        PROVE  NoneActivates' /\ status' # "ACTIVE"
    BY <2>1 DEF SubmitOnboarding, ReadForDraft
  <2>2. ASSUME NEW r \in Request, SaveAnswers(r) \/ SaveDraft(r) \/ Reject(r) \/ RequestDies(r)
        PROVE  NoneActivates' /\ status' # "ACTIVE"
    BY <2>2 DEF SaveAnswers, SaveDraft, Reject, RequestDies
  <2>3. ASSUME NEW r \in Request, NEW key \in RoleKey, NEW owner \in BOOLEAN, ReadToApprove(r, key, owner)
        PROVE  FALSE
    BY <2>3 DEF ReadToApprove
  <2>4. ASSUME NEW r \in Request, ReadToReject(r) \/ Activate(r)
        PROVE  FALSE
    BY <2>4 DEF ReadToReject, Activate, Activating
  <2>5. ASSUME NEW r \in Request, LookAtStatus(r)
        PROVE  NoneActivates' /\ status' # "ACTIVE"
    BY <2>5 DEF LookAtStatus, Activatable
  <2>6. ASSUME NEW r \in Request, NEW s \in {"ACTIVE", "SUSPENDED"}, ReadToSuspendOrReactivate(r, s)
        PROVE  NoneActivates' /\ status' # "ACTIVE"
    BY <2>6 DEF ReadToSuspendOrReactivate
  <2>7. ASSUME NEW r \in Request, SuspendOrReactivate(r)
        PROVE  NoneActivates' /\ ~ NoneReactivates
    BY <2>7 DEF SuspendOrReactivate
  <2>8. CASE UNCHANGED vars
    BY <2>8 DEF vars
  <2>9. QED BY <2>1, <2>2, <2>3, <2>4, <2>5, <2>6, <2>7, <2>8 DEF Next
<1>2. Inv /\ [Next]_vars => [Stands]_vars
  BY <1>1
<1>3. QED BY <1>2, InitInv, NextInv, PTL DEF Spec, DecisionsStand
=============================================================================
