----------------------------- MODULE Activation -----------------------------
(***************************************************************************)
(* One applicant's account, from the signup that leaves it PENDING to the  *)
(* role it works with: onboarding submitted and saved as a draft           *)
(* (api/onboarding), the approver's decision (api/platform/approvals),     *)
(* what both come to (server/activation) and a colleague suspending or     *)
(* reactivating the account (api/staff/[id]).                              *)
(*                                                                         *)
(* The account is the first of its organisation, as signup makes it, so    *)
(* colleagues exist only once it has worked.  Documents are outside the    *)
(* model: a submission or an approval they stop is one that is not made.   *)
(* What a colleague does to its role assignments by hand is outside too.   *)
(*                                                                         *)
(* One action is what a handler does between two awaits.                   *)
(***************************************************************************)
EXTENDS Naturals, FiniteSets

CONSTANTS
    Request,        \* handlers that can overlap
    ProcessCrashes  \* whether a server process can die between two awaits

ASSUME ConstantsAssumption == ProcessCrashes \in BOOLEAN

VARIABLES
    status,      \* User.status
    declared,    \* User.onboardingRole, or before that requestedRole
    completed,   \* User.onboardingCompletedAt is set
    isOwner,     \* User.isOwner
    approved,    \* Organization.approved
    granted,     \* the keys of the roles made for the organisation and assigned to the account
    request,     \* each handler: where it is and what it holds
    overlapped   \* history: two activations were under way at once

vars == <<status, declared, completed, isOwner, approved, granted, request, overlapped>>

-----------------------------------------------------------------------------
Declared == {"landlord", "agent", "resident"}
RoleKey == {"property_manager", "resident"}
Status == {"PENDING", "INVITED", "ACTIVE", "SUSPENDED", "REJECTED"}

ROLE_FOR(d) == IF d = "resident" THEN "resident" ELSE "property_manager"

Idle == [pc |-> "idle", what |-> "nothing", owner |-> FALSE]
At(step, what, owner) == [pc |-> step, what |-> what, owner |-> owner]

Pc == {"idle", "save", "submit", "draft", "reject", "look", "activate", "staff"}

TypeOK ==
    /\ status \in Status
    /\ declared \in Declared \cup {"nothing"}
    /\ completed \in BOOLEAN
    /\ isOwner \in BOOLEAN
    /\ approved \in BOOLEAN
    /\ granted \subseteq RoleKey
    /\ overlapped \in BOOLEAN
    /\ request \in [Request -> [pc : Pc, what : Declared \cup RoleKey \cup Status \cup {"nothing"},
                                owner : BOOLEAN]]

\* Signed up, with or without a role asked for.
Init ==
    /\ status = "PENDING"
    /\ declared \in Declared \cup {"nothing"}
    /\ completed = FALSE
    /\ isOwner = FALSE
    /\ approved = FALSE
    /\ granted = {}
    /\ request = [r \in Request |-> Idle]
    /\ overlapped = FALSE

\* The handler of r moves on, and nothing of the account changes.
Goto(r, what) ==
    /\ request' = [request EXCEPT ![r] = what]
    /\ UNCHANGED <<status, declared, completed, isOwner, approved, granted>>

-----------------------------------------------------------------------------
(* Onboarding. *)

\* Faulty variant: an account that was decided against is let in as well.
ActivatableAny == status # "ACTIVE"

Activatable == status \in {"PENDING", "INVITED"}

\* POST: the status before is read, to know whether completing it activates.
SubmitOnboarding(r, d) ==
    /\ request[r] = Idle
    /\ Goto(r, At(IF Activatable THEN "submit" ELSE "save", d, FALSE))
    /\ UNCHANGED overlapped

\* Faulty variant: the status is set with the answers.
SaveAnswersAndStatus(r) ==
    LET d == request[r].what IN
    /\ request[r].pc \in {"submit", "save"}
    /\ declared' = d
    /\ completed' = TRUE
    /\ status' = IF request[r].pc = "submit" THEN "ACTIVE" ELSE status
    /\ request' = [request EXCEPT ![r] =
           IF request[r].pc = "submit" THEN At("look", ROLE_FOR(d), d = "landlord") ELSE Idle]
    /\ UNCHANGED <<isOwner, approved, granted, overlapped>>

\* The answers are saved, whatever the status; it is left to activateAccount.
SaveAnswers(r) ==
    LET d == request[r].what IN
    /\ request[r].pc \in {"submit", "save"}
    /\ declared' = d
    /\ completed' = TRUE
    /\ request' = [request EXCEPT ![r] =
           IF request[r].pc = "submit" THEN At("look", ROLE_FOR(d), d = "landlord") ELSE Idle]
    /\ UNCHANGED <<status, isOwner, approved, granted, overlapped>>

\* PATCH, the draft of a form that is not completed.
ReadForDraft(r, d) ==
    /\ request[r] = Idle
    /\ ~ completed
    /\ Goto(r, At("draft", d, FALSE))
    /\ UNCHANGED overlapped

SaveDraft(r) ==
    /\ request[r].pc = "draft"
    /\ declared' = request[r].what
    /\ request' = [request EXCEPT ![r] = Idle]
    /\ UNCHANGED <<status, completed, isOwner, approved, granted, overlapped>>

-----------------------------------------------------------------------------
(* The approver. *)

\* The role is the declared one unless the approver names it; a landlord may be told no owner.
ReadToApprove(r, key, owner) ==
    /\ request[r] = Idle
    /\ status = "PENDING"
    /\ owner => declared = "landlord"
    /\ Goto(r, At("look", key, owner))
    /\ UNCHANGED overlapped

ReadToReject(r) ==
    /\ request[r] = Idle
    /\ status = "PENDING"
    /\ Goto(r, At("reject", "nothing", FALSE))
    /\ UNCHANGED overlapped

Reject(r) ==
    /\ request[r].pc = "reject"
    /\ status' = "REJECTED"
    /\ request' = [request EXCEPT ![r] = Idle]
    /\ UNCHANGED <<declared, completed, isOwner, approved, granted, overlapped>>

-----------------------------------------------------------------------------
(* activateAccount. *)

Activating(r) == request[r].pc = "activate"

\* ACTIVE already, or decided against: nothing is done.
LookAtStatus(r) ==
    /\ request[r].pc = "look"
    /\ Goto(r, IF Activatable THEN [request[r] EXCEPT !.pc = "activate"] ELSE Idle)
    /\ overlapped' = (overlapped \/ (Activatable /\ \E q \in Request : Activating(q)))

\* The transaction.  The organisation has one role of a key: making a second fails, and
\* everything with it.
Activate(r) ==
    LET key == request[r].what IN
    /\ Activating(r)
    /\ IF key \in granted
       THEN UNCHANGED <<status, isOwner, approved, granted>>
       ELSE /\ status' = "ACTIVE"
            /\ isOwner' = request[r].owner
            /\ approved' = TRUE
            /\ granted' = granted \cup {key}
    /\ request' = [request EXCEPT ![r] = Idle]
    /\ UNCHANGED <<declared, completed, overlapped>>

-----------------------------------------------------------------------------
(* A colleague: no owner, and an owner's account is not theirs to change. *)

ReadToSuspendOrReactivate(r, s) ==
    /\ request[r] = Idle
    /\ approved
    /\ ~ isOwner
    /\ Goto(r, At("staff", s, FALSE))
    /\ UNCHANGED overlapped

SuspendOrReactivate(r) ==
    /\ request[r].pc = "staff"
    /\ status' = request[r].what
    /\ request' = [request EXCEPT ![r] = Idle]
    /\ UNCHANGED <<declared, completed, isOwner, approved, granted, overlapped>>

\* The process of a handler dies between two awaits.
RequestDies(r) ==
    /\ ProcessCrashes
    /\ request[r] # Idle
    /\ Goto(r, Idle)
    /\ UNCHANGED overlapped

-----------------------------------------------------------------------------
Next ==
    \E r \in Request :
        \/ \E d \in Declared : SubmitOnboarding(r, d) \/ ReadForDraft(r, d)
        \/ SaveAnswers(r) \/ SaveDraft(r)
        \/ \E key \in RoleKey, owner \in BOOLEAN : ReadToApprove(r, key, owner)
        \/ ReadToReject(r) \/ Reject(r)
        \/ LookAtStatus(r) \/ Activate(r)
        \/ \E s \in {"ACTIVE", "SUSPENDED"} : ReadToSuspendOrReactivate(r, s)
        \/ SuspendOrReactivate(r)
        \/ RequestDies(r)

Spec == Init /\ [][Next]_vars

-----------------------------------------------------------------------------
(* Properties. *)

\* ActiveHoldsARole: an ACTIVE account has a role to work with in an approved
\* organisation, and one only unless two activations ran at once.  (onboarding: an early
\* status would make "an activated account holding no permissions at all"; activation: "a
\* resubmitted form cannot accumulate grants")
ActiveHoldsARole ==
    /\ status = "ACTIVE" => granted # {} /\ approved
    /\ ~ overlapped => Cardinality(granted) <= 1

NoneActivates == \A r \in Request : request[r].pc # "activate"
NoneReactivates == \A r \in Request : request[r].pc # "staff"

\* DecisionsStand: an account rejected or suspended while nobody is half way through
\* activating or reactivating it becomes ACTIVE only through a colleague, however often
\* its form is sent again.  ("resubmitting this form must not" undo a decision)
DecisionsStand ==
    [][NoneActivates /\ status \in {"SUSPENDED", "REJECTED"} =>
          /\ NoneActivates'
          /\ NoneReactivates => status' # "ACTIVE"]_vars
=============================================================================
