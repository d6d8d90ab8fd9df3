-------------------------------- MODULE Mail --------------------------------
(***************************************************************************)
(* The mail outbox: src/server/mail.ts over the policy of                  *)
(* src/lib/mail/outbox.ts, and the notifications that feed it.             *)
(*                                                                         *)
(* A message is named by what it is about: its dedupeKey is unique in the  *)
(* table and is built from the event, so an event and its row have one     *)
(* name here.  Flushes run when a scheduler or a member of staff asks, and *)
(* once more, for one row, behind every message newly queued: that second  *)
(* kind is named by the message it was started for.                        *)
(*                                                                         *)
(* The provider is configured (mailEnabled) and the addresses are          *)
(* deliverable: without either, nothing is queued or nothing is sent.      *)
(***************************************************************************)
EXTENDS Integers, FiniteSets

CONSTANTS
    Message,       \* events somebody is to be told about
    Redelivered,   \* those announced by a Stripe webhook, which Stripe delivers until answered
    Cron,          \* flushes asked for from outside: the scheduler, and staff by hand
    CronLimit,     \* rows such a flush takes
    MaxAttempts,   \* MAX_ATTEMPTS
    Answer,        \* how an offer to the provider can end
    DeliveryBound, \* deliveries of one event that are explored
    CrashBound,    \* process deaths that are explored
    NoMessage

ASSUME ConstantsAssumption ==
    /\ IsFiniteSet(Message)
    /\ Redelivered \subseteq Message
    /\ Cron \cap Message = {}
    /\ CronLimit \in Nat \ {0}
    /\ MaxAttempts \in Nat \ {0}
    /\ Answer \subseteq {"accepted", "refused", "failed", "lost"}
    /\ DeliveryBound \in Nat
    /\ CrashBound \in Nat
    /\ NoMessage \notin Message

VARIABLES
    deliveries, \* how often each event was handed to a handler
    notifying,  \* handlers between the event's commit and their enqueue
    owed,       \* events Stripe has not had an answer for
    swallowed,  \* events whose enqueue failed and was not reported
    status,     \* EmailMessage.status; NONE where there is no row
    attempts,   \* EmailMessage.attempts
    age,        \* EmailMessage.createdAt, as the order of creation
    due,        \* messages with nextAttemptAt <= now
    pc,         \* where each flush is
    batch,      \* rows it read and has still to try
    seen,       \* the attempts those rows had when it read them
    trying,     \* the row it is offering
    answer,     \* what the provider answered to that
    crashes,    \* process deaths so far
    accepted,   \* provider: how often it took each message
    failures,   \* provider: how often an offer of it failed
    refused,    \* provider: messages it refused for good
    contested   \* history: messages two flushes held at once, or whose answer was lost

eventVars == <<deliveries, notifying, owed, swallowed>>
rowVars == <<status, attempts, age, due>>
flushVars == <<pc, batch, seen, trying, answer>>
providerVars == <<accepted, failures, refused>>
vars == <<eventVars, rowVars, flushVars, crashes, providerVars, contested>>

-----------------------------------------------------------------------------
Flush == Cron \cup Message
Limit(f) == IF f \in Cron THEN CronLimit ELSE 1

\* A flush holds a row from its read until it has written what became of it.
Holds(f, m) == m \in batch[f] \/ trying[f] = m

TypeOK ==
    /\ deliveries \in [Message -> Nat]
    /\ notifying \in [Message -> Nat]
    /\ owed \subseteq Message
    /\ swallowed \subseteq Message
    /\ status \in [Message -> {"NONE", "PENDING", "SENT", "FAILED"}]
    /\ attempts \in [Message -> Nat]
    /\ age \in [Message -> Nat]
    /\ due \subseteq Message
    /\ pc \in [Flush -> {"idle", "begin", "offer", "write"}]
    /\ batch \in [Flush -> SUBSET Message]
    /\ seen \in [Flush -> [Message -> Nat]]
    /\ trying \in [Flush -> Message \cup {NoMessage}]
    /\ answer \in [Flush -> Answer \cup {"none"}]
    /\ crashes \in Nat
    /\ accepted \in [Message -> Nat]
    /\ failures \in [Message -> Nat]
    /\ refused \subseteq Message
    /\ contested \subseteq Message

Init ==
    /\ deliveries = [m \in Message |-> 0]
    /\ notifying = [m \in Message |-> 0]
    /\ owed = {}
    /\ swallowed = {}
    /\ status = [m \in Message |-> "NONE"]
    /\ attempts = [m \in Message |-> 0]
    /\ age = [m \in Message |-> 0]
    /\ due = {}
    /\ pc = [f \in Flush |-> "idle"]
    /\ batch = [f \in Flush |-> {}]
    /\ seen = [f \in Flush |-> [m \in Message |-> 0]]
    /\ trying = [f \in Flush |-> NoMessage]
    /\ answer = [f \in Flush |-> "none"]
    /\ crashes = 0
    /\ accepted = [m \in Message |-> 0]
    /\ failures = [m \in Message |-> 0]
    /\ refused = {}
    /\ contested = {}

-----------------------------------------------------------------------------
(* Outbox policy: what a failed attempt leaves behind. *)

\* A network error is read as a 503, and with 401, 403 and 429 is worth another try.
isPermanent(a) == a = "refused"

\* Faulty variant: every failure is for good.
afterFailureImpatient(n, a) == [attempts |-> n + 1, status |-> "FAILED"]

\* Faulty variant: the provider's own word is stored as the status.
afterFailureVerbatim(n, a) == [attempts |-> n + 1, status |-> a]

afterFailure(n, a) ==
    [attempts |-> n + 1,
     status |-> IF isPermanent(a) \/ n + 1 >= MaxAttempts THEN "FAILED" ELSE "PENDING"]

-----------------------------------------------------------------------------
(* Events and their notifications. *)

\* A booking is confirmed by a webhook delivery, or cancelled by its guest: the
\* change is committed, and the handler goes on to tell somebody.
EventHappens(m) ==
    /\ deliveries[m] = 0
    /\ deliveries' = [deliveries EXCEPT ![m] = 1]
    /\ notifying' = [notifying EXCEPT ![m] = 1]
    /\ owed' = IF m \in Redelivered THEN owed \cup {m} ELSE owed
    /\ UNCHANGED <<swallowed, rowVars, flushVars, crashes, providerVars, contested>>

\* Faulty variant: a delivery that changes nothing tells nobody, and is answered.
RedeliverGuarded(m) ==
    /\ m \in Redelivered
    /\ deliveries[m] \in 1 .. DeliveryBound - 1
    /\ deliveries' = [deliveries EXCEPT ![m] = @ + 1]
    /\ owed' = owed \ {m}
    /\ UNCHANGED <<notifying, swallowed, rowVars, flushVars, crashes, providerVars, contested>>

\* Stripe delivers an event again until it is answered, and sometimes once it has been.
\* The booking is confirmed already: the notification is outside that guard on purpose.
Redeliver(m) ==
    /\ m \in Redelivered
    /\ deliveries[m] \in 1 .. DeliveryBound - 1
    /\ deliveries' = [deliveries EXCEPT ![m] = @ + 1]
    /\ notifying' = [notifying EXCEPT ![m] = @ + 1]
    /\ UNCHANGED <<owed, swallowed, rowVars, flushVars, crashes, providerVars, contested>>

\* Faulty variant of Enqueue: an upsert where the unique dedupeKey refuses.
EnqueueAgain(m) ==
    /\ notifying[m] > 0
    /\ notifying' = [notifying EXCEPT ![m] = @ - 1]
    /\ owed' = owed \ {m}
    /\ status' = [status EXCEPT ![m] = "PENDING"]
    /\ attempts' = [attempts EXCEPT ![m] = 0]
    /\ age' = [age EXCEPT ![m] = 1 + Cardinality({n \in Message : status[n] # "NONE"})]
    /\ due' = due \cup {m}
    /\ pc' = [pc EXCEPT ![m] = "begin"]
    /\ UNCHANGED <<deliveries, swallowed, batch, seen, trying, answer, crashes,
                   providerVars, contested>>

\* enqueueAndSend: the first insert of a key queues a row, due at once, and starts a
\* flush of one row; a later one collides with the key and changes nothing.
Enqueue(m) ==
    /\ notifying[m] > 0
    /\ notifying' = [notifying EXCEPT ![m] = @ - 1]
    /\ owed' = owed \ {m}
    /\ IF status[m] = "NONE"
       THEN /\ status' = [status EXCEPT ![m] = "PENDING"]
            /\ age' = [age EXCEPT ![m] = 1 + Cardinality({n \in Message : status[n] # "NONE"})]
            /\ due' = due \cup {m}
            /\ pc' = [pc EXCEPT ![m] = "begin"]
       ELSE UNCHANGED <<status, age, due, pc>>
    /\ UNCHANGED <<deliveries, swallowed, attempts, batch, seen, trying, answer, crashes,
                   providerVars, contested>>

\* The insert fails for another reason; the notification swallows it and the handler
\* answers as if it had been told.
EnqueueFails(m) ==
    /\ notifying[m] > 0
    /\ crashes < CrashBound
    /\ crashes' = crashes + 1
    /\ notifying' = [notifying EXCEPT ![m] = @ - 1]
    /\ owed' = owed \ {m}
    /\ swallowed' = swallowed \cup {m}
    /\ UNCHANGED <<deliveries, rowVars, flushVars, providerVars, contested>>

\* The process dies after the event is committed and before the enqueue.
HandlerDies(m) ==
    /\ notifying[m] > 0
    /\ crashes < CrashBound
    /\ crashes' = crashes + 1
    /\ notifying' = [notifying EXCEPT ![m] = @ - 1]
    /\ UNCHANGED <<deliveries, owed, swallowed, rowVars, flushVars, providerVars, contested>>

-----------------------------------------------------------------------------
(* flush. *)

\* The scheduler, or a member of staff, asks for a flush.
AskForFlush(f) ==
    /\ f \in Cron
    /\ pc[f] = "idle"
    /\ \E m \in due : status[m] = "PENDING"
    /\ pc' = [pc EXCEPT ![f] = "begin"]
    /\ UNCHANGED <<eventVars, rowVars, batch, seen, trying, answer, crashes,
                   providerVars, contested>>

\* Faulty variant: what has been sent is read again.
DueWhateverItsStatus == {m \in due : status[m] # "NONE"}

\* Faulty variant: what was tried before is not read again.
DueNeverTried == {m \in due : status[m] = "PENDING" /\ attempts[m] = 0}

Due == {m \in due : status[m] = "PENDING"}

\* Faulty variant of Take over a wider read.
TakeWhateverItsStatus(n) ==
    {m \in DueWhateverItsStatus :
        Cardinality({o \in DueWhateverItsStatus : age[o] < age[m]}) < n}

\* What is due, oldest first, as many as the limit allows.
Take(n) == {m \in Due : Cardinality({o \in Due : age[o] < age[m]}) < n}

Read(f) ==
    /\ pc[f] = "begin"
    /\ batch' = [batch EXCEPT ![f] = Take(Limit(f))]
    /\ seen' = [seen EXCEPT ![f] =
                    [m \in Message |-> IF m \in Take(Limit(f)) THEN attempts[m] ELSE 0]]
    /\ pc' = [pc EXCEPT ![f] = IF Take(Limit(f)) = {} THEN "idle" ELSE "offer"]
    /\ contested' = contested \cup
                        {m \in Take(Limit(f)) : \E g \in Flush \ {f} : Holds(g, m)}
    /\ UNCHANGED <<eventVars, rowVars, trying, answer, crashes, providerVars>>

\* The request to the provider, for the oldest row of the batch.
Offer(f, m, a) ==
    /\ pc[f] = "offer"
    /\ m \in batch[f]
    /\ \A o \in batch[f] : age[m] <= age[o]
    /\ trying' = [trying EXCEPT ![f] = m]
    /\ batch' = [batch EXCEPT ![f] = @ \ {m}]
    /\ answer' = [answer EXCEPT ![f] = a]
    /\ pc' = [pc EXCEPT ![f] = "write"]
    /\ accepted' = IF a \in {"accepted", "lost"}
                   THEN [accepted EXCEPT ![m] = @ + 1] ELSE accepted
    /\ failures' = IF a # "accepted" THEN [failures EXCEPT ![m] = @ + 1] ELSE failures
    /\ refused' = IF a = "refused" THEN refused \cup {m} ELSE refused
    /\ contested' = IF a = "lost" THEN contested \cup {m} ELSE contested
    /\ UNCHANGED <<eventVars, rowVars, seen, crashes>>

\* What became of it, by id and from the attempts read with the batch.
Write(f) ==
    LET m == trying[f]
        next == afterFailure(seen[f][m], answer[f])
    IN
    /\ pc[f] = "write"
    /\ IF answer[f] = "accepted"
       THEN /\ status' = [status EXCEPT ![m] = "SENT"]
            /\ attempts' = [attempts EXCEPT ![m] = seen[f][m] + 1]
            /\ due' = due
       ELSE /\ status' = [status EXCEPT ![m] = next.status]
            /\ attempts' = [attempts EXCEPT ![m] = next.attempts]
            /\ due' = due \ {m}
    /\ trying' = [trying EXCEPT ![f] = NoMessage]
    /\ answer' = [answer EXCEPT ![f] = "none"]
    /\ seen' = [seen EXCEPT ![f][m] = 0]
    /\ pc' = [pc EXCEPT ![f] = IF batch[f] = {} THEN "idle" ELSE "offer"]
    /\ UNCHANGED <<eventVars, age, batch, crashes, providerVars, contested>>

\* The backoff runs out.
BackoffElapses(m) ==
    /\ status[m] = "PENDING"
    /\ m \notin due
    /\ due' = due \cup {m}
    /\ UNCHANGED <<eventVars, status, attempts, age, flushVars, crashes,
                   providerVars, contested>>

\* The process of a flush dies: what it had read is forgotten, and if it was
\* waiting to write, so is the answer.
FlushDies(f) ==
    /\ pc[f] # "idle"
    /\ crashes < CrashBound
    /\ crashes' = crashes + 1
    /\ pc' = [pc EXCEPT ![f] = "idle"]
    /\ batch' = [batch EXCEPT ![f] = {}]
    /\ trying' = [trying EXCEPT ![f] = NoMessage]
    /\ answer' = [answer EXCEPT ![f] = "none"]
    /\ seen' = [seen EXCEPT ![f] = [m \in Message |-> 0]]
    /\ contested' = IF pc[f] = "write" THEN contested \cup {trying[f]} ELSE contested
    /\ UNCHANGED <<eventVars, rowVars, providerVars>>

-----------------------------------------------------------------------------
Next ==
    \/ \E m \in Message : \/ EventHappens(m) \/ Redeliver(m)
                          \/ Enqueue(m) \/ EnqueueFails(m) \/ HandlerDies(m)
                          \/ BackoffElapses(m)
    \/ \E f \in Flush : \/ AskForFlush(f) \/ Read(f) \/ Write(f) \/ FlushDies(f)
                        \/ \E m \in Message, a \in Answer : Offer(f, m, a)

Spec == Init /\ [][Next]_vars

\* What the code's environment promises: Stripe goes on delivering what it has no
\* answer for, a handler that lives goes on, the clock runs, and a scheduler asks for
\* flushes again and again, as the flush route requires of a deployment.
Fairness ==
    /\ \A m \in Message : /\ WF_vars(m \in owed /\ notifying[m] = 0 /\ Redeliver(m))
                          /\ WF_vars(Enqueue(m))
                          /\ WF_vars(BackoffElapses(m))
    /\ \A f \in Flush : /\ WF_vars(AskForFlush(f))
                        /\ WF_vars(Read(f))
                        /\ WF_vars(\E m \in Message, a \in Answer : Offer(f, m, a))
                        /\ WF_vars(Write(f))

LiveSpec == Spec /\ Fairness

-----------------------------------------------------------------------------
(* Properties. *)

\* PatienceKept: a message is given up on only when the provider refused it for good,
\* or MaxAttempts offers of it really failed - however flushes overlap and overwrite
\* each other's count of attempts.  (afterFailure)
PatienceKept ==
    \A m \in Message : status[m] = "FAILED" => m \in refused \/ failures[m] >= MaxAttempts

\* AcceptedOnce: somebody is told twice only about a message that two flushes held at
\* once, or for which the provider's answer was lost on the way back: nothing else in
\* enqueue and flush - duplicate deliveries, retries, crashes elsewhere - sends it again.
AcceptedOnce ==
    \A m \in Message : m \notin contested => accepted[m] <= 1

\* RowsOnlyAdvance: a row that one flush at a time has held never goes back: SENT and
\* FAILED are final and its count of attempts never falls.  (attempt's updates by id)
RowsOnlyAdvance ==
    [][\A m \in Message : m \notin contested =>
            /\ status[m] \in {"SENT", "FAILED"} => status'[m] = status[m]
            /\ attempts'[m] >= attempts[m]]_vars

\* ConfirmedIsQueued: an event of a webhook is in the end queued, whatever dies after
\* its commit, unless an enqueue failed without a word.  (notifyBookingConfirmed)
ConfirmedIsQueued ==
    \A m \in Redelivered : (deliveries[m] > 0) ~> (status[m] # "NONE" \/ m \in swallowed)

\* EveryMessageEnds: a queued message is in the end sent or given up on, and stays so,
\* even where overlapping flushes set its count of attempts back.  (MAX_ATTEMPTS)
EveryMessageEnds ==
    \A m \in Message : (status[m] = "PENDING") ~> [](status[m] \in {"SENT", "FAILED"})
=============================================================================
