----------------------------- MODULE MailProofs -----------------------------
(***************************************************************************)
(* Theorems about Mail, for every set of messages and flushes, every limit *)
(* and every number of attempts.                                           *)
(***************************************************************************)
EXTENDS Mail, FiniteSetTheorems, TLAPS

\* A flush has rows and an answer only where its program counter says so, and the one
\* an enqueue starts has not begun before its row is there.
LocalsOK ==
    /\ \A f \in Flush :
        /\ pc[f] = "write" => trying[f] \in Message /\ trying[f] \notin batch[f]
        /\ pc[f] # "write" => trying[f] = NoMessage /\ answer[f] = "none"
        /\ pc[f] \in {"idle", "begin"} => batch[f] = {}
    /\ \A m \in Message : status[m] = "NONE" => pc[m] = "idle"
    /\ \A f \in Flush, m \in Message : Holds(f, m) => status[m] # "NONE"

LEMMA TypeInit == Init => TypeOK /\ LocalsOK
  BY ConstantsAssumption DEF Init, TypeOK, LocalsOK, Holds, Flush

LEMMA AgeIsNat == ASSUME TypeOK
                  PROVE  1 + Cardinality({n \in Message : status[n] # "NONE"}) \in Nat
<1>1. IsFiniteSet({n \in Message : status[n] # "NONE"})
  BY FS_Subset, ConstantsAssumption
<1>2. QED BY <1>1, FS_CardinalityType

\* What is taken is pending and in the table.
LEMMA TakeIsPending == ASSUME TypeOK, NEW n \in Nat
                       PROVE  \A m \in Take(n) : m \in Message /\ status[m] = "PENDING"
  BY DEF Take, Due, TypeOK

LEMMA LimitIsNat == \A f \in Flush : Limit(f) \in Nat
  BY ConstantsAssumption DEF Limit

LEMMA PolicyType ==
  ASSUME NEW n \in Nat, NEW a
  PROVE  /\ afterFailure(n, a).attempts = n + 1
         /\ afterFailure(n, a).status \in {"FAILED", "PENDING"}
         /\ afterFailure(n, a).status = "FAILED" <=> a = "refused" \/ n + 1 >= MaxAttempts
  BY DEF afterFailure, isPermanent

LEMMA TypeStep == ASSUME TypeOK, LocalsOK, [Next]_vars
                  PROVE  TypeOK' /\ LocalsOK'
<1> USE DEF TypeOK, LocalsOK, Flush
<1>1. ASSUME NEW m \in Message, EventHappens(m)
      PROVE  TypeOK' /\ LocalsOK'
  BY <1>1 DEF EventHappens, rowVars, flushVars, providerVars, Holds
<1>11. ASSUME NEW m \in Message, Redeliver(m)
       PROVE  TypeOK' /\ LocalsOK'
  BY <1>11 DEF Redeliver, rowVars, flushVars, providerVars, Holds
<1>12. ASSUME NEW m \in Message, EnqueueFails(m)
       PROVE  TypeOK' /\ LocalsOK'
  BY <1>12 DEF EnqueueFails, rowVars, flushVars, providerVars, Holds
<1>13. ASSUME NEW m \in Message, HandlerDies(m)
       PROVE  TypeOK' /\ LocalsOK'
  BY <1>13 DEF HandlerDies, rowVars, flushVars, providerVars, Holds
<1>2. ASSUME NEW m \in Message, Enqueue(m)
      PROVE  TypeOK' /\ LocalsOK'
  <2> DEFINE created == 1 + Cardinality({n \in Message : status[n] # "NONE"})
  <2>1. created \in Nat
    BY AgeIsNat
  <2>2. /\ notifying' = [notifying EXCEPT ![m] = @ - 1] /\ notifying[m] > 0
        /\ owed' = owed \ {m}
        /\ UNCHANGED <<deliveries, swallowed, attempts, batch, seen, trying, answer, crashes,
                       accepted, failures, refused, contested>>
    BY <1>2 DEF Enqueue, providerVars
  <2>3. CASE status[m] = "NONE"
    <3>1. /\ status' = [status EXCEPT ![m] = "PENDING"]
          /\ age' = [age EXCEPT ![m] = created]
          /\ due' = due \cup {m}
          /\ pc' = [pc EXCEPT ![m] = "begin"]
      BY <1>2, <2>3 DEF Enqueue
    <3> HIDE DEF created
    <3>2. QED BY <2>1, <2>2, <2>3, <3>1 DEF Holds
  <2>4. CASE status[m] # "NONE"
    <3>1. UNCHANGED <<status, age, due, pc>>
      BY <1>2, <2>4 DEF Enqueue
    <3>2. QED BY <2>2, <3>1 DEF Holds
  <2>5. QED BY <2>3, <2>4
<1>3. ASSUME NEW m \in Message, BackoffElapses(m)
      PROVE  TypeOK' /\ LocalsOK'
  BY <1>3 DEF BackoffElapses, eventVars, flushVars, providerVars, Holds
<1>4. ASSUME NEW f \in Flush, AskForFlush(f)
      PROVE  TypeOK' /\ LocalsOK'
  BY <1>4, ConstantsAssumption DEF AskForFlush, eventVars, rowVars, providerVars, Holds
<1>5. ASSUME NEW f \in Flush, Read(f)
      PROVE  TypeOK' /\ LocalsOK'
  <2> DEFINE T == Take(Limit(f))
  <2>1. \A m \in T : m \in Message /\ status[m] = "PENDING"
    BY LimitIsNat, TakeIsPending
  <2>2. [m \in Message |-> IF m \in T THEN attempts[m] ELSE 0] \in [Message -> Nat]
    OBVIOUS
  <2> HIDE DEF T
  <2>3. TypeOK'
    BY <1>5, <2>1, <2>2 DEF Read, T, eventVars, rowVars, providerVars
  <2>4. LocalsOK'
    BY <1>5, <2>1 DEF Read, T, eventVars, rowVars, providerVars, Holds
  <2>5. QED BY <2>3, <2>4
<1>6. ASSUME NEW f \in Flush, NEW m \in Message, NEW a \in Answer, Offer(f, m, a)
      PROVE  TypeOK' /\ LocalsOK'
  <2>1. TypeOK'
    BY <1>6 DEF Offer, eventVars, rowVars
  <2>2. LocalsOK'
    BY <1>6, ConstantsAssumption DEF Offer, eventVars, rowVars, Holds
  <2>3. QED BY <2>1, <2>2
<1>7. ASSUME NEW f \in Flush, Write(f)
      PROVE  TypeOK' /\ LocalsOK'
  <2> DEFINE m == trying[f]
             next == afterFailure(seen[f][m], answer[f])
  <2>1. m \in Message /\ seen[f][m] \in Nat /\ Holds(f, m)
    BY <1>7 DEF Write, Holds
  <2>2. next.attempts \in Nat /\ next.status \in {"FAILED", "PENDING"}
    BY <2>1, PolicyType
  <2>3. /\ pc[f] = "write"
        /\ trying' = [trying EXCEPT ![f] = NoMessage]
        /\ answer' = [answer EXCEPT ![f] = "none"]
        /\ seen' = [seen EXCEPT ![f][m] = 0]
        /\ pc' = [pc EXCEPT ![f] = IF batch[f] = {} THEN "idle" ELSE "offer"]
        /\ due' = due \/ due' = due \ {m}
        /\ UNCHANGED <<deliveries, notifying, owed, swallowed, age, batch, crashes,
                       accepted, failures, refused, contested>>
    BY <1>7 DEF Write, eventVars, providerVars
  <2>4. PICK s \in {"SENT", "FAILED", "PENDING"}, k \in Nat :
            /\ status' = [status EXCEPT ![m] = s]
            /\ attempts' = [attempts EXCEPT ![m] = k]
    <3>1. CASE answer[f] = "accepted"
      <4>1. /\ status' = [status EXCEPT ![m] = "SENT"]
            /\ attempts' = [attempts EXCEPT ![m] = seen[f][m] + 1]
        BY <1>7, <3>1 DEF Write
      <4>2. seen[f][m] + 1 \in Nat
        BY <2>1
      <4>3. QED BY <4>1, <4>2
    <3>2. CASE answer[f] # "accepted"
      <4>1. /\ status' = [status EXCEPT ![m] = next.status]
            /\ attempts' = [attempts EXCEPT ![m] = next.attempts]
        BY <1>7, <3>2 DEF Write
      <4> HIDE DEF next
      <4>2. QED BY <4>1, <2>2
    <3>3. QED BY <3>1, <3>2
  <2> HIDE DEF next, m
  <2>5. TypeOK'
    BY <2>1, <2>3, <2>4
  <2>6. LocalsOK'
    <3>1. \A g \in Flush :
            /\ pc'[g] = "write" => trying'[g] \in Message /\ trying'[g] \notin batch'[g]
            /\ pc'[g] # "write" => trying'[g] = NoMessage /\ answer'[g] = "none"
            /\ pc'[g] \in {"idle", "begin"} => batch'[g] = {}
      <4>1. trying'[f] = NoMessage /\ answer'[f] = "none" /\ pc'[f] # "write" /\ batch'[f] = batch[f]
            /\ (pc'[f] \in {"idle", "begin"} => batch[f] = {})
        BY <2>3
      <4>2. \A g \in Flush \ {f} : /\ trying'[g] = trying[g] /\ answer'[g] = answer[g]
                                   /\ pc'[g] = pc[g] /\ batch'[g] = batch[g]
        BY <2>3
      <4>3. QED BY <4>1, <4>2
    <3>2. \A n \in Message : status'[n] = "NONE" => status[n] = "NONE"
      BY <2>1, <2>4
    <3>3. \A n \in Message : status'[n] = "NONE" => pc'[n] = "idle"
      BY <3>2, <2>3
    <3>4. \A g \in Flush, n \in Message : Holds(g, n)' => Holds(g, n)
      BY <2>3, ConstantsAssumption DEF Holds
    <3>5. \A g \in Flush, n \in Message : Holds(g, n)' => status'[n] # "NONE"
      BY <3>2, <3>4
    <3>6. QED BY <3>1, <3>3, <3>5
  <2>7. QED BY <2>5, <2>6
<1>8. ASSUME NEW f \in Flush, FlushDies(f)
      PROVE  TypeOK' /\ LocalsOK'
  <2>1. TypeOK'
    BY <1>8 DEF FlushDies, eventVars, rowVars, providerVars
  <2>2. LocalsOK'
    BY <1>8, ConstantsAssumption DEF FlushDies, eventVars, rowVars, providerVars, Holds
  <2>3. QED BY <2>1, <2>2
<1>9. CASE UNCHANGED vars
  BY <1>9 DEF vars, eventVars, rowVars, flushVars, providerVars, Holds
<1>10. QED BY <1>1, <1>11, <1>12, <1>13, <1>2, <1>3, <1>4, <1>5, <1>6, <1>7, <1>8, <1>9
           DEF Next

\* Every row and every flush keeps its type.
THEOREM TypeCorrect == Spec => []TypeOK
<1>1. TypeOK /\ LocalsOK /\ [Next]_vars => (TypeOK /\ LocalsOK)'
  BY TypeStep
<1>2. QED BY TypeInit, <1>1, PTL DEF Spec

-----------------------------------------------------------------------------
(* Giving up. *)

\* A count of attempts - in a pending row, in a flush's copy of one, in an answer about
\* to be written - never runs ahead of the offers that failed: overlapping flushes set
\* counts back, never forward.
CountsAreBehind ==
    /\ \A m \in Message : status[m] \in {"NONE", "PENDING"} => attempts[m] <= failures[m]
    /\ \A f \in Flush : \A m \in batch[f] : seen[f][m] <= failures[m]
    /\ \A f \in Flush : pc[f] = "write" /\ answer[f] # "accepted"
                          => seen[f][trying[f]] + 1 <= failures[trying[f]]
    /\ \A f \in Flush : answer[f] = "refused" => trying[f] \in refused
    /\ PatienceKept

LEMMA CountsInit == Init => CountsAreBehind
  BY DEF Init, CountsAreBehind, PatienceKept, Flush

LEMMA CountsStep == ASSUME TypeOK, LocalsOK, CountsAreBehind, [Next]_vars
                    PROVE  CountsAreBehind'
<1> USE DEF TypeOK, LocalsOK, CountsAreBehind, PatienceKept
<1>1. ASSUME NEW m \in Message,
             EventHappens(m) \/ Redeliver(m) \/ EnqueueFails(m) \/ HandlerDies(m)
      PROVE  UNCHANGED <<rowVars, flushVars, providerVars>>
  BY <1>1 DEF EventHappens, Redeliver, EnqueueFails, HandlerDies
<1>2. ASSUME UNCHANGED <<rowVars, flushVars, providerVars>>
      PROVE  CountsAreBehind'
  BY <1>2 DEF rowVars, flushVars, providerVars
<1>3. ASSUME NEW m \in Message, Enqueue(m)
      PROVE  CountsAreBehind'
  <2>1. UNCHANGED <<attempts, batch, seen, trying, answer, failures, refused>>
    BY <1>3 DEF Enqueue, providerVars
  <2>2. CASE status[m] = "NONE"
    <3>1. /\ status' = [status EXCEPT ![m] = "PENDING"]
          /\ pc' = [pc EXCEPT ![m] = "begin"]
      BY <1>3, <2>2 DEF Enqueue
    <3>2. QED BY <2>1, <2>2, <3>1 DEF Flush
  <2>3. CASE status[m] # "NONE"
    <3>1. UNCHANGED <<status, pc>>
      BY <1>3, <2>3 DEF Enqueue
    <3>2. QED BY <2>1, <3>1
  <2>4. QED BY <2>2, <2>3
<1>4. ASSUME NEW m \in Message, BackoffElapses(m)
      PROVE  CountsAreBehind'
  BY <1>4 DEF BackoffElapses, flushVars, providerVars
<1>5. ASSUME NEW f \in Flush, AskForFlush(f)
      PROVE  CountsAreBehind'
  BY <1>5 DEF AskForFlush, rowVars, providerVars
<1>6. ASSUME NEW f \in Flush, Read(f)
      PROVE  CountsAreBehind'
  <2> DEFINE T == Take(Limit(f))
  <2>1. \A m \in T : m \in Message /\ status[m] = "PENDING"
    BY LimitIsNat, TakeIsPending
  <2>2. /\ batch' = [batch EXCEPT ![f] = T]
        /\ seen' = [seen EXCEPT ![f] = [m \in Message |-> IF m \in T THEN attempts[m] ELSE 0]]
        /\ pc[f] = "begin" /\ pc' = [pc EXCEPT ![f] = IF T = {} THEN "idle" ELSE "offer"]
        /\ UNCHANGED <<status, attempts, trying, answer, failures, refused>>
    BY <1>6 DEF Read, rowVars, providerVars
  <2> HIDE DEF T
  <2>3. QED BY <2>1, <2>2
<1>7. ASSUME NEW f \in Flush, NEW m \in Message, NEW a \in Answer, Offer(f, m, a)
      PROVE  CountsAreBehind'
  <2>1. /\ m \in batch[f] /\ trying' = [trying EXCEPT ![f] = m]
        /\ batch' = [batch EXCEPT ![f] = @ \ {m}]
        /\ answer' = [answer EXCEPT ![f] = a]
        /\ pc' = [pc EXCEPT ![f] = "write"]
        /\ UNCHANGED <<status, attempts, seen>>
    BY <1>7 DEF Offer, rowVars
  <2>2. /\ \A n \in Message : failures[n] <= failures'[n]
        /\ a # "accepted" => failures'[m] = failures[m] + 1
        /\ refused \subseteq refused' /\ (a = "refused" => m \in refused')
    BY <1>7 DEF Offer
  <2>3. failures' \in [Message -> Nat]
    BY <1>7 DEF Offer
  <2>4. \A n \in Message : status'[n] \in {"NONE", "PENDING"} => attempts'[n] <= failures'[n]
    BY <2>1, <2>2, <2>3
  <2>5. \A g \in Flush : \A n \in batch'[g] : seen'[g][n] <= failures'[n]
    BY <2>1, <2>2, <2>3
  <2>6. \A g \in Flush : pc'[g] = "write" /\ answer'[g] # "accepted"
                          => seen'[g][trying'[g]] + 1 <= failures'[trying'[g]]
    BY <2>1, <2>2, <2>3
  <2>7. \A g \in Flush : answer'[g] = "refused" => trying'[g] \in refused'
    BY <2>1, <2>2
  <2>8. PatienceKept'
    BY <2>1, <2>2, <2>3, ConstantsAssumption
  <2>9. QED BY <2>4, <2>5, <2>6, <2>7, <2>8
<1>8. ASSUME NEW f \in Flush, Write(f)
      PROVE  CountsAreBehind'
  <2> DEFINE m == trying[f]
             next == afterFailure(seen[f][m], answer[f])
  <2>1. m \in Message /\ seen[f][m] \in Nat
    BY <1>8 DEF Write
  <2>2. /\ next.attempts = seen[f][m] + 1
        /\ next.status \in {"FAILED", "PENDING"}
        /\ next.status = "FAILED" => answer[f] = "refused" \/ seen[f][m] + 1 >= MaxAttempts
    BY <2>1, PolicyType
  <2> HIDE DEF next
  <2>3. /\ pc[f] = "write"
        /\ trying' = [trying EXCEPT ![f] = NoMessage]
        /\ answer' = [answer EXCEPT ![f] = "none"]
        /\ seen' = [seen EXCEPT ![f][m] = 0]
        /\ pc' = [pc EXCEPT ![f] = IF batch[f] = {} THEN "idle" ELSE "offer"]
        /\ UNCHANGED <<batch, failures, refused>>
    BY <1>8 DEF Write, providerVars
  <2>4. \A g \in Flush : /\ \A n \in batch'[g] : seen'[g][n] <= failures'[n]
                         /\ pc'[g] = "write" /\ answer'[g] # "accepted"
                               => seen'[g][trying'[g]] + 1 <= failures'[trying'[g]]
                         /\ answer'[g] = "refused" => trying'[g] \in refused'
    BY <2>1, <2>3
  <2>5. CASE answer[f] = "accepted"
    <3>1. /\ status' = [status EXCEPT ![m] = "SENT"]
          /\ attempts' = [attempts EXCEPT ![m] = seen[f][m] + 1]
      BY <1>8, <2>5 DEF Write
    <3>2. QED BY <2>1, <2>3, <2>4, <3>1
  <2>6. CASE answer[f] # "accepted"
    <3>1. /\ status' = [status EXCEPT ![m] = next.status]
          /\ attempts' = [attempts EXCEPT ![m] = next.attempts]
      BY <1>8, <2>6 DEF Write, next
    <3>2. seen[f][m] + 1 <= failures[m]
      BY <2>3, <2>6
    <3>3. \A n \in Message : status'[n] \in {"NONE", "PENDING"} => attempts'[n] <= failures'[n]
      BY <2>1, <2>2, <2>3, <3>1, <3>2
    <3>4. PatienceKept'
      BY <2>1, <2>2, <2>3, <3>1, <3>2, ConstantsAssumption
    <3>5. QED BY <2>4, <3>3, <3>4
  <2>7. QED BY <2>5, <2>6
<1>9. ASSUME NEW f \in Flush, FlushDies(f)
      PROVE  CountsAreBehind'
  BY <1>9 DEF FlushDies, rowVars, providerVars
<1>10. CASE UNCHANGED vars
  BY <1>2, <1>10 DEF vars
<1>11. QED BY <1>1, <1>2, <1>3, <1>4, <1>5, <1>6, <1>7, <1>8, <1>9, <1>10 DEF Next

\* A message is given up on only for good reason, whatever flushes overlap.
THEOREM GivenUpForGoodReason == Spec => []PatienceKept
<1>1. TypeOK /\ LocalsOK /\ CountsAreBehind /\ [Next]_vars
      => (TypeOK /\ LocalsOK /\ CountsAreBehind)'
  BY TypeStep, CountsStep
<1>2. CountsAreBehind => PatienceKept
  BY DEF CountsAreBehind
<1>3. QED BY TypeInit, CountsInit, <1>1, <1>2, PTL DEF Spec

-----------------------------------------------------------------------------
(* Telling somebody once. *)

\* A message outside `contested` has at most one holder, whose copy is the row itself,
\* and the provider has it exactly if the row says so or the holder is about to.
HeldOnce(m) ==
    /\ \A f, g \in Flush : Holds(f, m) /\ Holds(g, m) => f = g
    /\ \A f \in Flush : Holds(f, m) => status[m] = "PENDING" /\ seen[f][m] = attempts[m]
    /\ \A f \in Flush : trying[f] = m => answer[f] # "lost"
    /\ accepted[m] = IF \/ status[m] = "SENT"
                        \/ \E f \in Flush : trying[f] = m /\ answer[f] = "accepted"
                     THEN 1 ELSE 0

OneHolder == \A m \in Message : m \notin contested => HeldOnce(m)

LEMMA OneHolderInit == Init => OneHolder
  BY ConstantsAssumption DEF Init, OneHolder, HeldOnce, Holds, Flush

LEMMA OneHolderStep == ASSUME TypeOK, LocalsOK, OneHolder, [Next]_vars
                       PROVE  OneHolder'
<1> USE DEF TypeOK, LocalsOK, OneHolder, HeldOnce, Holds
<1>1. ASSUME NEW m \in Message,
             EventHappens(m) \/ Redeliver(m) \/ EnqueueFails(m) \/ HandlerDies(m)
      PROVE  UNCHANGED <<rowVars, flushVars, providerVars, contested>>
  BY <1>1 DEF EventHappens, Redeliver, EnqueueFails, HandlerDies
<1>2. ASSUME UNCHANGED <<status, attempts, batch, seen, trying, answer, accepted, contested>>
      PROVE  OneHolder'
  BY <1>2
<1>3. ASSUME NEW m \in Message, Enqueue(m)
      PROVE  OneHolder'
  <2>1. UNCHANGED <<attempts, batch, seen, trying, answer, accepted, contested>>
    BY <1>3 DEF Enqueue, providerVars
  <2>2. CASE status[m] = "NONE"
    <3>1. status' = [status EXCEPT ![m] = "PENDING"]
      BY <1>3, <2>2 DEF Enqueue
    <3>2. QED BY <2>1, <2>2, <3>1
  <2>3. CASE status[m] # "NONE"
    <3>1. UNCHANGED status
      BY <1>3, <2>3 DEF Enqueue
    <3>2. QED BY <2>1, <3>1
  <2>4. QED BY <2>2, <2>3
<1>4. ASSUME NEW m \in Message, BackoffElapses(m)
      PROVE  OneHolder'
  BY <1>2, <1>4 DEF BackoffElapses, flushVars, providerVars
<1>5. ASSUME NEW f \in Flush, AskForFlush(f)
      PROVE  OneHolder'
  BY <1>2, <1>5 DEF AskForFlush, rowVars, providerVars
<1>6. ASSUME NEW f \in Flush, Read(f)
      PROVE  OneHolder'
  <2> DEFINE T == Take(Limit(f))
  <2>1. \A m \in T : m \in Message /\ status[m] = "PENDING"
    BY LimitIsNat, TakeIsPending
  <2>2. /\ batch' = [batch EXCEPT ![f] = T]
        /\ seen' = [seen EXCEPT ![f] = [m \in Message |-> IF m \in T THEN attempts[m] ELSE 0]]
        /\ contested' = contested \cup {m \in T : \E g \in Flush \ {f} : Holds(g, m)}
        /\ pc[f] = "begin"
        /\ UNCHANGED <<status, attempts, trying, answer, accepted>>
    BY <1>6 DEF Read, rowVars, providerVars
  <2> HIDE DEF T
  <2>3. batch[f] = {} /\ trying[f] = NoMessage
    BY <2>2
  <2>4. QED BY <2>1, <2>2, <2>3, ConstantsAssumption
<1>7. ASSUME NEW f \in Flush, NEW m \in Message, NEW a \in Answer, Offer(f, m, a)
      PROVE  OneHolder'
  <2>1. /\ m \in batch[f] /\ trying' = [trying EXCEPT ![f] = m]
        /\ batch' = [batch EXCEPT ![f] = @ \ {m}]
        /\ answer' = [answer EXCEPT ![f] = a]
        /\ pc[f] = "offer" /\ trying[f] = NoMessage
        /\ accepted' = IF a \in {"accepted", "lost"}
                       THEN [accepted EXCEPT ![m] = @ + 1] ELSE accepted
        /\ contested' = IF a = "lost" THEN contested \cup {m} ELSE contested
        /\ UNCHANGED <<status, attempts, seen>>
    BY <1>7 DEF Offer, rowVars
  <2>2. \A g \in Flush, n \in Message : Holds(g, n)' <=> Holds(g, n)
    BY <2>1, ConstantsAssumption
  <2>3. \A n \in Message \ {m}, g \in Flush : trying'[g] = n <=> trying[g] = n
    BY <2>1, ConstantsAssumption
  <2>4. \A g \in Flush \ {f} : answer'[g] = answer[g]
    BY <2>1
  <2>5. ASSUME NEW n \in Message \ {m}, n \notin contested'
        PROVE  HeldOnce(n)'
    <3>1. n \notin contested /\ accepted'[n] = accepted[n]
      BY <2>1, <2>5
    <3>2. \A g \in Flush : trying'[g] = n => g # f /\ answer'[g] = answer[g]
      BY <2>1, <2>4
    <3>3. \A g \in Flush : trying[g] = n => g # f /\ answer'[g] = answer[g]
      BY <2>1, <2>4, ConstantsAssumption
    <3>4. QED BY <2>1, <2>2, <2>3, <3>1, <3>2, <3>3
  <2>6. ASSUME m \notin contested'
        PROVE  HeldOnce(m)'
    <3>1. m \notin contested /\ a # "lost"
      BY <2>1, <2>6
    <3>2. \A g \in Flush : Holds(g, m) => g = f
      BY <2>1, <3>1
    <3>3. status[m] = "PENDING" /\ accepted[m] = 0
      BY <2>1, <3>1, <3>2, ConstantsAssumption
    <3>4. accepted'[m] = IF a = "accepted" THEN 1 ELSE 0
      BY <2>1, <3>1, <3>3
    <3>5. \A g \in Flush : trying'[g] = m => g = f
      BY <2>2, <3>2
    <3>6. QED BY <2>1, <2>2, <3>1, <3>2, <3>3, <3>4, <3>5
  <2>7. QED BY <2>5, <2>6
<1>8. ASSUME NEW f \in Flush, Write(f)
      PROVE  OneHolder'
  <2>0. PICK m \in Message : m = trying[f]
    BY <1>8 DEF Write
  <2> DEFINE next == afterFailure(seen[f][m], answer[f])
  <2>1. trying[f] = m /\ seen[f][m] \in Nat /\ m \notin batch[f]
    BY <1>8, <2>0 DEF Write
  <2>2. next.attempts = seen[f][m] + 1 /\ next.status \in {"FAILED", "PENDING"}
    BY <2>1, PolicyType
  <2>3. /\ trying' = [trying EXCEPT ![f] = NoMessage]
        /\ answer' = [answer EXCEPT ![f] = "none"]
        /\ seen' = [seen EXCEPT ![f][m] = 0]
        /\ UNCHANGED <<batch, accepted, contested>>
    BY <1>8, <2>1 DEF Write, providerVars
  <2>4. PICK s \in {"SENT", "FAILED", "PENDING"} :
            /\ status' = [status EXCEPT ![m] = s]
            /\ s = "SENT" <=> answer[f] = "accepted"
    <3>1. CASE answer[f] = "accepted"
      <4>1. status' = [status EXCEPT ![m] = "SENT"]
        BY <1>8, <2>1, <3>1 DEF Write
      <4>2. QED BY <3>1, <4>1
    <3>2. CASE answer[f] # "accepted"
      <4>1. status' = [status EXCEPT ![m] = next.status]
        BY <1>8, <2>1, <3>2 DEF Write
      <4> HIDE DEF next
      <4>2. QED BY <2>2, <3>2, <4>1
    <3>3. QED BY <3>1, <3>2
  <2>5. \A n \in Message \ {m} : attempts'[n] = attempts[n]
    BY <1>8, <2>1 DEF Write
  <2> HIDE DEF next
  <2>6. ASSUME NEW n \in Message \ {m}, n \notin contested'
        PROVE  HeldOnce(n)'
    <3>1. /\ n \notin contested /\ status'[n] = status[n] /\ attempts'[n] = attempts[n]
          /\ accepted'[n] = accepted[n]
      BY <2>3, <2>4, <2>5, <2>6
    <3>2. \A g \in Flush : /\ trying'[g] = n <=> trying[g] = n
                           /\ trying[g] = n => g # f /\ answer'[g] = answer[g]
      BY <2>1, <2>3, ConstantsAssumption
    <3>3. \A g \in Flush : batch'[g] = batch[g] /\ seen'[g][n] = seen[g][n]
      BY <2>3
    <3>4. HeldOnce(n) /\ \A g \in Flush : Holds(g, n)' <=> Holds(g, n)
      BY <3>1, <3>2, <3>3
    <3>5. \A g \in Flush : trying'[g] = n => answer'[g] = answer[g] /\ trying[g] = n
      BY <3>2
    <3>6. \A g \in Flush : trying[g] = n => answer'[g] = answer[g] /\ trying'[g] = n
      BY <3>2
    <3>7. QED BY <3>1, <3>3, <3>4, <3>5, <3>6
  <2>7. ASSUME m \notin contested'
        PROVE  HeldOnce(m)'
    <3>1. m \notin contested /\ trying[f] = m /\ HeldOnce(m)
      BY <2>1, <2>3, <2>7
    <3>2. \A g \in Flush : Holds(g, m) => g = f
      BY <3>1
    <3>3. \A g \in Flush : ~ Holds(g, m)'
      BY <2>1, <2>3, <3>2, ConstantsAssumption
    <3>4. status[m] = "PENDING"
      BY <3>1
    <3>5. accepted[m] = IF answer[f] = "accepted" THEN 1 ELSE 0
      BY <3>1, <3>2, <3>4
    <3>6. accepted'[m] = IF status'[m] = "SENT" THEN 1 ELSE 0
      BY <2>1, <2>3, <2>4, <3>5
    <3>7. \A g \in Flush : trying'[g] # m
      BY <3>3
    <3>8. QED BY <3>3, <3>6, <3>7
  <2>8. QED BY <2>6, <2>7
<1>9. ASSUME NEW f \in Flush, FlushDies(f)
      PROVE  OneHolder'
  <2>1. /\ batch' = [batch EXCEPT ![f] = {}]
        /\ trying' = [trying EXCEPT ![f] = NoMessage]
        /\ answer' = [answer EXCEPT ![f] = "none"]
        /\ \A g \in Flush \ {f} : seen'[g] = seen[g]
        /\ contested \subseteq contested'
        /\ pc[f] = "write" => trying[f] \in contested'
        /\ UNCHANGED <<status, attempts, accepted>>
    BY <1>9 DEF FlushDies, rowVars, providerVars
  <2>2. ASSUME NEW n \in Message, n \notin contested'
        PROVE  HeldOnce(n)'
    <3>1. n \notin contested /\ trying[f] # n
      BY <2>1, <2>2, ConstantsAssumption
    <3>2. \A g \in Flush : /\ trying'[g] = n <=> trying[g] = n
                           /\ trying[g] = n => g # f /\ answer'[g] = answer[g]
                           /\ n \in batch'[g] => g # f /\ n \in batch[g]
      BY <2>1, <3>1, ConstantsAssumption
    <3>3. QED BY <2>1, <3>1, <3>2
  <2>3. QED BY <2>2
<1>10. CASE UNCHANGED vars
  BY <1>2, <1>10 DEF vars, rowVars, flushVars, providerVars
<1>11. QED BY <1>1, <1>2, <1>3, <1>4, <1>5, <1>6, <1>7, <1>8, <1>9, <1>10
           DEF Next, rowVars, flushVars, providerVars

\* Nothing but two flushes at once, or an answer lost on the way, tells anybody twice.
THEOREM ToldOnce == Spec => []AcceptedOnce
<1>1. TypeOK /\ LocalsOK /\ OneHolder /\ [Next]_vars => (TypeOK /\ LocalsOK /\ OneHolder)'
  BY TypeStep, OneHolderStep
<1>2. OneHolder => AcceptedOnce
  BY DEF OneHolder, HeldOnce, AcceptedOnce
<1>3. QED BY TypeInit, OneHolderInit, <1>1, <1>2, PTL DEF Spec

LEMMA RowAdvances ==
  ASSUME TypeOK, LocalsOK, OneHolder, [Next]_vars, NEW m \in Message, m \notin contested
  PROVE  /\ status[m] \in {"SENT", "FAILED"} => status'[m] = status[m]
         /\ attempts'[m] >= attempts[m]
<1> USE DEF TypeOK
<1>1. ASSUME NEW f \in Flush, Write(f)
      PROVE  /\ status[m] \in {"SENT", "FAILED"} => status'[m] = status[m]
             /\ attempts'[m] >= attempts[m]
  <2>1. CASE trying[f] = m
    <3>1. status[m] = "PENDING" /\ seen[f][m] = attempts[m]
      BY <2>1 DEF OneHolder, HeldOnce, Holds
    <3>2. attempts'[m] = seen[f][m] + 1
      BY <1>1, <2>1, PolicyType DEF Write
    <3>3. QED BY <3>1, <3>2
  <2>2. CASE trying[f] # m
    BY <1>1, <2>2 DEF Write
  <2>3. QED BY <2>1, <2>2
<1>2. ASSUME NEW n \in Message, Enqueue(n)
      PROVE  /\ status[m] \in {"SENT", "FAILED"} => status'[m] = status[m]
             /\ attempts' = attempts
  BY <1>2 DEF Enqueue
<1>3. ASSUME NEW n \in Message,
             EventHappens(n) \/ Redeliver(n) \/ EnqueueFails(n) \/ HandlerDies(n)
                \/ BackoffElapses(n)
      PROVE  UNCHANGED <<status, attempts>>
  BY <1>3 DEF EventHappens, Redeliver, EnqueueFails, HandlerDies, BackoffElapses, rowVars
<1>4. ASSUME NEW f \in Flush,
             AskForFlush(f) \/ Read(f) \/ FlushDies(f)
                \/ \E n \in Message, a \in Answer : Offer(f, n, a)
      PROVE  UNCHANGED <<status, attempts>>
  BY <1>4 DEF AskForFlush, Read, FlushDies, Offer, rowVars
<1>5. CASE UNCHANGED vars
  BY <1>5 DEF vars, rowVars
<1>6. QED BY <1>1, <1>2, <1>3, <1>4, <1>5 DEF Next

\* A row one flush at a time has held never goes back.
THEOREM RowsNeverGoBack == Spec => RowsOnlyAdvance
<1>1. TypeOK /\ LocalsOK /\ OneHolder /\ [Next]_vars => (TypeOK /\ LocalsOK /\ OneHolder)'
  BY TypeStep, OneHolderStep
<1>2. TypeOK /\ LocalsOK /\ OneHolder /\ [Next]_vars
      => [\A m \in Message : m \notin contested =>
              /\ status[m] \in {"SENT", "FAILED"} => status'[m] = status[m]
              /\ attempts'[m] >= attempts[m]]_vars
  BY RowAdvances
<1>3. QED BY TypeInit, OneHolderInit, <1>1, <1>2, PTL DEF Spec, RowsOnlyAdvance
=============================================================================
