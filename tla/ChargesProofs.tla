---------------------------- MODULE ChargesProofs ----------------------------
(***************************************************************************)
(* Theorems about Charges, for every largest amount, every set of requests *)
(* and any number of deliveries.                                           *)
(***************************************************************************)
EXTENDS Charges, TLAPS

\* A request holds what its step needs, and a desk request is of a step of the desk.
RequestsOK ==
    \A r \in Request :
        /\ request[r].pc = "idle" => request[r] = Idle
        /\ request[r].pc \in {"start", "load"} => request[r].by = "card"
        /\ request[r].by = "card" => request[r].n \in CardPayment

\* Sums that were read are never more than what is there now, and no charge a handler
\* read was smaller than the smallest so far.
SumsOK ==
    /\ amount >= least
    /\ \A r \in Request :
          /\ request[r].pc \in {"pay", "status"} => request[r].owed >= least
          /\ request[r].pc = "pay" => request[r].settled <= received
          /\ request[r].pc = "status" => request[r].settled + request[r].n <= received
    /\ PaidWasCovered

\* What is about to be answered is posted.
AnswersOK ==
    /\ \A r \in Request : request[r].pc = "status" /\ request[r].by = "card" => posted[request[r].n] > 0
    /\ AnsweredIsPosted

\* While no two deliveries of a card payment ran at once, one at most is under way, and
\* nothing is posted before it posts.
DeliveriesOK ==
    \A a \in CardPayment \ overlapped :
        /\ posted[a] <= 1
        /\ \A r \in Request : Delivering(r, a) =>
              /\ request[r].pc \in {"load", "pay"} => posted[a] = 0
              /\ \A q \in Request : Delivering(q, a) => q = r

Inv == TypeOK /\ RequestsOK /\ SumsOK /\ AnswersOK /\ DeliveriesOK

LEMMA InitInv == Init => Inv
<1> USE ConstantsAssumption DEF Init, Idle, Amount, CardPayment
<1>1. Init => TypeOK
  BY DEF TypeOK
<1>2. Init => RequestsOK
  BY DEF RequestsOK
<1>3. Init => SumsOK
  BY DEF SumsOK, PaidWasCovered
<1>4. Init => AnswersOK
  BY DEF AnswersOK, AnsweredIsPosted
<1>5. Init => DeliveriesOK
  BY DEF DeliveriesOK, Delivering
<1>6. QED BY <1>1, <1>2, <1>3, <1>4, <1>5 DEF Inv

RequestRecord == [pc : {"idle", "waive", "amend", "start", "load", "pay", "status"},
                  by : {"desk", "card"}, n : Amount, settled : Nat, owed : Amount]

\* What RequestsOK says of one request.
RequestOK(w) ==
    /\ w \in RequestRecord
    /\ w.pc = "idle" => w = Idle
    /\ w.pc \in {"start", "load"} => w.by = "card"
    /\ w.by = "card" => w.n \in CardPayment

LEMMA OneRequest ==
  ASSUME TypeOK, RequestsOK, NEW r \in Request, NEW w, RequestOK(w), request' = [request EXCEPT ![r] = w]
  PROVE  request' \in [Request -> RequestRecord] /\ RequestsOK'
  BY DEF TypeOK, RequestsOK, RequestOK, RequestRecord

LEMMA IdleOK == RequestOK(Idle)
  BY ConstantsAssumption DEF RequestOK, RequestRecord, Idle, Amount

LEMMA ReadOK ==
  ASSUME NEW who \in {"desk", "card"}, NEW n \in Amount, who = "card" => n \in CardPayment,
         NEW step \in {"waive", "amend", "start", "load"}, step \in {"start", "load"} => who = "card"
  PROVE  RequestOK(Handling(step, who, n))
  BY ConstantsAssumption DEF RequestOK, RequestRecord, Handling, Amount

LEMMA OneMore ==
  ASSUME NEW S, NEW f \in [S -> Nat], NEW a \in S
  PROVE  [f EXCEPT ![a] = @ + 1] \in [S -> Nat]
  OBVIOUS

LEMMA TypeStep == ASSUME TypeOK, RequestsOK, [Next]_vars
                  PROVE  TypeOK' /\ RequestsOK'
<1> USE ConstantsAssumption DEF TypeOK, RequestsOK, Amount, CardPayment, Idle, rowVars, stripeVars
<1>1. ASSUME NEW r \in Request, NEW n \in Amount, ReadToSettle(r, n)
      PROVE  TypeOK' /\ RequestsOK'
  BY <1>1 DEF ReadToSettle, OpenAtDesk, Begin, Paying
<1>2. ASSUME NEW r \in Request, NEW n \in Amount, ReadToAmend(r, n)
      PROVE  TypeOK' /\ RequestsOK'
  BY <1>2 DEF ReadToAmend, OpenAtDesk, Begin, Handling
<1>3. ASSUME NEW r \in Request, ReadToWaive(r)
      PROVE  TypeOK' /\ RequestsOK'
  <2>1. RequestOK(Handling("waive", "desk", 0))
    BY ReadOK
  <2>2. request' = [request EXCEPT ![r] = Handling("waive", "desk", 0)] /\ UNCHANGED <<rowVars, stripeVars>>
    BY <1>3 DEF ReadToWaive, Begin
  <2>3. QED BY <2>1, <2>2, OneRequest DEF RequestRecord
<1>4. ASSUME NEW r \in Request, Waive(r)
      PROVE  TypeOK' /\ RequestsOK'
  <2>1. request' = [request EXCEPT ![r] = Idle]
    BY <1>4 DEF Waive
  <2>2. request' \in [Request -> RequestRecord] /\ RequestsOK'
    BY <2>1, IdleOK, OneRequest
  <2>3. QED BY <1>4, <2>2 DEF Waive, RequestRecord
<1>5. ASSUME NEW r \in Request, Amend(r)
      PROVE  TypeOK' /\ RequestsOK'
  <2>1. request' = [request EXCEPT ![r] = Idle]
    BY <1>5 DEF Amend
  <2>2. request' \in [Request -> RequestRecord] /\ RequestsOK'
    BY <2>1, IdleOK, OneRequest
  <2>3. amount' \in Amount /\ least' \in Amount
    BY <1>5 DEF Amend
  <2>4. QED BY <1>5, <2>2, <2>3 DEF Amend, RequestRecord
<1>6. ASSUME NEW r \in Request, ReadToStart(r)
      PROVE  TypeOK' /\ RequestsOK'
  <2>1. RequestOK(Handling("start", "card", amount - received))
    <3>1. amount - received \in CardPayment
      BY <1>6 DEF ReadToStart
    <3>2. QED BY <3>1, ReadOK
  <2>2. /\ request' = [request EXCEPT ![r] = Handling("start", "card", amount - received)]
        /\ UNCHANGED <<rowVars, stripeVars>>
    BY <1>6 DEF ReadToStart, Begin
  <2>3. request' \in [Request -> RequestRecord] /\ RequestsOK'
    BY <2>1, <2>2, OneRequest
  <2>4. QED BY <2>2, <2>3 DEF RequestRecord
<1>7. ASSUME NEW r \in Request, StartCardPayment(r)
      PROVE  TypeOK' /\ RequestsOK'
  <2>1. request' = [request EXCEPT ![r] = Idle]
    BY <1>7 DEF StartCardPayment
  <2>2. request' \in [Request -> RequestRecord] /\ RequestsOK'
    BY <2>1, IdleOK, OneRequest
  <2>3. request[r].n \in CardPayment
    BY <1>7 DEF StartCardPayment
  <2>4. QED BY <1>7, <2>2, <2>3 DEF StartCardPayment, RequestRecord
<1>8. ASSUME NEW r \in Request, NEW a \in CardPayment, Deliver(r, a)
      PROVE  TypeOK' /\ RequestsOK'
  <2>1. /\ deliveries' = [deliveries EXCEPT ![a] = @ + 1]
        /\ overlapped' \subseteq overlapped \cup {a}
        /\ answered' \subseteq answered \cup {a}
        /\ request' \in {request, [request EXCEPT ![r] = Handling("load", "card", a)]}
        /\ UNCHANGED <<rowVars, intents, succeeded>>
    BY <1>8 DEF Deliver
  <2>2. RequestOK(Handling("load", "card", a))
    BY ReadOK
  <2>3. /\ deliveries' \in [CardPayment -> Nat]
        /\ overlapped' \subseteq CardPayment
        /\ answered' \subseteq CardPayment
    BY <2>1, OneMore
  <2>4. CASE request' = request
    BY <2>1, <2>4, <2>3
  <2>5. CASE request' = [request EXCEPT ![r] = Handling("load", "card", a)]
    <3>1. request' \in [Request -> RequestRecord] /\ RequestsOK'
      BY <2>2, <2>5, OneRequest
    <3>2. QED BY <2>1, <2>3, <3>1 DEF RequestRecord
  <2>6. QED BY <2>1, <2>4, <2>5
<1>9. ASSUME NEW r \in Request, LoadCharge(r)
      PROVE  TypeOK' /\ RequestsOK'
  BY <1>9 DEF LoadCharge, Begin, Paying
<1>10. ASSUME NEW r \in Request, CreatePayment(r)
       PROVE  TypeOK' /\ RequestsOK'
  <2>1. /\ request' = [request EXCEPT ![r] = [@ EXCEPT !.pc = "status"]]
        /\ request[r].pc = "pay"
        /\ received' = received + request[r].n
        /\ UNCHANGED <<status, amount, least, stripeVars>>
    BY <1>10 DEF CreatePayment
  <2>2. RequestOK([request[r] EXCEPT !.pc = "status"])
    BY DEF RequestOK, RequestRecord
  <2>3. request' \in [Request -> RequestRecord] /\ RequestsOK'
    BY <2>1, <2>2, OneRequest
  <2>4. posted' \in [CardPayment -> Nat]
    <3>1. CASE request[r].by = "card"
      <4>1. posted' = [posted EXCEPT ![request[r].n] = @ + 1]
        BY <1>10, <3>1 DEF CreatePayment
      <4>2. QED BY <4>1, OneMore
    <3>2. CASE request[r].by # "card"
      BY <1>10, <3>2 DEF CreatePayment
    <3>3. QED BY <3>1, <3>2
  <2>5. received' \in Nat
    BY <2>1
  <2>6. QED BY <2>1, <2>3, <2>4, <2>5 DEF RequestRecord
<1>11. ASSUME NEW r \in Request, WriteStatus(r)
       PROVE  TypeOK' /\ RequestsOK'
  <2>1. request' = [request EXCEPT ![r] = Idle]
    BY <1>11 DEF WriteStatus
  <2>2. request' \in [Request -> RequestRecord] /\ RequestsOK'
    BY <2>1, IdleOK, OneRequest
  <2>3. status' \in {"PAID", "PART_PAID"} /\ answered' \subseteq CardPayment
    BY <1>11 DEF WriteStatus, StatusOf
  <2>4. QED BY <1>11, <2>2, <2>3 DEF WriteStatus, RequestRecord
<1>12. ASSUME NEW r \in Request, RequestDies(r)
       PROVE  TypeOK' /\ RequestsOK'
  BY <1>12 DEF RequestDies, Begin
<1>13. ASSUME NEW a \in CardPayment, ResidentPays(a)
       PROVE  TypeOK' /\ RequestsOK'
  BY <1>13 DEF ResidentPays
<1>14. CASE UNCHANGED vars
  BY <1>14 DEF vars
<1>15. QED BY <1>1, <1>2, <1>3, <1>4, <1>5, <1>6, <1>7, <1>8, <1>9, <1>10, <1>11, <1>12,
              <1>13, <1>14 DEF Next

\* Every row and every request keeps its type.
THEOREM TypeCorrect == Spec => []TypeOK
<1>1. Init => TypeOK /\ RequestsOK
  BY InitInv DEF Inv
<1>2. TypeOK /\ RequestsOK /\ [Next]_vars => (TypeOK /\ RequestsOK)'
  BY TypeStep
<1>3. QED BY <1>1, <1>2, PTL DEF Spec

-----------------------------------------------------------------------------
(* What handlers read, and what is there when they write. *)

\* A step of one request that leaves the row of the charge and its payments alone.
LEMMA SumsKept ==
  ASSUME TypeOK, RequestsOK, SumsOK, NEW r \in Request, UNCHANGED rowVars,
         \A q \in Request \ {r} : request'[q] = request[q],
         \/ request'[r].pc \in {"idle", "waive", "amend", "start", "load"}
         \/ request'[r] = request[r]
         \/ request'[r].pc = "pay" /\ request'[r].settled = received /\ request'[r].owed = amount
  PROVE  SumsOK'
  BY DEF TypeOK, SumsOK, PaidWasCovered, rowVars, Amount

LEMMA SumsStep == ASSUME TypeOK, RequestsOK, SumsOK, [Next]_vars
                  PROVE  SumsOK'
<1> USE DEF TypeOK
<1>1. ASSUME NEW r \in Request, NEW n \in Amount, ReadToSettle(r, n)
      PROVE  SumsOK'
  <2>1. UNCHANGED rowVars /\ request' = [request EXCEPT ![r] = Paying("desk", n)]
    BY <1>1 DEF ReadToSettle, Begin
  <2>2. QED BY <2>1, SumsKept DEF Paying
<1>2. ASSUME NEW r \in Request, NEW n \in Amount, ReadToAmend(r, n)
      PROVE  SumsOK'
  <2>1. UNCHANGED rowVars /\ request' = [request EXCEPT ![r] = Handling("amend", "desk", n)]
    BY <1>2 DEF ReadToAmend, Begin
  <2>2. QED BY <2>1, SumsKept DEF Handling
<1>3. ASSUME NEW r \in Request, ReadToWaive(r)
      PROVE  SumsOK'
  <2>1. UNCHANGED rowVars /\ request' = [request EXCEPT ![r] = Handling("waive", "desk", 0)]
    BY <1>3 DEF ReadToWaive, Begin
  <2>2. QED BY <2>1, SumsKept DEF Handling
<1>4. ASSUME NEW r \in Request, Waive(r)
      PROVE  SumsOK'
  <2>1. /\ status' = "WAIVED" /\ UNCHANGED <<amount, least, received>>
        /\ request' = [request EXCEPT ![r] = Idle]
    BY <1>4 DEF Waive
  <2>2. QED BY <2>1 DEF SumsOK, PaidWasCovered, Idle
<1>5. ASSUME NEW r \in Request, Amend(r)
      PROVE  SumsOK'
  <2>1. /\ amount' = request[r].n /\ UNCHANGED <<status, received>>
        /\ request' = [request EXCEPT ![r] = Idle]
    BY <1>5 DEF Amend
  <2>2. least' <= least /\ least' <= amount'
    BY <1>5 DEF Amend, Amount
  <2>3. least' \in Int /\ least \in Int /\ received \in Int
    BY <1>5 DEF Amend, Amount
  <2>4. \A q \in Request : request[q].owed \in Int
    BY DEF Amount
  <2>5. QED BY <2>1, <2>2, <2>3, <2>4 DEF SumsOK, PaidWasCovered, Idle
<1>6. ASSUME NEW r \in Request, ReadToStart(r)
      PROVE  SumsOK'
  <2>1. /\ UNCHANGED rowVars
        /\ request' = [request EXCEPT ![r] = Handling("start", "card", amount - received)]
    BY <1>6 DEF ReadToStart, Begin
  <2>2. QED BY <2>1, SumsKept DEF Handling
<1>7. ASSUME NEW r \in Request, StartCardPayment(r)
      PROVE  SumsOK'
  <2>1. UNCHANGED rowVars /\ request' = [request EXCEPT ![r] = Idle]
    BY <1>7 DEF StartCardPayment
  <2>2. QED BY <2>1, SumsKept DEF Idle
<1>8. ASSUME NEW r \in Request, NEW a \in CardPayment, Deliver(r, a)
      PROVE  SumsOK'
  <2>1. /\ UNCHANGED rowVars
        /\ request' \in {request, [request EXCEPT ![r] = Handling("load", "card", a)]}
    BY <1>8 DEF Deliver
  <2>2. QED BY <2>1, SumsKept DEF Handling
<1>9. ASSUME NEW r \in Request, LoadCharge(r)
      PROVE  SumsOK'
  <2>1. UNCHANGED rowVars /\ request' = [request EXCEPT ![r] = Paying("card", request[r].n)]
    BY <1>9 DEF LoadCharge, Begin
  <2>2. QED BY <2>1, SumsKept DEF Paying
<1>10. ASSUME NEW r \in Request, CreatePayment(r)
       PROVE  SumsOK'
  <2>1. /\ received' = received + request[r].n
        /\ request[r].pc = "pay" /\ request' = [request EXCEPT ![r].pc = "status"]
        /\ UNCHANGED <<status, amount, least>>
    BY <1>10 DEF CreatePayment
  <2>2. /\ request[r].n \in Nat /\ received \in Nat /\ least \in Int
        /\ \A q \in Request : request[q].owed \in Int /\ request[q].settled \in Int /\ request[q].n \in Int
    BY DEF Amount
  <2>3. QED BY <2>1, <2>2 DEF SumsOK, PaidWasCovered
<1>11. ASSUME NEW r \in Request, WriteStatus(r)
       PROVE  SumsOK'
  <2>1. /\ request[r].pc = "status" /\ request' = [request EXCEPT ![r] = Idle]
        /\ status' = StatusOf(request[r].settled + request[r].n, request[r].owed)
        /\ UNCHANGED <<received, amount, least>>
    BY <1>11 DEF WriteStatus
  <2>2. /\ request[r].n \in Int /\ received \in Int /\ least \in Int
        /\ request[r].owed \in Int /\ request[r].settled \in Int
    BY DEF Amount
  <2>3. status' = "PAID" => received' >= least'
    BY <2>1, <2>2 DEF SumsOK, StatusOf
  <2>4. QED BY <2>1, <2>3 DEF SumsOK, PaidWasCovered, Idle
<1>12. ASSUME NEW r \in Request, RequestDies(r)
       PROVE  SumsOK'
  <2>1. UNCHANGED rowVars /\ request' = [request EXCEPT ![r] = Idle]
    BY <1>12 DEF RequestDies, Begin
  <2>2. QED BY <2>1, SumsKept DEF Idle
<1>13. ASSUME NEW a \in CardPayment, ResidentPays(a)
       PROVE  SumsOK'
  BY <1>13 DEF ResidentPays, SumsOK, PaidWasCovered, rowVars
<1>14. CASE UNCHANGED vars
  BY <1>14 DEF vars, SumsOK, PaidWasCovered, rowVars
<1>15. QED BY <1>1, <1>2, <1>3, <1>4, <1>5, <1>6, <1>7, <1>8, <1>9, <1>10, <1>11, <1>12,
              <1>13, <1>14 DEF Next

\* A charge marked PAID has received the smallest amount it was ever for.
THEOREM PaidMeansReceived == Spec => []PaidWasCovered
<1>1. Init => TypeOK /\ RequestsOK /\ SumsOK
  BY InitInv DEF Inv
<1>2. TypeOK /\ RequestsOK /\ SumsOK /\ [Next]_vars => (TypeOK /\ RequestsOK /\ SumsOK)'
  BY TypeStep, SumsStep
<1>3. SumsOK => PaidWasCovered
  BY DEF SumsOK
<1>4. QED BY <1>1, <1>2, <1>3, PTL DEF Spec

-----------------------------------------------------------------------------
(* Deliveries: what is answered is posted, and posted once. *)

\* A step of one request that posts nothing and delivers nothing: where it goes, it was
\* already, or it is no delivery.
LEMMA DeliveriesKept ==
  ASSUME TypeOK, RequestsOK, AnswersOK, DeliveriesOK, NEW r \in Request,
         UNCHANGED <<posted, overlapped>>,
         \A q \in Request \ {r} : request'[q] = request[q],
         \/ request'[r].by = "desk"
         \/ request'[r].pc \in {"idle", "waive", "amend", "start"}
         \/ /\ request'[r].by = "card" /\ request'[r].n = request[r].n
            /\ request'[r].pc \in {"load", "pay"} /\ request[r].pc \in {"load", "pay"}
            /\ request[r].by = "card"
  PROVE  DeliveriesOK' /\ (answered' = answered => AnswersOK')
<1>1. \A q \in Request, a \in CardPayment : Delivering(q, a)' => Delivering(q, a)
  BY DEF TypeOK, Delivering
<1>2. \A q \in Request : request'[q].by = "card" /\ request'[q].pc = "status" => request'[q] = request[q]
  BY DEF TypeOK
<1>3. ASSUME NEW a \in CardPayment \ overlapped', NEW q \in Request, Delivering(q, a)'
      PROVE  /\ request'[q].pc \in {"load", "pay"} => posted'[a] = 0
             /\ \A p \in Request : Delivering(p, a)' => p = q
  <2>1. Delivering(q, a) /\ (request'[q].pc \in {"load", "pay"} => request[q].pc \in {"load", "pay"})
    BY <1>1, <1>3 DEF Delivering
  <2>2. QED BY <1>1, <2>1 DEF DeliveriesOK
<1>4. DeliveriesOK'
  BY <1>3 DEF DeliveriesOK
<1>5. QED BY <1>2, <1>4 DEF AnswersOK, AnsweredIsPosted

LEMMA DeliveriesStep == ASSUME TypeOK, RequestsOK, AnswersOK, DeliveriesOK, [Next]_vars
                        PROVE  AnswersOK' /\ DeliveriesOK'
<1> USE DEF TypeOK, rowVars, stripeVars
<1>1. ASSUME NEW r \in Request, NEW n \in Amount, ReadToSettle(r, n)
      PROVE  AnswersOK' /\ DeliveriesOK'
  <2>1. UNCHANGED <<rowVars, stripeVars>> /\ request' = [request EXCEPT ![r] = Paying("desk", n)]
    BY <1>1 DEF ReadToSettle, Begin
  <2>2. QED BY <2>1, DeliveriesKept DEF Paying
<1>2. ASSUME NEW r \in Request, NEW n \in Amount, ReadToAmend(r, n)
      PROVE  AnswersOK' /\ DeliveriesOK'
  <2>1. UNCHANGED <<rowVars, stripeVars>> /\ request' = [request EXCEPT ![r] = Handling("amend", "desk", n)]
    BY <1>2 DEF ReadToAmend, Begin
  <2>2. QED BY <2>1, DeliveriesKept DEF Handling
<1>3. ASSUME NEW r \in Request, ReadToWaive(r)
      PROVE  AnswersOK' /\ DeliveriesOK'
  <2>1. UNCHANGED <<rowVars, stripeVars>> /\ request' = [request EXCEPT ![r] = Handling("waive", "desk", 0)]
    BY <1>3 DEF ReadToWaive, Begin
  <2>2. QED BY <2>1, DeliveriesKept DEF Handling
<1>4. ASSUME NEW r \in Request, Waive(r) \/ Amend(r) \/ StartCardPayment(r) \/ RequestDies(r)
      PROVE  AnswersOK' /\ DeliveriesOK'
  <2>1. UNCHANGED <<posted, overlapped, answered>> /\ request' = [request EXCEPT ![r] = Idle]
    BY <1>4 DEF Waive, Amend, StartCardPayment, RequestDies, Begin
  <2>2. QED BY <2>1, DeliveriesKept DEF Idle
<1>5. ASSUME NEW r \in Request, ReadToStart(r)
      PROVE  AnswersOK' /\ DeliveriesOK'
  <2>1. /\ UNCHANGED <<rowVars, stripeVars>>
        /\ request' = [request EXCEPT ![r] = Handling("start", "card", amount - received)]
    BY <1>5 DEF ReadToStart, Begin
  <2>2. QED BY <2>1, DeliveriesKept DEF Handling
<1>6. ASSUME NEW r \in Request, NEW a \in CardPayment, Deliver(r, a)
      PROVE  AnswersOK' /\ DeliveriesOK'
  <2>1. posted' = posted /\ overlapped' = IF \E q \in Request : Delivering(q, a)
                                          THEN overlapped \cup {a} ELSE overlapped
    BY <1>6 DEF Deliver
  <2>2. CASE AlreadyPosted(a)
    <3>1. answered' = answered \cup {a} /\ request' = request /\ posted[a] > 0
      BY <1>6, <2>2 DEF Deliver, AlreadyPosted
    <3>2. AnswersOK'
      BY <2>1, <3>1 DEF AnswersOK, AnsweredIsPosted
    <3>3. overlapped \subseteq overlapped'
      BY <2>1
    <3>4. DeliveriesOK'
      BY <2>1, <3>1, <3>3 DEF DeliveriesOK, Delivering
    <3>5. QED BY <3>2, <3>4
  <2>3. CASE ~ AlreadyPosted(a)
    <3>1. /\ answered' = answered /\ posted[a] = 0
          /\ request' = [request EXCEPT ![r] = Handling("load", "card", a)]
      BY <1>6, <2>3 DEF Deliver, AlreadyPosted
    <3>2. AnswersOK'
      BY <2>1, <3>1 DEF AnswersOK, AnsweredIsPosted, Handling
    <3>3. \A q \in Request, b \in CardPayment : Delivering(q, b)' => Delivering(q, b) \/ (q = r /\ b = a)
      BY <3>1 DEF Delivering, Handling
    <3>4. \A q \in Request : q # r => request'[q] = request[q]
      BY <3>1
    <3>5. ~ Delivering(r, a) /\ request[r].pc = "idle"
      BY <1>6 DEF Deliver, Delivering, Idle
    <3>6. ASSUME NEW b \in CardPayment \ overlapped', b # a
          PROVE  /\ posted'[b] <= 1
                 /\ \A q \in Request : Delivering(q, b)' =>
                       /\ request'[q].pc \in {"load", "pay"} => posted'[b] = 0
                       /\ \A p \in Request : Delivering(p, b)' => p = q
      <4>1. b \in CardPayment \ overlapped
        BY <2>1, <3>6
      <4>2. \A q \in Request : Delivering(q, b)' => Delivering(q, b) /\ request'[q] = request[q]
        <5>1. ~ Delivering(r, b)
          BY <3>5 DEF Delivering
        <5>2. QED BY <3>3, <3>4, <3>6, <5>1
      <4>3. QED BY <2>1, <4>1, <4>2 DEF DeliveriesOK
    <3>7. ASSUME a \notin overlapped'
          PROVE  /\ posted'[a] <= 1
                 /\ \A q \in Request : Delivering(q, a)' =>
                       /\ request'[q].pc \in {"load", "pay"} => posted'[a] = 0
                       /\ \A p \in Request : Delivering(p, a)' => p = q
      <4>1. ~ \E q \in Request : Delivering(q, a)
        BY <2>1, <3>7
      <4>2. QED BY <2>1, <3>1, <3>3, <4>1
    <3>8. DeliveriesOK'
      BY <3>6, <3>7 DEF DeliveriesOK
    <3>9. QED BY <3>2, <3>8
  <2>4. QED BY <2>2, <2>3
<1>7. ASSUME NEW r \in Request, LoadCharge(r)
      PROVE  AnswersOK' /\ DeliveriesOK'
  <2>1. /\ UNCHANGED <<rowVars, stripeVars>> /\ request[r].pc = "load" /\ request[r].by = "card"
        /\ request' = [request EXCEPT ![r] = Paying("card", request[r].n)]
    BY <1>7 DEF LoadCharge, Begin, RequestsOK
  <2>2. QED BY <2>1, DeliveriesKept DEF Paying
<1>8. ASSUME NEW r \in Request, CreatePayment(r)
      PROVE  AnswersOK' /\ DeliveriesOK'
  <2>1. /\ request[r].pc = "pay" /\ UNCHANGED <<answered, overlapped>>
        /\ request' = [request EXCEPT ![r].pc = "status"]
    BY <1>8 DEF CreatePayment
  <2>2. \A q \in Request, b \in CardPayment : Delivering(q, b)' <=> Delivering(q, b)
    BY <2>1 DEF Delivering
  <2>3. CASE request[r].by = "desk"
    <3>2. posted' = posted
      BY <1>8, <2>3 DEF CreatePayment
    <3>3. QED BY <2>1, <2>3, <3>2, DeliveriesKept
  <2>4. CASE request[r].by = "card"
    <3>1. PICK n \in CardPayment : n = request[r].n
      BY <2>4 DEF RequestsOK
    <3>2. posted' = [posted EXCEPT ![n] = @ + 1]
      BY <1>8, <2>4, <3>1 DEF CreatePayment
    <3>3. \A b \in CardPayment : posted'[b] >= posted[b] /\ (b # n => posted'[b] = posted[b])
      BY <3>2
    <3>4. posted'[n] = posted[n] + 1 /\ posted'[n] > 0 /\ posted[n] \in Nat
      BY <3>2
    <3>5. \A q \in Request : q # r => request'[q] = request[q]
      BY <2>1
    <3>6. request'[r].n = n /\ request'[r].pc = "status" /\ Delivering(r, n)
      BY <2>1, <2>4, <3>1 DEF Delivering
    <3>7. AnswersOK'
      <4>1. ASSUME NEW q \in Request, request'[q].pc = "status", request'[q].by = "card"
            PROVE  posted'[request'[q].n] > 0
        <5>1. CASE q = r
          BY <3>4, <3>6, <5>1
        <5>2. CASE q # r
          <6>1. request[q].n \in CardPayment /\ posted[request[q].n] > 0
            BY <3>5, <4>1, <5>2 DEF AnswersOK, RequestsOK
          <6>2. posted[request[q].n] \in Nat /\ posted'[request[q].n] \in Nat
            BY <3>2, <6>1
          <6>3. QED BY <3>3, <3>5, <5>2, <6>1, <6>2
        <5>3. QED BY <5>1, <5>2
      <4>2. AnsweredIsPosted'
        <5>1. \A b \in CardPayment : posted[b] \in Nat /\ posted'[b] \in Nat
          BY <3>2
        <5>2. QED BY <2>1, <3>3, <5>1 DEF AnswersOK, AnsweredIsPosted
      <4>3. QED BY <4>1, <4>2 DEF AnswersOK
    <3>8. ASSUME NEW b \in CardPayment \ overlapped', b # n
          PROVE  /\ posted'[b] <= 1
                 /\ \A q \in Request : Delivering(q, b)' =>
                       /\ request'[q].pc \in {"load", "pay"} => posted'[b] = 0
                       /\ \A p \in Request : Delivering(p, b)' => p = q
      <4>1. b \in CardPayment \ overlapped /\ posted'[b] = posted[b]
        BY <2>1, <3>3, <3>8
      <4>2. \A q \in Request : Delivering(q, b) => q # r
        BY <3>1, <3>8 DEF Delivering
      <4>3. QED BY <2>2, <3>5, <4>1, <4>2 DEF DeliveriesOK
    <3>9. ASSUME n \notin overlapped'
          PROVE  /\ posted'[n] <= 1
                 /\ \A q \in Request : Delivering(q, n)' =>
                       /\ request'[q].pc \in {"load", "pay"} => posted'[n] = 0
                       /\ \A p \in Request : Delivering(p, n)' => p = q
      <4>1. n \in CardPayment \ overlapped
        BY <2>1, <3>9
      <4>2. posted[n] = 0 /\ \A q \in Request : Delivering(q, n) => q = r
        BY <2>1, <3>6, <4>1 DEF DeliveriesOK
      <4>3. QED BY <2>2, <3>4, <3>6, <4>2
    <3>10. DeliveriesOK'
      BY <3>8, <3>9 DEF DeliveriesOK
    <3>11. QED BY <3>7, <3>10
  <2>5. QED BY <2>3, <2>4
<1>9. ASSUME NEW r \in Request, WriteStatus(r)
      PROVE  AnswersOK' /\ DeliveriesOK'
  <2>1. /\ request[r].pc = "status" /\ request' = [request EXCEPT ![r] = Idle]
        /\ answered' \subseteq IF request[r].by = "card" THEN answered \cup {request[r].n} ELSE answered
        /\ UNCHANGED <<posted, overlapped>>
    BY <1>9 DEF WriteStatus
  <2>2. DeliveriesOK'
    BY <2>1, DeliveriesKept DEF Idle
  <2>3. \A a \in answered' : posted'[a] > 0
    BY <2>1 DEF AnswersOK, AnsweredIsPosted
  <2>4. QED BY <2>1, <2>2, <2>3 DEF AnswersOK, AnsweredIsPosted, Idle
<1>10. ASSUME NEW a \in CardPayment, ResidentPays(a)
       PROVE  AnswersOK' /\ DeliveriesOK'
  BY <1>10 DEF ResidentPays, AnswersOK, AnsweredIsPosted, DeliveriesOK, Delivering
<1>11. CASE UNCHANGED vars
  BY <1>11 DEF vars, AnswersOK, AnsweredIsPosted, DeliveriesOK, Delivering
<1>12. QED BY <1>1, <1>2, <1>3, <1>4, <1>5, <1>6, <1>7, <1>8, <1>9, <1>10, <1>11 DEF Next

\* What the two theorems below read off.
LEMMA DeliveriesHold == Spec => [](AnswersOK /\ DeliveriesOK)
<1> DEFINE IInv == TypeOK /\ RequestsOK /\ AnswersOK /\ DeliveriesOK
<1>1. Init => IInv
  BY InitInv DEF Inv
<1>2. IInv /\ [Next]_vars => IInv'
  BY TypeStep, DeliveriesStep
<1>3. QED BY <1>1, <1>2, PTL DEF Spec

\* A card payment whose delivery was answered has left its money in the ledger, wherever
\* earlier deliveries of it were cut short.
THEOREM AnsweredIsPostedAlways == Spec => []AnsweredIsPosted
<1>1. AnswersOK => AnsweredIsPosted
  BY DEF AnswersOK
<1>2. QED BY DeliveriesHold, <1>1, PTL

\* A card payment is posted once unless two deliveries of it ran at once.
THEOREM PostedOnceAlways == Spec => []PostedOnce
<1>1. DeliveriesOK => PostedOnce
  BY DEF DeliveriesOK, PostedOnce
<1>2. QED BY DeliveriesHold, <1>1, PTL

\* A charge waived while the desk is quiet stays out of the desk's hands, and waived until a
\* card payment arrives.
THEOREM WaivedForTheDesk == Spec => WaivedAtTheDesk
<1> DEFINE Kept == status = "WAIVED" /\ DeskIsQuiet => DeskIsQuiet' /\ (NoCardArrives => status' = "WAIVED")
<1> USE DEF rowVars, stripeVars
<1>1. ASSUME TypeOK, RequestsOK, [Next]_vars, status = "WAIVED", DeskIsQuiet
      PROVE  DeskIsQuiet' /\ (NoCardArrives => status' = "WAIVED")
  <2> USE DEF TypeOK, DeskIsQuiet, NoCardArrives
  <2>1. ASSUME NEW r \in Request, NEW n \in Amount, ReadToSettle(r, n) \/ ReadToAmend(r, n)
        PROVE  FALSE
    BY <1>1, <2>1 DEF ReadToSettle, ReadToAmend, OpenAtDesk
  <2>2. ASSUME NEW r \in Request, ReadToWaive(r)
        PROVE  FALSE
    BY <1>1, <2>2 DEF ReadToWaive, OpenAtDesk
  <2>3. ASSUME NEW r \in Request, Waive(r) \/ Amend(r) \/ StartCardPayment(r)
        PROVE  DeskIsQuiet' /\ status' = "WAIVED"
    BY <1>1, <2>3 DEF Waive, Amend, StartCardPayment, Idle
  <2>4. ASSUME NEW r \in Request, ReadToStart(r)
        PROVE  DeskIsQuiet' /\ status' = "WAIVED"
    BY <1>1, <2>4 DEF ReadToStart, Begin, Handling, Idle
  <2>5. ASSUME NEW r \in Request, NEW a \in CardPayment, Deliver(r, a)
        PROVE  DeskIsQuiet' /\ status' = "WAIVED"
    <3>1. request' \in {request, [request EXCEPT ![r] = Handling("load", "card", a)]} /\ status' = status
      BY <2>5 DEF Deliver
    <3>2. QED BY <1>1, <3>1 DEF Handling, Idle
  <2>6. ASSUME NEW r \in Request, LoadCharge(r)
        PROVE  DeskIsQuiet' /\ status' = "WAIVED"
    BY <1>1, <2>6 DEF LoadCharge, Begin, Paying, Idle
  <2>7. ASSUME NEW r \in Request, CreatePayment(r)
        PROVE  DeskIsQuiet' /\ status' = "WAIVED"
    <3>1. request[r].pc = "pay" /\ request' = [request EXCEPT ![r].pc = "status"] /\ status' = status
      BY <2>7 DEF CreatePayment
    <3>2. request[r].by = "card"
      BY <1>1, <3>1 DEF Idle
    <3>3. QED BY <1>1, <3>1, <3>2 DEF Idle
  <2>8. ASSUME NEW r \in Request, WriteStatus(r)
        PROVE  DeskIsQuiet' /\ ~ NoCardArrives
    BY <1>1, <2>8 DEF WriteStatus, Idle
  <2>9. ASSUME NEW r \in Request, RequestDies(r)
        PROVE  DeskIsQuiet' /\ status' = "WAIVED"
    BY <1>1, <2>9 DEF RequestDies, Begin, Idle
  <2>10. ASSUME NEW a \in CardPayment, ResidentPays(a)
         PROVE  DeskIsQuiet' /\ status' = "WAIVED"
    BY <1>1, <2>10 DEF ResidentPays
  <2>11. CASE UNCHANGED vars
    BY <1>1, <2>11 DEF vars
  <2>12. QED BY <1>1, <2>1, <2>2, <2>3, <2>4, <2>5, <2>6, <2>7, <2>8, <2>9, <2>10, <2>11 DEF Next
<1>2. TypeOK /\ RequestsOK /\ [Next]_vars => [Kept]_vars
  BY <1>1
<1>3. Init => TypeOK /\ RequestsOK
  BY InitInv DEF Inv
<1>4. TypeOK /\ RequestsOK /\ [Next]_vars => (TypeOK /\ RequestsOK)'
  BY TypeStep
<1>5. QED BY <1>2, <1>3, <1>4, PTL DEF Spec, WaivedAtTheDesk
=============================================================================
