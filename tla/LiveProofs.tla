----------------------------- MODULE LiveProofs -----------------------------
(***************************************************************************)
(* Theorems about Live, for every number of records, browsers, writes and  *)
(* disconnections.                                                         *)
(***************************************************************************)
EXTENDS Live, TLAPS

Screen == [rows : Rows, twice : SUBSET Row]
Fetch == [at : {"none", "asked", "served"}, rows : Rows, clean : BOOLEAN]
WriteRecord == [wish : Wish, by : Client \cup {Elsewhere}, open : BOOLEAN,
                server : {"sent", "done", "refused"}, before : Screen, reply : Rows]

\* A write waits for an answer only in a browser that is followed.
WriteOK(x) == x \in WriteRecord /\ (x.open => x.by \in Client)

\* TypeOK, which says of each write under way what it is, and that they are a sequence.
LiveTypes ==
    /\ TypeOK
    /\ write \in Seq(WriteRecord)
    /\ \A w \in Writes : WriteOK(write[w])

-----------------------------------------------------------------------------
(* The writes under way. *)

\* A step of one write leaves the others where they were, or one place further to the front.
LEMMA StepWrites ==
  ASSUME LiveTypes, NEW w \in Writes, NEW next, WriteOK(next), Step(w, next)
  PROVE  /\ write' \in Seq(WriteRecord)
         /\ \A u \in 1 .. Len(write') : write'[u] = next \/ \E v \in Writes : write'[u] = write[v]
         /\ \A v \in Writes : v # w => \E u \in 1 .. Len(write') : write'[u] = write[v]
         /\ next.open => \E u \in 1 .. Len(write') : write'[u] = next
<1> DEFINE S == WriteRecord
<1>1. write \in Seq(S) /\ next \in S /\ w \in 1 .. Len(write) /\ Len(write) \in Nat
  BY DEF LiveTypes, WriteOK, Writes
<1> HIDE DEF S
<1>2. CASE next.open \/ next.server = "sent"
  <2>1. write' = [write EXCEPT ![w] = next]
    BY <1>2 DEF Step
  <2>2. QED BY <1>1, <2>1 DEF Writes, S
<1>3. CASE ~ (next.open \/ next.server = "sent")
  <2> DEFINE n == Len(write)
             before == SubSeq(write, 1, w - 1)
             after == SubSeq(write, w + 1, n)
  <2>1. write' = before \o after
    BY <1>3 DEF Step, RemoveAt
  <2>2. before \in Seq(S) /\ Len(before) = w - 1 /\ \A i \in 1 .. w - 1 : before[i] = write[i]
    BY <1>1
  <2>3. after \in Seq(S) /\ Len(after) = n - w /\ \A i \in 1 .. n - w : after[i] = write[w + i]
    BY <1>1
  <2> HIDE DEF before, after
  <2>4. /\ write' \in Seq(S)
        /\ Len(write') = n - 1
        /\ \A i \in 1 .. n - 1 : write'[i] = IF i < w THEN before[i] ELSE after[i - w + 1]
    BY <1>1, <2>1, <2>2, <2>3
  <2>5. \A i \in 1 .. n - 1 : write'[i] = IF i < w THEN write[i] ELSE write[i + 1]
    <3>1. ASSUME NEW i \in 1 .. n - 1, i < w
          PROVE  write'[i] = write[i]
      <4>1. i \in 1 .. w - 1
        BY <1>1, <3>1
      <4>2. QED BY <2>2, <2>4, <3>1, <4>1
    <3>2. ASSUME NEW i \in 1 .. n - 1, ~ (i < w)
          PROVE  write'[i] = write[i + 1]
      <4>1. i - w + 1 \in 1 .. n - w /\ w + (i - w + 1) = i + 1
        BY <1>1, <3>2
      <4>2. QED BY <2>3, <2>4, <3>2, <4>1
    <3>3. QED BY <3>1, <3>2
  <2>6. ASSUME NEW u \in 1 .. Len(write')
        PROVE  \E v \in Writes : write'[u] = write[v]
    <3>1. u \in 1 .. n - 1
      BY <1>1, <2>4
    <3>2. u \in 1 .. n /\ u + 1 \in 1 .. n
      BY <1>1, <3>1
    <3>3. QED BY <2>5, <3>1, <3>2 DEF Writes
  <2>7. ASSUME NEW v \in Writes, v # w
        PROVE  \E u \in 1 .. Len(write') : write'[u] = write[v]
    <3>1. CASE v < w
      BY <1>1, <2>4, <2>5, <2>7, <3>1 DEF Writes
    <3>2. CASE v > w
      <4>1. v - 1 \in 1 .. Len(write') /\ write'[v - 1] = write[v]
        BY <1>1, <2>4, <2>5, <2>7, <3>2 DEF Writes
      <4>2. QED BY <4>1
    <3>3. QED BY <1>1, <2>7, <3>1, <3>2 DEF Writes
  <2>8. QED BY <1>3, <2>4, <2>6, <2>7 DEF S
<1>4. QED BY <1>2, <1>3

LEMMA StepTypes ==
  ASSUME LiveTypes, NEW w \in Writes, NEW next, WriteOK(next), Step(w, next)
  PROVE  /\ write' \in Seq(WriteRecord)
         /\ \A u \in Writes' : WriteOK(write[u])'
<1>1. /\ write' \in Seq(WriteRecord)
      /\ \A u \in 1 .. Len(write') : write'[u] = next \/ \E v \in Writes : write'[u] = write[v]
  BY StepWrites
<1>2. \A v \in Writes : WriteOK(write[v])
  BY DEF LiveTypes
<1>3. \A u \in 1 .. Len(write') : WriteOK(write'[u])
  BY <1>1, <1>2
<1>4. QED BY <1>1, <1>3 DEF Writes, WriteOK, WriteRecord

LEMMA SendTypes ==
  ASSUME LiveTypes, NEW wish \in Wish, NEW by \in Client \cup {Elsewhere}, NEW before \in Screen,
         Send(wish, by, before)
  PROVE  /\ asked' \in Nat
         /\ write' \in Seq(WriteRecord)
         /\ \A u \in Writes' : WriteOK(write[u])'
         /\ Len(write') = Len(write) + 1
         /\ \A v \in Writes : v \in Writes' /\ write'[v] = write[v]
         /\ write'[Len(write')] = [wish |-> wish, by |-> by, open |-> by \in Client,
                                   server |-> "sent", before |-> before, reply |-> NoRows]
<1> DEFINE x == [wish |-> wish, by |-> by, open |-> by \in Client, server |-> "sent",
                 before |-> before, reply |-> NoRows]
<1>1. NoRows \in Rows
  BY DEF NoRows, Rows
<1>2. (by \in Client) \in BOOLEAN
  OBVIOUS
<1>3. x \in WriteRecord
  BY <1>1, <1>2 DEF WriteRecord
<1>4. WriteOK(x)
  BY <1>3 DEF WriteOK
<1>5. write \in Seq(WriteRecord) /\ write' = Append(write, x)
  BY DEF LiveTypes, Send
<1> HIDE DEF x
<1>6. /\ write' \in Seq(WriteRecord)
      /\ Len(write') = Len(write) + 1
      /\ Len(write) \in Nat
      /\ \A v \in 1 .. Len(write) : write'[v] = write[v]
      /\ write'[Len(write')] = x
  BY <1>3, <1>5
<1>7. \A v \in Writes : WriteOK(write[v])
  BY DEF LiveTypes
<1>8. \A u \in 1 .. Len(write') : u \in Writes \/ u = Len(write')
  BY <1>6 DEF Writes
<1>9. \A u \in 1 .. Len(write') : WriteOK(write'[u])
  BY <1>4, <1>6, <1>7, <1>8 DEF Writes
<1>10. asked' \in Nat
  BY DEF Send, LiveTypes, TypeOK
<1>11. \A v \in Writes : v \in Writes'
  BY <1>6 DEF Writes
<1>12. QED BY <1>6, <1>9, <1>10, <1>11 DEF Writes, WriteOK, WriteRecord, x

-----------------------------------------------------------------------------
(* Types. *)

LEMMA WishShape ==
  ASSUME NEW wish \in Wish
  PROVE  /\ wish.op \in {"create", "import", "update", "remove", "select"}
         /\ wish.op \in {"create", "import", "update"} => wish.field \in Field
         /\ wish.op \in {"update", "remove", "select"} => wish.row \in Row
  BY DEF Wish

LEMMA ServerRows ==
  ASSUME LiveTypes, NEW wish \in Wish, NEW new \in SUBSET Row
  PROVE  After(wish, new) \in Rows /\ Reply(wish, new) \in Rows
<1>1. After(wish, new) \in Rows
  <2>1. \A r \in Row : db[r] \in {Absent} \cup Field
    BY DEF LiveTypes, TypeOK, Rows
  <2>2. CASE wish.op \in {"create", "import"}
    BY <2>1, <2>2, WishShape DEF After, Rows
  <2>3. CASE wish.op = "update"
    BY <2>1, <2>3, WishShape DEF After, Rows
  <2>4. CASE wish.op = "remove"
    BY <2>1, <2>4, WishShape DEF After, Rows
  <2>5. CASE wish.op = "select"
    BY <2>1, <2>5, WishShape DEF After, Rows, Field
  <2>6. QED BY <2>2, <2>3, <2>4, <2>5, WishShape
<1>2. CASE wish.op = "create"
  <2>1. wish.field \in Field
    BY <1>2, WishShape
  <2>2. QED BY <1>1, <1>2, <2>1 DEF Reply, Rows
<1>3. CASE wish.op # "create"
  <2>1. NoRows \in Rows
    BY DEF NoRows, Rows
  <2>2. QED BY <1>1, <1>3, <2>1 DEF Reply
<1>4. QED BY <1>1, <1>2, <1>3

LEMMA GuessTypes ==
  ASSUME LiveTypes, NEW c \in Client, NEW wish \in Wish, wish.op \in Optimistic
  PROVE  Guess(c, wish) \in Screen
<1>1. cache[c] \in Screen
  BY DEF LiveTypes, TypeOK, Screen
<1>2. wish.row \in Row /\ (wish.op = "update" => wish.field \in Field)
  BY WishShape DEF Optimistic
<1>3. QED BY <1>1, <1>2 DEF Guess, Screen, Rows, Optimistic

LEMMA LiveInit == Init => LiveTypes
<1>1. ASSUME Init PROVE LiveTypes
  <2>1. db \in Rows
    BY <1>1 DEF Init, Rows, Field
  <2>2. NoRows \in Rows
    BY DEF NoRows, Rows
  <2>3. Shown(db) \in Screen /\ NoFetch \in Fetch
    BY <2>1, <2>2 DEF Shown, Screen, NoFetch, Fetch
  <2>4. write = <<>> /\ Writes = {}
    BY <1>1 DEF Init, Writes
  <2>5. QED BY <1>1, <2>1, <2>3, <2>4 DEF Init, LiveTypes, TypeOK, Screen, Fetch
<1>2. QED BY <1>1

\* What one action leaves alone or gives its type, put together.
LEMMA TypesOf ==
  ASSUME db' \in Rows, born' \subseteq Row, cache' \in [Client -> Screen],
         fetch' \in [Client -> Fetch], connected' \subseteq Client, inbox' \in [Client -> Nat],
         asked' \in Nat, drops' \in Nat, behind' \subseteq Client,
         write' \in Seq(WriteRecord), \A w \in Writes' : WriteOK(write[w])'
  PROVE  LiveTypes'
<1>1. \A w \in Writes' : write'[w] \in WriteRecord
  BY DEF WriteOK, WriteRecord
<1>2. TypeOK'
  BY <1>1 DEF TypeOK, Screen, Fetch, WriteRecord
<1>3. QED BY <1>2 DEF LiveTypes, WriteRecord

\* What LiveTypes says of the variables one by one.
LEMMA TypesGive ==
  ASSUME LiveTypes
  PROVE  /\ db \in Rows /\ born \subseteq Row /\ cache \in [Client -> Screen]
         /\ fetch \in [Client -> Fetch] /\ connected \subseteq Client /\ inbox \in [Client -> Nat]
         /\ asked \in Nat /\ drops \in Nat /\ behind \subseteq Client
         /\ write \in Seq(WriteRecord) /\ \A w \in Writes : WriteOK(write[w])
  BY DEF LiveTypes, TypeOK, Screen, Fetch

LEMMA AskedTypes == NoFetch \in Fetch /\ Asked \in Fetch /\ Shown(NoRows) \in Screen
<1>1. NoRows \in Rows
  BY DEF NoRows, Rows
<1>2. QED BY <1>1 DEF NoFetch, Asked, Fetch, Shown, Screen

\* Where nobody writes, the writes under way keep their type.
LEMMA WritesKept ==
  ASSUME LiveTypes, UNCHANGED writeVars
  PROVE  asked' \in Nat /\ write' \in Seq(WriteRecord) /\ \A w \in Writes' : WriteOK(write[w])'
<1>1. write' = write /\ asked' = asked
  BY DEF writeVars
<1>2. QED BY <1>1, TypesGive DEF Writes, WriteOK, WriteRecord

LEMMA TypeStep == ASSUME LiveTypes, [Next]_vars
                  PROVE  LiveTypes'
<1> DEFINE WritesOK == asked' \in Nat /\ write' \in Seq(WriteRecord) /\ \A w \in Writes' : WriteOK(write[w])'
<1> USE DEF clientVars, socketVars
<1>1. ASSUME NEW w \in Writes, NEW new \in SUBSET Row,
             ServeWrite(w, new) \/ ServeWriteUntold(w, new)
      PROVE  LiveTypes'
  <2> DEFINE wish == write[w].wish
             done == [write[w] EXCEPT !.server = "done", !.reply = Reply(wish, new)]
             failed == [write[w] EXCEPT !.server = "refused"]
  <2>1. WriteOK(write[w]) /\ wish \in Wish
    BY TypesGive DEF WriteOK, WriteRecord
  <2>2. After(wish, new) \in Rows /\ Reply(wish, new) \in Rows
    BY <2>1, ServerRows
  <2>3. WriteOK(done) /\ WriteOK(failed)
    BY <2>1, <2>2 DEF WriteOK, WriteRecord
  <2>4. (Step(w, done) \/ Step(w, failed)) /\ asked' = asked
    BY <1>1 DEF ServeWrite, ServeWriteUntold
  <2> HIDE DEF done, failed
  <2>5. WritesOK
    BY <2>3, <2>4, StepTypes, TypesGive
  <2>6. db' \in Rows /\ born' \subseteq Row /\ UNCHANGED <<cache, connected, drops>>
    BY <1>1, <2>2, TypesGive DEF ServeWrite, ServeWriteUntold
  <2>7. inbox' \in [Client -> Nat] /\ behind' \subseteq Client /\ fetch' \in [Client -> Fetch]
    <3>1. PICK told \in SUBSET Client : Broadcast(told)
      BY <1>1, TypesGive DEF ServeWrite, ServeWriteUntold
    <3>2. \A c \in Client : [fetch[c] EXCEPT !.clean = FALSE] \in Fetch
      BY TypesGive DEF Fetch
    <3>3. fetch' \in [Client -> Fetch]
      BY <3>1, <3>2, TypesGive DEF Broadcast
    <3>4. inbox' \in [Client -> Nat] /\ behind' \subseteq Client
      BY <3>1, TypesGive DEF Broadcast
    <3>5. QED BY <3>3, <3>4
  <2> HIDE DEF wish
  <2>8. QED BY <2>5, <2>6, <2>7, TypesOf, TypesGive
<1>2. ASSUME NEW w \in Writes, RefuseWrite(w)
      PROVE  LiveTypes'
  <2> DEFINE next == [write[w] EXCEPT !.server = "refused"]
  <2>1. WriteOK(next)
    BY TypesGive DEF WriteOK, WriteRecord
  <2>2. Step(w, next) /\ UNCHANGED <<db, born, clientVars, socketVars, asked>>
    BY <1>2 DEF RefuseWrite
  <2>3. WritesOK
    BY <2>1, <2>2, StepTypes, TypesGive
  <2>4. QED BY <2>2, <2>3, TypesOf, TypesGive
<1>3. ASSUME NEW w \in Writes, Close(w), asked' = asked
      PROVE  WritesOK
  <2> DEFINE next == [write[w] EXCEPT !.open = FALSE, !.before = Shown(NoRows), !.reply = NoRows]
  <2>1. WriteOK(next)
    BY TypesGive, AskedTypes DEF WriteOK, WriteRecord, NoRows, Rows
  <2>2. QED BY <1>3, <2>1, StepTypes, TypesGive DEF Close
<1>4. ASSUME NEW w \in Writes, write[w].open
      PROVE  write[w].by \in Client /\ write[w].reply \in Rows /\ write[w].before \in Screen
  BY <1>4, TypesGive DEF WriteOK, WriteRecord
<1>5. ASSUME NEW w \in Writes, Answered(w)
      PROVE  LiveTypes'
  <2> DEFINE c == write[w].by
             reply == write[w].reply
             new == {r \in Row : reply[r] # Absent}
             shown == {r \in Row : cache[c].rows[r] # Absent}
  <2>1. Close(w) /\ write[w].open /\ UNCHANGED <<db, born, socketVars, asked>>
    BY <1>5 DEF Answered, Close
  <2>2. c \in Client /\ reply \in Rows
    BY <1>4, <2>1
  <2>3. cache' \in [Client -> Screen] /\ fetch' \in [Client -> Fetch] /\ behind' \subseteq Client
    <3>1. CASE write[w].wish.op = "create"
      <4>1. /\ cache' = [cache EXCEPT ![c].rows = [r \in Row |-> IF r \in new THEN reply[r] ELSE @[r]],
                                      ![c].twice = @ \cup (new \cap shown)]
            /\ behind' = behind \cup {c} /\ fetch' = fetch
        BY <1>5, <3>1 DEF Answered
      <4>2. cache[c] \in Screen /\ new \subseteq Row
        BY <2>2, TypesGive
      <4>3. [r \in Row |-> IF r \in new THEN reply[r] ELSE cache[c].rows[r]] \in Rows
        BY <2>2, <4>2 DEF Screen, Rows
      <4> HIDE DEF c, reply, new, shown
      <4>4. QED BY <2>2, <4>1, <4>2, <4>3, TypesGive DEF Screen
    <3>2. CASE write[w].wish.op = "select"
      <4>1. cache' = [cache EXCEPT ![c] = Shown(reply)] /\ behind' = behind \cup {c} /\ fetch' = fetch
        BY <1>5, <3>2 DEF Answered
      <4>2. QED BY <2>2, <4>1, TypesGive DEF Shown, Screen
    <3>3. CASE write[w].wish.op \notin {"create", "select"}
      <4>1. Invalidate(c) /\ UNCHANGED <<cache, behind>>
        BY <1>5, <3>3 DEF Answered
      <4>2. QED BY <4>1, TypesGive, AskedTypes DEF Invalidate
    <3>4. QED BY <3>1, <3>2, <3>3
  <2>4. QED BY <1>3, <2>1, <2>3, TypesOf, TypesGive
<1>6. ASSUME NEW w \in Writes, Failed(w)
      PROVE  LiveTypes'
  <2> DEFINE c == write[w].by
  <2>1. Close(w) /\ write[w].open /\ UNCHANGED <<db, born, behind, socketVars, asked>>
    BY <1>6 DEF Failed, Close
  <2>2. write[w].before \in Screen
    BY <1>4, <2>1
  <2>3. \/ cache' = [cache EXCEPT ![c] = write[w].before] /\ Invalidate(c)
        \/ UNCHANGED <<cache, fetch>>
    BY <1>6 DEF Failed
  <2>4. cache' \in [Client -> Screen] /\ fetch' \in [Client -> Fetch]
    BY <2>2, <2>3, TypesGive, AskedTypes DEF Invalidate
  <2>5. QED BY <1>3, <2>1, <2>4, TypesOf, TypesGive
<1>7. ASSUME NEW wish \in Wish, AskElsewhere(wish)
      PROVE  LiveTypes'
  <2>1. Send(wish, Elsewhere, Shown(NoRows)) /\ UNCHANGED <<db, born, clientVars, socketVars>>
    BY <1>7 DEF AskElsewhere
  <2>2. WritesOK
    BY <2>1, SendTypes, AskedTypes
  <2>3. QED BY <2>1, <2>2, TypesOf, TypesGive
<1>8. ASSUME NEW c \in Client, NEW wish \in Wish, Ask(c, wish)
      PROVE  LiveTypes'
  <2>1. UNCHANGED <<db, born, behind, socketVars>>
    BY <1>8 DEF Ask
  <2>2. CASE wish.op \in Optimistic
    <3>1. /\ Send(wish, c, cache[c])
          /\ cache' = [cache EXCEPT ![c] = Guess(c, wish)]
          /\ fetch' = [fetch EXCEPT ![c] = NoFetch]
      BY <1>8, <2>2 DEF Ask
    <3>2. WritesOK
      BY <3>1, SendTypes, TypesGive
    <3>3. cache' \in [Client -> Screen] /\ fetch' \in [Client -> Fetch]
      BY <2>2, <3>1, GuessTypes, TypesGive, AskedTypes
    <3>4. QED BY <2>1, <3>2, <3>3, TypesOf, TypesGive
  <2>3. CASE wish.op \notin Optimistic
    <3>1. Send(wish, c, Shown(NoRows)) /\ UNCHANGED <<cache, fetch>>
      BY <1>8, <2>3 DEF Ask
    <3>2. WritesOK
      BY <3>1, SendTypes, AskedTypes
    <3>3. QED BY <2>1, <3>1, <3>2, TypesOf, TypesGive
  <2>4. QED BY <2>2, <2>3
<1>9. ASSUME NEW c \in Client, ServeList(c) \/ ListArrives(c) \/ ListFails(c) \/ Poll(c)
      PROVE  LiveTypes'
  <2>1. UNCHANGED <<db, born, socketVars, writeVars>>
    BY <1>9 DEF ServeList, ListArrives, ListFails, Poll
  <2>2. fetch[c].rows \in Rows
    BY TypesGive DEF Fetch
  <2>3. Shown(fetch[c].rows) \in Screen
    BY <2>2 DEF Shown, Screen
  <2>4. cache' \in [Client -> Screen] /\ behind' \subseteq Client
    BY <1>9, <2>3, TypesGive DEF ServeList, ListArrives, ListFails, Poll
  <2>5. fetch' \in [Client -> Fetch]
    <3>1. [at |-> "served", rows |-> db, clean |-> TRUE] \in Fetch
      BY TypesGive DEF Fetch
    <3>2. QED BY <1>9, <3>1, TypesGive, AskedTypes DEF ServeList, ListArrives, ListFails, Poll
  <2>6. QED BY <2>1, <2>4, <2>5, WritesKept, TypesOf, TypesGive
<1>10. ASSUME NEW c \in Client, PushArrives(c) \/ Disconnect(c) \/ Reconnect(c)
       PROVE  LiveTypes'
  <2>1. UNCHANGED <<db, born, cache, writeVars>>
    BY <1>10 DEF PushArrives, Disconnect, Reconnect
  <2>2. inbox' \in [Client -> Nat] /\ connected' \subseteq Client /\ drops' \in Nat
        /\ behind' \subseteq Client
    BY <1>10, TypesGive DEF PushArrives, Disconnect, Reconnect
  <2>3. fetch' \in [Client -> Fetch]
    <3>1. [fetch[c] EXCEPT !.clean = FALSE] \in Fetch
      BY TypesGive DEF Fetch
    <3>2. fetch' = fetch \/ fetch' = [fetch EXCEPT ![c] = Asked] \/ fetch' = [fetch EXCEPT ![c].clean = FALSE]
      BY <1>10 DEF PushArrives, Disconnect, Reconnect, Invalidate
    <3>3. QED BY <3>1, <3>2, TypesGive, AskedTypes
  <2>4. QED BY <2>1, <2>2, <2>3, WritesKept, TypesOf, TypesGive
<1>11. CASE UNCHANGED vars
  BY <1>11, WritesKept, TypesOf, TypesGive DEF vars
<1>12. QED BY <1>1, <1>2, <1>5, <1>6, <1>7, <1>8, <1>9, <1>10, <1>11 DEF Next

\* The table, the screens, the requests and the writes keep their types, and a write waits for
\* its answer only where there is a screen to answer.
THEOREM TypeCorrect == Spec => []LiveTypes
<1>1. LiveTypes /\ [Next]_vars => LiveTypes'
  BY TypeStep
<1>2. QED BY LiveInit, <1>1, PTL DEF Spec

-----------------------------------------------------------------------------
(* What a screen shows. *)

\* A guess of the browser's own is shown, and the answer is still to come.
Guessing(x, c) == x.open /\ x.by = c /\ x.wish.op \in Optimistic
OwnGuess(c) == \E w \in Writes : Guessing(write[w], c)

\* The list on its way to a browser is the table's, unless a push that will ask for it again is
\* on its way as well, or one was missed.
ListOK(c) ==
    fetch[c].at = "served" =>
        IF fetch[c].clean THEN fetch[c].rows = db \/ inbox[c] > 0 ELSE c \in behind

\* A screen that missed nothing is the table's, or something is to come that corrects it.
ScreenOK(c) ==
    c \in behind \/ cache[c] = Shown(db) \/ inbox[c] > 0 \/ fetch[c].at # "none" \/ OwnGuess(c)

ScreensOK == \A c \in Client : ListOK(c) /\ ScreenOK(c)

LEMMA ScreensInit == Init => ScreensOK
  BY DEF Init, ScreensOK, ListOK, ScreenOK, NoFetch

\* A browser a step does not reach, except that it may have missed something.
LEMMA ScreenUndisturbed ==
  ASSUME NEW c \in Client, ListOK(c), ScreenOK(c),
         db' = db, cache'[c] = cache[c], fetch'[c] = fetch[c], inbox'[c] = inbox[c],
         c \in behind => c \in behind', OwnGuess(c) => OwnGuess(c)'
  PROVE  (ListOK(c) /\ ScreenOK(c))'
<1> DEFINE G == OwnGuess(c)
           H == OwnGuess(c)'
<1>1. G => H
  OBVIOUS
<1>2. ScreenOK(c) <=> c \in behind \/ cache[c] = Shown(db) \/ inbox[c] > 0 \/ fetch[c].at # "none" \/ G
  BY DEF ScreenOK
<1>3. ScreenOK(c)' <=> c \in behind' \/ cache'[c] = Shown(db') \/ inbox'[c] > 0 \/ fetch'[c].at # "none" \/ H
  BY DEF ScreenOK, Shown
<1> HIDE DEF G, H
<1>4. ScreenOK(c)'
  BY <1>1, <1>2, <1>3
<1>5. ListOK(c)'
  BY DEF ListOK
<1>6. QED BY <1>4, <1>5

\* A browser that has just asked for the list again.
LEMMA ScreenAsked ==
  ASSUME NEW c \in Client, fetch'[c] = Asked
  PROVE  (ListOK(c) /\ ScreenOK(c))'
  BY DEF ListOK, ScreenOK, Asked, NoFetch

\* A step of one write that does not end a guess of c ends none of the others'.
LEMMA StepGuesses ==
  ASSUME LiveTypes, NEW w \in Writes, NEW next, WriteOK(next), Step(w, next),
         NEW c \in Client, Guessing(write[w], c) => Guessing(next, c)
  PROVE  OwnGuess(c) => OwnGuess(c)'
<1>1. ASSUME NEW v \in Writes, Guessing(write[v], c)
      PROVE  \E u \in 1 .. Len(write') : Guessing(write'[u], c)
  <2>1. CASE v # w
    BY <1>1, <2>1, StepWrites
  <2>2. CASE v = w
    <3>1. Guessing(next, c) /\ next.open
      BY <1>1, <2>2 DEF Guessing
    <3>2. QED BY <3>1, StepWrites
  <2>3. QED BY <2>1, <2>2
<1>2. QED BY <1>1 DEF OwnGuess, Guessing, Writes

LEMMA SendGuesses ==
  ASSUME LiveTypes, NEW wish \in Wish, NEW by \in Client \cup {Elsewhere}, NEW before \in Screen,
         Send(wish, by, before), NEW c \in Client
  PROVE  OwnGuess(c) => OwnGuess(c)'
<1>1. \A v \in Writes : v \in Writes' /\ write'[v] = write[v]
  BY SendTypes
<1>2. QED BY <1>1 DEF OwnGuess, Guessing

LEMMA GuessesKept ==
  ASSUME UNCHANGED writeVars, NEW c \in Client
  PROVE  OwnGuess(c) => OwnGuess(c)'
  BY DEF writeVars, OwnGuess, Guessing, Writes

LEMMA ScreensStep == ASSUME LiveTypes, ScreensOK, [Next]_vars
                     PROVE  ScreensOK'
<1> DEFINE Good(c) == (ListOK(c) /\ ScreenOK(c))'
           Same(c) == cache'[c] = cache[c] /\ fetch'[c] = fetch[c]
<1> USE DEF clientVars, socketVars
<1>0. \A c \in Client : ListOK(c) /\ ScreenOK(c)
  BY DEF ScreensOK
<1>1. ASSUME NEW w \in Writes, NEW new \in SUBSET Row, NEW c \in Client,
             ServeWrite(w, new) \/ ServeWriteUntold(w, new)
      PROVE  Good(c)
  <2>1. PICK told \in SUBSET Client : Broadcast(told)
    BY <1>1, TypesGive DEF ServeWrite, ServeWriteUntold
  <2>2. CASE c \in told
    <3>1. inbox'[c] > 0
      BY <2>1, <2>2, TypesGive DEF Broadcast
    <3>2. fetch'[c] = fetch[c] /\ (c \in behind => c \in behind')
      BY <2>1, <2>2 DEF Broadcast
    <3>3. QED BY <1>0, <3>1, <3>2 DEF ListOK, ScreenOK
  <2>3. CASE c \notin told
    <3>1. c \in behind' /\ fetch'[c].clean = FALSE
      BY <2>1, <2>3, TypesGive DEF Broadcast, Fetch
    <3>2. QED BY <3>1 DEF ListOK, ScreenOK
  <2>4. QED BY <2>2, <2>3
<1>2. ASSUME NEW w \in Writes, RefuseWrite(w), NEW c \in Client
      PROVE  Good(c)
  <2> DEFINE next == [write[w] EXCEPT !.server = "refused"]
  <2>1. WriteOK(next)
    BY TypesGive DEF WriteOK, WriteRecord
  <2>2. Step(w, next) /\ UNCHANGED <<db, born, clientVars, socketVars, asked>>
    BY <1>2 DEF RefuseWrite
  <2>3. Guessing(write[w], c) => Guessing(next, c)
    BY TypesGive DEF Guessing, WriteOK, WriteRecord
  <2> HIDE DEF next
  <2>4. OwnGuess(c) => OwnGuess(c)'
    BY <2>1, <2>2, <2>3, StepGuesses
  <2>5. QED BY <1>0, <2>2, <2>4, ScreenUndisturbed
<1>3. ASSUME NEW w \in Writes, Close(w), NEW c \in Client, ~ Guessing(write[w], c)
      PROVE  OwnGuess(c) => OwnGuess(c)'
  <2> DEFINE next == [write[w] EXCEPT !.open = FALSE, !.before = Shown(NoRows), !.reply = NoRows]
  <2>1. WriteOK(next)
    BY TypesGive, AskedTypes DEF WriteOK, WriteRecord, NoRows, Rows
  <2>2. Step(w, next)
    BY <1>3 DEF Close
  <2> HIDE DEF next
  <2>3. QED BY <1>3, <2>1, <2>2, StepGuesses
<1>4. ASSUME NEW w \in Writes, write[w].open
      PROVE  write[w].by \in Client
  BY <1>4, TypesGive DEF WriteOK
<1>5. ASSUME NEW w \in Writes, Answered(w), NEW c \in Client
      PROVE  Good(c)
  <2>1. Close(w) /\ write[w].by \in Client /\ UNCHANGED <<db, born, socketVars, asked>>
    BY <1>4, <1>5 DEF Answered, Close
  <2>2. CASE c # write[w].by
    <3>1. Same(c) /\ (c \in behind => c \in behind')
      BY <1>5, <2>1, <2>2, TypesGive DEF Answered, Invalidate
    <3>2. OwnGuess(c) => OwnGuess(c)'
      BY <1>3, <2>1, <2>2 DEF Guessing
    <3>3. QED BY <1>0, <2>1, <3>1, <3>2, ScreenUndisturbed
  <2>3. CASE c = write[w].by /\ write[w].wish.op \in {"create", "select"}
    <3>1. c \in behind' /\ fetch' = fetch /\ inbox' = inbox /\ db' = db
      BY <1>5, <2>1, <2>3 DEF Answered
    <3>2. QED BY <1>0, <3>1 DEF ListOK, ScreenOK
  <2>4. CASE c = write[w].by /\ write[w].wish.op \notin {"create", "select"}
    <3>1. Invalidate(c)
      BY <1>5, <2>4 DEF Answered
    <3>2. fetch'[c] = Asked
      BY <3>1, TypesGive DEF Invalidate
    <3>3. QED BY <3>2, ScreenAsked
  <2>5. QED BY <2>2, <2>3, <2>4
<1>6. ASSUME NEW w \in Writes, Failed(w), NEW c \in Client
      PROVE  Good(c)
  <2>1. Close(w) /\ write[w].by \in Client /\ UNCHANGED <<db, born, behind, socketVars, asked>>
    BY <1>4, <1>6 DEF Failed, Close
  <2>2. CASE Guessing(write[w], c)
    <3>1. Invalidate(c)
      BY <1>6, <2>2 DEF Failed, Guessing
    <3>2. fetch'[c] = Asked
      BY <3>1, TypesGive DEF Invalidate
    <3>3. QED BY <3>2, ScreenAsked
  <2>3. CASE ~ Guessing(write[w], c)
    <3>1. Same(c)
      <4>1. c # write[w].by \/ write[w].wish.op \notin Optimistic
        BY <2>1, <2>3 DEF Guessing, Close
      <4>2. QED BY <1>6, <2>1, <4>1, TypesGive DEF Failed, Invalidate
    <3>2. OwnGuess(c) => OwnGuess(c)'
      BY <1>3, <2>1, <2>3
    <3>3. QED BY <1>0, <2>1, <3>1, <3>2, ScreenUndisturbed
  <2>4. QED BY <2>2, <2>3
<1>7. ASSUME NEW wish \in Wish, AskElsewhere(wish), NEW c \in Client
      PROVE  Good(c)
  <2>1. Send(wish, Elsewhere, Shown(NoRows)) /\ UNCHANGED <<db, born, clientVars, socketVars>>
    BY <1>7 DEF AskElsewhere
  <2>2. OwnGuess(c) => OwnGuess(c)'
    BY <2>1, SendGuesses, AskedTypes
  <2>3. QED BY <1>0, <2>1, <2>2, ScreenUndisturbed
<1>8. ASSUME NEW d \in Client, NEW wish \in Wish, Ask(d, wish), NEW c \in Client
      PROVE  Good(c)
  <2>1. UNCHANGED <<db, born, behind, socketVars>>
    BY <1>8 DEF Ask
  <2>2. CASE wish.op \in Optimistic
    <3>1. /\ Send(wish, d, cache[d])
          /\ cache' = [cache EXCEPT ![d] = Guess(d, wish)]
          /\ fetch' = [fetch EXCEPT ![d] = NoFetch]
      BY <1>8, <2>2 DEF Ask
    <3>2. CASE c # d
      <4>1. Same(c)
        BY <3>1, <3>2, TypesGive
      <4>2. OwnGuess(c) => OwnGuess(c)'
        BY <3>1, SendGuesses, TypesGive
      <4>3. QED BY <1>0, <2>1, <4>1, <4>2, ScreenUndisturbed
    <3>3. CASE c = d
      <4> DEFINE x == [wish |-> wish, by |-> c, open |-> c \in Client, server |-> "sent",
                       before |-> cache[c], reply |-> NoRows]
      <4>1. Len(write') = Len(write) + 1 /\ write'[Len(write')] = x /\ Len(write) \in Nat
        BY <3>1, <3>3, SendTypes, TypesGive
      <4>2. Guessing(x, c)
        BY <2>2 DEF Guessing
      <4>3. OwnGuess(c)'
        BY <4>1, <4>2 DEF OwnGuess, Guessing, Writes
      <4>4. fetch'[c].at = "none"
        BY <3>1, <3>3, TypesGive DEF NoFetch
      <4>5. QED BY <4>3, <4>4 DEF ListOK, ScreenOK
    <3>4. QED BY <3>2, <3>3
  <2>3. CASE wish.op \notin Optimistic
    <3>1. Send(wish, d, Shown(NoRows)) /\ UNCHANGED <<cache, fetch>>
      BY <1>8, <2>3 DEF Ask
    <3>2. OwnGuess(c) => OwnGuess(c)'
      BY <3>1, SendGuesses, AskedTypes
    <3>3. QED BY <1>0, <2>1, <3>1, <3>2, ScreenUndisturbed
  <2>4. QED BY <2>2, <2>3
<1>9. ASSUME NEW d \in Client, ServeList(d) \/ ListArrives(d) \/ ListFails(d) \/ Poll(d),
             NEW c \in Client
      PROVE  Good(c)
  <2>1. UNCHANGED <<db, born, socketVars, writeVars>>
    BY <1>9 DEF ServeList, ListArrives, ListFails, Poll
  <2>2. OwnGuess(c) => OwnGuess(c)'
    BY <2>1, GuessesKept
  <2>3. CASE c # d
    <3>1. Same(c) /\ (c \in behind => c \in behind')
      BY <1>9, <2>3, TypesGive DEF ServeList, ListArrives, ListFails, Poll
    <3>2. QED BY <1>0, <2>1, <2>2, <3>1, ScreenUndisturbed
  <2>4. CASE c = d /\ ServeList(d)
    <3>1. fetch'[c] = [at |-> "served", rows |-> db, clean |-> TRUE] /\ db' = db
      BY <2>4, TypesGive DEF ServeList
    <3>2. QED BY <3>1 DEF ListOK, ScreenOK
  <2>5. CASE c = d /\ ListArrives(d)
    <3>1. /\ fetch[c].at = "served"
          /\ cache'[c] = Shown(fetch[c].rows)
          /\ fetch'[c].at = "none"
          /\ behind' = IF fetch[c].clean THEN behind \ {c} ELSE behind
          /\ db' = db /\ inbox' = inbox
      BY <2>5, TypesGive DEF ListArrives, NoFetch
    <3>2. (IF fetch[c].clean THEN fetch[c].rows = db \/ inbox[c] > 0 ELSE c \in behind)
      BY <1>0, <3>1 DEF ListOK
    <3>3. c \in behind' \/ cache'[c] = Shown(db') \/ inbox'[c] > 0
      BY <3>1, <3>2
    <3>4. QED BY <3>1, <3>3 DEF ListOK, ScreenOK, Shown
  <2>6. CASE c = d /\ ListFails(d)
    <3>1. c \in behind' /\ fetch'[c].at = "none"
      BY <2>6, TypesGive DEF ListFails, NoFetch
    <3>2. QED BY <3>1 DEF ListOK, ScreenOK
  <2>7. CASE c = d /\ Poll(d)
    <3>1. fetch'[c] = Asked
      BY <2>7, TypesGive DEF Poll
    <3>2. QED BY <3>1, ScreenAsked
  <2>8. QED BY <1>9, <2>3, <2>4, <2>5, <2>6, <2>7
<1>10. ASSUME NEW d \in Client, PushArrives(d) \/ Disconnect(d) \/ Reconnect(d), NEW c \in Client
       PROVE  Good(c)
  <2>1. UNCHANGED <<db, born, cache, writeVars>>
    BY <1>10 DEF PushArrives, Disconnect, Reconnect
  <2>2. OwnGuess(c) => OwnGuess(c)'
    BY <2>1, GuessesKept
  <2>3. CASE c # d
    <3>1. Same(c) /\ inbox'[c] = inbox[c] /\ (c \in behind => c \in behind')
      BY <1>10, <2>3, TypesGive DEF PushArrives, Disconnect, Reconnect, Invalidate
    <3>2. QED BY <1>0, <2>1, <2>2, <3>1, ScreenUndisturbed
  <2>4. CASE c = d /\ PushArrives(d)
    <3>1. fetch'[c] = Asked
      BY <2>4, TypesGive DEF PushArrives, Invalidate
    <3>2. QED BY <3>1, ScreenAsked
  <2>5. CASE c = d /\ Disconnect(d) /\ inbox[c] > 0
    <3>1. c \in behind' /\ fetch'[c].clean = FALSE
      BY <2>5, TypesGive DEF Disconnect, Fetch
    <3>2. QED BY <3>1 DEF ListOK, ScreenOK
  <2>6. CASE c = d /\ Disconnect(d) /\ ~ (inbox[c] > 0)
    <3>1. Same(c) /\ inbox'[c] = inbox[c] /\ behind' = behind
      BY <2>1, <2>6, TypesGive DEF Disconnect
    <3>2. QED BY <1>0, <2>1, <2>2, <3>1, ScreenUndisturbed
  <2>7. CASE c = d /\ Reconnect(d)
    <3>1. Same(c) /\ inbox' = inbox /\ behind' = behind
      BY <2>7 DEF Reconnect
    <3>2. QED BY <1>0, <2>1, <2>2, <3>1, ScreenUndisturbed
  <2>8. QED BY <1>10, <2>3, <2>4, <2>5, <2>6, <2>7
<1>11. ASSUME UNCHANGED vars, NEW c \in Client
       PROVE  Good(c)
  <2>1. OwnGuess(c) => OwnGuess(c)'
    BY <1>11, GuessesKept DEF vars
  <2>2. QED BY <1>0, <1>11, <2>1, ScreenUndisturbed DEF vars
<1>12. \A c \in Client : Good(c)
  BY <1>1, <1>2, <1>5, <1>6, <1>7, <1>8, <1>9, <1>10, <1>11 DEF Next
<1>13. QED BY <1>12 DEF ScreensOK

\* A screen that is quiet and missed nothing is the table, however its writes and those of the
\* others crossed and failed: what is not yet right is waiting for a push, a fetch or an answer.
THEOREM QuietScreenIsRightAlways == Spec => []QuietScreenIsRight
<1>1. LiveTypes /\ ScreensOK /\ [Next]_vars => (LiveTypes /\ ScreensOK)'
  BY TypeStep, ScreensStep
<1>2. LiveTypes /\ ScreensOK => QuietScreenIsRight
  <2>1. ASSUME LiveTypes, ScreensOK, NEW c \in Client, Quiet(c), c \notin behind
        PROVE  cache[c] = Shown(db)
    <3>1. ~ OwnGuess(c)
      BY <2>1 DEF OwnGuess, Guessing, Quiet
    <3>2. QED BY <2>1, <3>1 DEF ScreensOK, ScreenOK, Quiet
  <2>2. QED BY <2>1 DEF QuietScreenIsRight
<1>3. QED BY LiveInit, ScreensInit, <1>1, <1>2, PTL DEF Spec
=============================================================================
