-------------------------------- MODULE Live --------------------------------
(***************************************************************************)
(* Records of one kind in the property management sub-application: the     *)
(* server's routes (apps/server routes/records), what they broadcast       *)
(* (lib/activity, realtime), and the screens of several browsers, each a   *)
(* cached list that is fetched, written to before the server answers, and  *)
(* marked stale by pushes (apps/web api/records, api/live, main).          *)
(*                                                                         *)
(* A record is its id and one boolean field, the one a kind selects by.    *)
(* Every screen has loaded once.  A handler of the server runs without an  *)
(* await, so it is one action; a crash of the server inside one looks, to  *)
(* the browsers, like a disconnection of all and an answer that is lost,   *)
(* except that select can be cut between two rows, which is left out.      *)
(* The query cache is TanStack Query's: an invalidation cancels the fetch  *)
(* in flight and starts another.  HTTP exchanges and the socket are        *)
(* separate connections, ordered only where one waits for the other.       *)
(***************************************************************************)
EXTENDS Integers, FiniteSets, Sequences, SequencesExt

CONSTANTS
    Row,          \* ids of records
    Client,       \* browsers whose list is followed; others write too
    MaxWrites,    \* writes that are explored
    MaxDrops      \* times a socket drops that are explored

ASSUME ConstantsAssumption ==
    /\ IsFiniteSet(Row)
    /\ IsFiniteSet(Client)
    /\ MaxWrites \in Nat
    /\ MaxDrops \in Nat

VARIABLES
    db,        \* the records table: the field of each row, or Absent
    born,      \* ids that were ever given to a record
    cache,     \* each browser: the rows shown, and those shown twice
    fetch,     \* each browser: the request for the list in flight
    connected, \* browsers whose socket is open
    inbox,     \* each browser: invalidations pushed and not yet delivered
    write,     \* the writes under way, in the order they were asked for
    asked,     \* how many were ever asked for
    drops,     \* how often a socket dropped
    behind     \* history: browsers whose list missed something, see Missed

clientVars == <<cache, fetch, behind>>
socketVars == <<connected, inbox, drops>>
writeVars == <<write, asked>>
vars == <<db, born, clientVars, socketVars, writeVars>>

-----------------------------------------------------------------------------
Absent == 0
Field == {1, 2}                        \* false, true
Rows == [Row -> {Absent} \cup Field]
Writes == 1 .. Len(write)

NoRows == [r \in Row |-> Absent]
Shown(rows) == [rows |-> rows, twice |-> {}]
NoFetch == [at |-> "none", rows |-> NoRows, clean |-> FALSE]
Asked == [NoFetch EXCEPT !.at = "asked"]

Optimistic == {"update", "remove"}
Elsewhere == "elsewhere"

\* What can be asked for: the id of a new record is the server's to give.
Wish ==
    [op : {"create", "import"}, row : {"new"}, field : Field]
        \cup [op : {"update"}, row : Row, field : Field]
        \cup [op : {"remove", "select"}, row : Row, field : {Absent}]

TypeOK ==
    /\ db \in Rows
    /\ born \subseteq Row
    /\ cache \in [Client -> [rows : Rows, twice : SUBSET Row]]
    /\ fetch \in [Client -> [at : {"none", "asked", "served"}, rows : Rows, clean : BOOLEAN]]
    /\ connected \subseteq Client
    /\ inbox \in [Client -> Nat]
    /\ \A w \in Writes :
           write[w] \in [wish : Wish, by : Client \cup {Elsewhere}, open : BOOLEAN,
                         server : {"sent", "done", "refused"},
                         before : [rows : Rows, twice : SUBSET Row], reply : Rows]
    /\ asked \in Nat
    /\ drops \in Nat
    /\ behind \subseteq Client

Init ==
    /\ db \in [Row -> {Absent, 1}]
    /\ born = {r \in Row : db[r] # Absent}
    /\ cache = [c \in Client |-> Shown(db)]
    /\ fetch = [c \in Client |-> NoFetch]
    /\ connected = Client
    /\ inbox = [c \in Client |-> 0]
    /\ write = <<>>
    /\ asked = 0
    /\ drops = 0
    /\ behind = {}

-----------------------------------------------------------------------------
(* The server. *)

\* What wish makes of the table; create and import give the ids in new.
After(wish, new) ==
    [r \in Row |->
        CASE wish.op \in {"create", "import"} -> IF r \in new THEN wish.field ELSE db[r]
          [] wish.op = "update" -> IF r = wish.row THEN wish.field ELSE db[r]
          [] wish.op = "remove" -> IF r = wish.row THEN Absent ELSE db[r]
          [] wish.op = "select" -> IF db[r] = Absent THEN Absent ELSE IF r = wish.row THEN 2 ELSE 1]

\* What the server answers, as far as the browser uses it.
Reply(wish, new) ==
    CASE wish.op = "create" -> [r \in Row |-> IF r \in new THEN wish.field ELSE Absent]
      [] wish.op = "select" -> After(wish, new)
      [] OTHER -> NoRows

\* record: those whose socket is open are sent an invalidation, the writer too.
Broadcast(told) ==
    /\ inbox' = [c \in Client |-> inbox[c] + (IF c \in told THEN 1 ELSE 0)]
    /\ behind' = behind \cup (Client \ told)
    /\ fetch' = [c \in Client |-> IF c \in told THEN fetch[c] ELSE [fetch[c] EXCEPT !.clean = FALSE]]

\* The row must exist, and an id is never given twice.
CanServe(wish, new) ==
    /\ new \subseteq Row \ born
    /\ CASE wish.op = "create" -> Cardinality(new) = 1
         [] wish.op = "import" -> new # {}
         [] OTHER -> new = {} /\ db[wish.row] # Absent

\* A write is over when both sides are through with it.
Step(w, next) ==
    write' = IF next.open \/ next.server = "sent" THEN [write EXCEPT ![w] = next]
             ELSE RemoveAt(write, w)

ServeWrite(w, new) ==
    LET wish == write[w].wish IN
    /\ write[w].server = "sent"
    /\ CanServe(wish, new)
    /\ db' = After(wish, new)
    /\ born' = born \cup new
    /\ Step(w, [write[w] EXCEPT !.server = "done", !.reply = Reply(wish, new)])
    /\ Broadcast(connected)
    /\ UNCHANGED <<cache, connected, drops, asked>>

\* The rows are written, and the row of the activity is not, or not all of an import's rows
\* are: nobody is told, and the answer is an error.
ServeWriteUntold(w, new) ==
    LET wish == write[w].wish IN
    /\ write[w].server = "sent"
    /\ CanServe(wish, new)
    /\ db' = After(wish, new)
    /\ born' = born \cup new
    /\ Step(w, [write[w] EXCEPT !.server = "refused"])
    /\ Broadcast({})
    /\ UNCHANGED <<cache, connected, drops, asked>>

\* 404, a 400 from validation, or a request that never arrives.
RefuseWrite(w) ==
    /\ write[w].server = "sent"
    /\ Step(w, [write[w] EXCEPT !.server = "refused"])
    /\ UNCHANGED <<db, born, clientVars, socketVars, asked>>

ServeList(c) ==
    /\ fetch[c].at = "asked"
    /\ fetch' = [fetch EXCEPT ![c] = [at |-> "served", rows |-> db, clean |-> TRUE]]
    /\ UNCHANGED <<db, born, cache, behind, socketVars, writeVars>>

-----------------------------------------------------------------------------
(* The list of a browser. *)

\* invalidateQueries: what is in flight is cancelled, and the list is asked for again.
Invalidate(c) == fetch' = [fetch EXCEPT ![c] = Asked]

\* The answer to a fetch is the list, whatever was shown.
ListArrives(c) ==
    /\ fetch[c].at = "served"
    /\ cache' = [cache EXCEPT ![c] = Shown(fetch[c].rows)]
    /\ behind' = IF fetch[c].clean THEN behind \ {c} ELSE behind
    /\ fetch' = [fetch EXCEPT ![c] = NoFetch]
    /\ UNCHANGED <<db, born, socketVars, writeVars>>

\* The request and its one retry have failed: what was shown stays.
ListFails(c) ==
    /\ fetch[c].at # "none"
    /\ fetch' = [fetch EXCEPT ![c] = NoFetch]
    /\ behind' = behind \cup {c}
    /\ UNCHANGED <<db, born, cache, socketVars, writeVars>>

\* Faulty variant: no refetch interval.
PollNever(c) == FALSE /\ fetch[c].at = "none" /\ UNCHANGED vars

\* refetchInterval, or the window that is looked at again.
Poll(c) ==
    /\ fetch[c].at = "none"
    /\ fetch' = [fetch EXCEPT ![c] = Asked]
    /\ UNCHANGED <<db, born, cache, behind, socketVars, writeVars>>

-----------------------------------------------------------------------------
(* The writes of a browser. *)

\* useUpdateRecord and useDeleteRecord show the change at once, and remember what was shown.
Guess(c, wish) ==
    IF wish.op = "update"
    THEN [cache[c] EXCEPT !.rows = [@ EXCEPT ![wish.row] = wish.field]]
    ELSE [rows |-> [cache[c].rows EXCEPT ![wish.row] = Absent], twice |-> cache[c].twice \ {wish.row}]

Send(wish, by, before) ==
    /\ asked < MaxWrites
    /\ asked' = asked + 1
    /\ write' = Append(write, [wish |-> wish, by |-> by, open |-> by \in Client, server |-> "sent",
                               before |-> before, reply |-> NoRows])

\* Of a row that is shown, or for a new one.
Ask(c, wish) ==
    /\ wish.row \in Row => cache[c].rows[wish.row] # Absent
    /\ Send(wish, c, IF wish.op \in Optimistic THEN cache[c] ELSE Shown(NoRows))
    /\ IF wish.op \in Optimistic
       THEN /\ cache' = [cache EXCEPT ![c] = Guess(c, wish)]
            /\ fetch' = [fetch EXCEPT ![c] = NoFetch]
       ELSE UNCHANGED <<cache, fetch>>
    /\ UNCHANGED <<db, born, behind, socketVars>>

\* A browser whose list is not followed: it may show any row, and what it is told is its own.
AskElsewhere(wish) ==
    /\ Send(wish, Elsewhere, Shown(NoRows))
    /\ UNCHANGED <<db, born, clientVars, socketVars>>

Close(w) ==
    /\ write[w].open
    /\ Step(w, [write[w] EXCEPT !.open = FALSE, !.before = Shown(NoRows), !.reply = NoRows])

\* The mutation ends well: onSuccess of create, select and import, onSettled of the others.
\* What create appends, or select puts in place, may be older than what is shown.
Answered(w) ==
    LET c == write[w].by
        reply == write[w].reply
        new == {r \in Row : reply[r] # Absent}
        shown == {r \in Row : cache[c].rows[r] # Absent}
    IN
    /\ write[w].server = "done"
    /\ Close(w)
    /\ CASE write[w].wish.op = "create" ->
              /\ cache' = [cache EXCEPT ![c].rows = [r \in Row |-> IF r \in new THEN reply[r] ELSE @[r]],
                                        ![c].twice = @ \cup (new \cap shown)]
              /\ behind' = behind \cup {c}
              /\ UNCHANGED fetch
         [] write[w].wish.op = "select" ->
              /\ cache' = [cache EXCEPT ![c] = Shown(reply)]
              /\ behind' = behind \cup {c}
              /\ UNCHANGED fetch
         [] OTHER ->
              /\ Invalidate(c)
              /\ UNCHANGED <<cache, behind>>
    /\ UNCHANGED <<db, born, socketVars, asked>>

\* Faulty variant: the rollback is trusted, and nothing is fetched.
FailedTrusting(w) ==
    LET c == write[w].by IN
    /\ Close(w)
    /\ IF write[w].wish.op \in Optimistic
       THEN cache' = [cache EXCEPT ![c] = write[w].before]
       ELSE UNCHANGED cache
    /\ UNCHANGED <<db, born, fetch, behind, socketVars, asked>>

\* The browser sees an error: a refusal, an answer that is lost, or a connection that breaks,
\* perhaps before the server has served the write.  onError puts back what was shown when the
\* write was asked for, and onSettled fetches the list.
Failed(w) ==
    LET c == write[w].by IN
    /\ Close(w)
    /\ IF write[w].wish.op \in Optimistic
       THEN /\ cache' = [cache EXCEPT ![c] = write[w].before]
            /\ Invalidate(c)
       ELSE UNCHANGED <<cache, fetch>>
    /\ UNCHANGED <<db, born, behind, socketVars, asked>>

-----------------------------------------------------------------------------
(* The socket of a browser. *)

\* onmessage.
PushArrives(c) ==
    /\ inbox[c] > 0
    /\ inbox' = [inbox EXCEPT ![c] = @ - 1]
    /\ Invalidate(c)
    /\ UNCHANGED <<db, born, cache, behind, connected, drops, writeVars>>

\* onclose: what was pushed and not delivered is lost.
Disconnect(c) ==
    /\ c \in connected
    /\ drops < MaxDrops
    /\ drops' = drops + 1
    /\ connected' = connected \ {c}
    /\ inbox' = [inbox EXCEPT ![c] = 0]
    /\ IF inbox[c] > 0
       THEN /\ behind' = behind \cup {c}
            /\ fetch' = [fetch EXCEPT ![c].clean = FALSE]
       ELSE UNCHANGED <<behind, fetch>>
    /\ UNCHANGED <<db, born, cache, writeVars>>

\* onopen: the status is shown, and nothing is invalidated.
Reconnect(c) ==
    /\ c \notin connected
    /\ connected' = connected \cup {c}
    /\ UNCHANGED <<db, born, clientVars, inbox, drops, writeVars>>

-----------------------------------------------------------------------------
Next ==
    \/ \E w \in Writes :
        \/ \E new \in SUBSET Row : ServeWrite(w, new) \/ ServeWriteUntold(w, new)
        \/ RefuseWrite(w) \/ Answered(w) \/ Failed(w)
    \/ \E wish \in Wish : AskElsewhere(wish)
    \/ \E c \in Client :
        \/ \E wish \in Wish : Ask(c, wish)
        \/ ServeList(c) \/ ListArrives(c) \/ ListFails(c) \/ Poll(c)
        \/ PushArrives(c) \/ Disconnect(c) \/ Reconnect(c)

Spec == Init /\ [][Next]_vars

\* A screen that is looked at polls, and its requests do not fail for ever, before or after
\* the server.  Nothing is assumed of the socket, or of the writes.
LiveSpec ==
    /\ Spec
    /\ \A c \in Client :
           /\ WF_vars(Poll(c))
           /\ SF_vars(ServeList(c))
           /\ SF_vars(ListArrives(c))

-----------------------------------------------------------------------------
(* Properties. *)

Quiet(c) ==
    /\ inbox[c] = 0
    /\ fetch[c].at = "none"
    /\ \A w \in Writes : write[w].by = c => ~ write[w].open

\* QuietScreenIsRight: once a browser's own writes have ended and its pushes and fetches have
\* been dealt with, its list is the table's, each row once, however its writes and those of
\* the others crossed and failed.  Not so if it missed something since the last fetch: a push
\* while its socket was down, a fetch that failed, a write whose activity could not be
\* recorded, or the answer of a create or a select laid over a newer list.
\* (lib/activity: "no route can record a change without also publishing it"; api/records: "a change made in one tab invalidates the same key in every other tab")
QuietScreenIsRight == \A c \in Client : Quiet(c) /\ c \notin behind => cache[c] = Shown(db)

\* ScreensCatchUp: every list ends up being the table's, whatever was lost on the way, without
\* help from the socket.  (main: "a 60-second background refetch acts as a safety net if the
\* socket ever drops")
ScreensCatchUp == <>[](\A c \in Client : cache[c] = Shown(db))
=============================================================================
