------------------------------- MODULE Booking -------------------------------
(***************************************************************************)
(* Selling stays: createBooking and cancelBooking of src/server/booking.ts *)
(* over src/lib/booking/availability.ts, the host's moves of               *)
(* src/app/api/host/bookings/[id]/route.ts, the host's blocks of           *)
(* src/app/api/availability, and the payment webhook's confirmation.       *)
(*                                                                         *)
(* A Booking row is named by its idempotency key, which is unique in the   *)
(* table and chosen by the client; rows are never deleted.  Time is a      *)
(* line of instants, and a stay takes the half-open interval from .. to.   *)
(*                                                                         *)
(* The booking transaction is Serializable: it reads one snapshot, and it  *)
(* cannot commit if another Serializable transaction that committed since  *)
(* conflicts with it both ways (Postgres breaks the cycle of               *)
(* read-dependencies).  Everything else runs under Read Committed.         *)
(***************************************************************************)
EXTENDS Integers, FiniteSets, FiniteSetsExt

CONSTANTS
    Key,         \* idempotency keys
    Guest,
    Property,
    Listing,     \* a listing sold whole is one unit
    RoomType,    \* a room type of a listing has TotalRooms of them
    PropertyOf,  \* [Listing -> Property]
    ListingOf,   \* [RoomType -> Listing]
    TotalRooms,  \* [RoomType -> Nat]
    Request,     \* the booking requests guests may send, and send again
    Block,       \* the blocks a host may create
    Caller,      \* requests in progress at once
    Desk,        \* cancellations and host's moves in progress at once
    NoRequest,
    NoKey

Unit == Listing \cup RoomType

ASSUME ConstantsAssumption ==
    /\ Listing \cap RoomType = {}
    /\ PropertyOf \in [Listing -> Property]
    /\ ListingOf \in [RoomType -> Listing]
    /\ TotalRooms \in [RoomType -> Nat]
    /\ Request \subseteq [key : Key, guest : Guest, unit : Unit,
                          from : Nat, to : Nat, rooms : Nat \ {0}]
    /\ Block \subseteq [place : Property \cup Unit, from : Nat, to : Nat]
    /\ \A x \in Request \cup Block : x.from < x.to   \* isValidRange; a block's own check
    /\ NoRequest \notin Request /\ NoKey \notin Key

VARIABLES
    row,        \* the request a Booking row was made from; NoRequest where there is no row
    status,     \* Booking.status
    cancelledAt,\* the rows where Booking.cancelledAt is set
    blocks,     \* the AvailabilityBlock rows
    attempt,    \* each createBooking: where it is, or how it was answered
    desk        \* each status change: the row it has read and what it will write

vars == <<row, status, cancelledAt, blocks, attempt, desk>>

-----------------------------------------------------------------------------
HOLDS_INVENTORY == {"PENDING", "CONFIRMED", "CHECKED_IN", "COMPLETED"}
Status == HOLDS_INVENTORY \cup {"CANCELLED"}
Answer == {"created", "reused", "conflict"}
Attempt == [pc : {"idle", "priced", "booking"} \cup Answer,
            request : Request \cup {NoRequest},
            known : SUBSET Key]
DeskState == [key : Key \cup {NoKey}, to : Status]
IdleDesk == [key |-> NoKey, to |-> "CANCELLED"]

\* What the host may do (TRANSITIONS), the guest's own cancellation included.
Move == { [from |-> {"PENDING"},              to |-> "CONFIRMED"],
          [from |-> {"CONFIRMED"},            to |-> "CHECKED_IN"],
          [from |-> {"CHECKED_IN"},           to |-> "COMPLETED"],
          [from |-> {"PENDING", "CONFIRMED"}, to |-> "CANCELLED"] }

TypeOK ==
    /\ row \in [Key -> Request \cup {NoRequest}]
    /\ \A k \in Key : row[k] # NoRequest => row[k].key = k
    /\ status \in [Key -> Status]
    /\ cancelledAt \subseteq Key
    /\ blocks \subseteq Block
    /\ attempt \in [Caller -> Attempt]
    /\ desk \in [Desk -> DeskState]

Init ==
    /\ row = [k \in Key |-> NoRequest]
    /\ status = [k \in Key |-> "PENDING"]
    /\ cancelledAt = {}
    /\ blocks = {}
    /\ attempt = [c \in Caller |-> [pc |-> "idle", request |-> NoRequest, known |-> {}]]
    /\ desk = [h \in Desk |-> IdleDesk]

-----------------------------------------------------------------------------
(* availability.ts *)

listingOf(u) == IF u \in RoomType THEN ListingOf[u] ELSE u
totalRooms(u) == IF u \in RoomType THEN TotalRooms[u] ELSE 1

\* Back-to-back stays do not overlap.
Overlaps(a, b) == a.from < b.to /\ b.from < a.to

Rows == {k \in Key : row[k] # NoRequest}

\* The where of occupancyFor: a room type counts its own bookings, a whole listing
\* counts all of the listing's.
Counts(q, p) ==
    /\ listingOf(q.unit) = listingOf(p.unit)
    /\ q.unit \in RoomType => q.unit = p.unit

\* The bookings that hold inventory over the dates of request q.
Existing(q) == {k \in Rows : /\ status[k] \in HOLDS_INVENTORY
                             /\ Counts(q, row[k])
                             /\ Overlaps(row[k], q)}

rooms == [k \in Rows |-> row[k].rooms]
RoomsAt(taken, t) ==
    SumFunctionOnSet(rooms, {k \in taken : row[k].from <= t /\ t < row[k].to})

\* Faulty variant: the first night of the range is not among the measured ones.
PeakWhereStaysBegin(taken, q) ==
    LET boundaries == {row[k].from : k \in taken} \cap (q.from + 1 .. q.to - 1)
    IN  Max({RoomsAt(taken, t) : t \in boundaries} \cup {0})

\* Occupancy only changes when a stay begins: those instants are measured, and the
\* first of the range itself.
peakOccupancy(taken, q) ==
    LET boundaries == {q.from} \cup ({row[k].from : k \in taken} \cap (q.from + 1 .. q.to - 1))
    IN  Max({RoomsAt(taken, t) : t \in boundaries})

\* The blocks that occupancyFor reads are those of the listing and of the room type.
BlocksFor(q) == {x \in blocks : x.place \in {q.unit, listingOf(q.unit)}}

checkAvailability(q) ==
    /\ \A x \in BlocksFor(q) : ~ Overlaps(x, q)
    /\ q.rooms <= totalRooms(q.unit) - peakOccupancy(Existing(q), q)

-----------------------------------------------------------------------------
(* createBooking *)

Answers(c, a) == attempt' = [attempt EXCEPT ![c].pc = a, ![c].known = {}]
InProgress(c) == attempt[c].pc \in {"priced", "booking"}

\* The advisory check.  A listing that is not published, a party that does not fit or
\* services of another host end the request here with nothing changed: no step.
priceAndCheck(c) == \E q \in Request :
    /\ ~ InProgress(c)
    /\ attempt' = [attempt EXCEPT ![c] =
          [pc |-> IF checkAvailability(q) THEN "priced" ELSE "conflict",
           request |-> q, known |-> {}]]
    /\ UNCHANGED <<row, status, cancelledAt, blocks, desk>>

\* The transaction reads its snapshot and checks again.
BeginBooking(c) ==
    /\ attempt[c].pc = "priced"
    /\ IF checkAvailability(attempt[c].request)
       THEN attempt' = [attempt EXCEPT ![c].pc = "booking", ![c].known = Rows]
       ELSE Answers(c, "conflict")
    /\ UNCHANGED <<row, status, cancelledAt, blocks, desk>>

\* Faulty variant: the transaction runs at the default isolation level.
SerializableIsIgnored(c) == TRUE

\* No booking was committed since the snapshot that this one should have counted and
\* that should have counted this one.
Serializable(c) ==
    LET q == attempt[c].request IN
    \A k \in Rows \ attempt[c].known :
        ~ (Overlaps(row[k], q) /\ Counts(q, row[k]) /\ Counts(row[k], q))

CommitBooking(c) ==
    LET q == attempt[c].request IN
    /\ attempt[c].pc = "booking"
    /\ q.key \notin Rows
    /\ Serializable(c)
    /\ row' = [row EXCEPT ![q.key] = q]
    /\ Answers(c, "created")
    /\ UNCHANGED <<status, cancelledAt, blocks, desk>>

\* Faulty variant: the prior booking is returned to whoever sends its key.
KeyTakenByAnyone(c) ==
    /\ attempt[c].pc = "booking"
    /\ attempt[c].request.key \in Rows
    /\ Answers(c, "reused")
    /\ UNCHANGED <<row, status, cancelledAt, blocks, desk>>

\* P2002: the unique key caught a retry, and only its own guest gets the original back.
KeyTaken(c) ==
    LET q == attempt[c].request IN
    /\ attempt[c].pc = "booking"
    /\ q.key \in Rows
    /\ Answers(c, IF row[q.key].guest = q.guest THEN "reused" ELSE "conflict")
    /\ UNCHANGED <<row, status, cancelledAt, blocks, desk>>

\* P2034 and P2028: the losing side of a race, or a transaction that ran out of time.
AbortBooking(c) ==
    /\ attempt[c].pc = "booking"
    /\ Answers(c, "conflict")
    /\ UNCHANGED <<row, status, cancelledAt, blocks, desk>>

-----------------------------------------------------------------------------
(* What becomes of a booking: cancelBooking and the host's PATCH read the status in *)
(* one query and write it, by id, in another.                                       *)

ReadStatus(h, k) == \E m \in Move :
    /\ desk[h].key = NoKey
    /\ k \in Rows
    /\ status[k] \in m.from
    /\ desk' = [desk EXCEPT ![h] = [key |-> k, to |-> m.to]]
    /\ UNCHANGED <<row, status, cancelledAt, blocks, attempt>>

WriteStatus(h) ==
    LET k == desk[h].key IN
    /\ k # NoKey
    /\ status' = [status EXCEPT ![k] = desk[h].to]
    /\ cancelledAt' = IF desk[h].to = "CANCELLED" THEN cancelledAt \cup {k} ELSE cancelledAt
    /\ desk' = [desk EXCEPT ![h] = IdleDesk]
    /\ UNCHANGED <<row, blocks, attempt>>

\* Faulty variant: the update names the booking and not its status.
ConfirmWhateverItIs(k) ==
    /\ k \in Rows
    /\ status' = [status EXCEPT ![k] = "CONFIRMED"]
    /\ UNCHANGED <<row, cancelledAt, blocks, attempt, desk>>

\* The payment webhook: one conditional update.
ConfirmPaid(k) ==
    /\ k \in Rows
    /\ status[k] = "PENDING"
    /\ status' = [status EXCEPT ![k] = "CONFIRMED"]
    /\ UNCHANGED <<row, cancelledAt, blocks, attempt, desk>>

\* Bookings already taken over the dates of a block are not cancelled.
CreateBlock(x) ==
    /\ x \notin blocks
    /\ blocks' = blocks \cup {x}
    /\ UNCHANGED <<row, status, cancelledAt, attempt, desk>>

DeleteBlock(x) ==
    /\ x \in blocks
    /\ blocks' = blocks \ {x}
    /\ UNCHANGED <<row, status, cancelledAt, attempt, desk>>

-----------------------------------------------------------------------------
Next ==
    \/ \E c \in Caller : \/ priceAndCheck(c) \/ BeginBooking(c) \/ CommitBooking(c)
                         \/ KeyTaken(c) \/ AbortBooking(c)
    \/ \E h \in Desk : WriteStatus(h) \/ \E k \in Key : ReadStatus(h, k)
    \/ \E k \in Key : ConfirmPaid(k)
    \/ \E x \in Block : CreateBlock(x) \/ DeleteBlock(x)

Spec == Init /\ [][Next]_vars
-----------------------------------------------------------------------------
(* Properties. *)

\* Rooms of unit u that the bookings in S take at instant t.
Sold(S, u, t) == RoomsAt({k \in S : row[k].unit = u}, t)
Held == {k \in Rows : status[k] \in HOLDS_INVENTORY}
Revived == {k \in Held : k \in cancelledAt}
Instants == UNION {row[k].from .. row[k].to - 1 : k \in Rows}

\* No night is sold beyond the inventory, however many guests ask for the last room at
\* once and however cancellations fall between their reads: leaving aside bookings that
\* were cancelled and then revived by a host's stale write (createBooking).
SoldWithinInventory ==
    \A u \in Unit, t \in Instants : Sold(Held \ Revived, u, t) <= totalRooms(u)

\* Measuring occupancy where stays begin gives the busiest night there is
\* (peakOccupancy), for every request and whatever has been sold.
PeakIsTheBusiestNight ==
    \A q \in Request :
        peakOccupancy(Existing(q), q) = Max({RoomsAt({k \in Held : Counts(q, row[k])}, t)
                                               : t \in q.from .. q.to - 1})

\* A guest who is told that a booking was made has one of their own under the key of the
\* request: a key that another guest used first answers nothing about that booking
\* (createBooking and its handling of P2002).
AnsweredIsBooked ==
    \A c \in Caller : attempt[c].pc \in {"created", "reused"} =>
        LET q == attempt[c].request IN q.key \in Rows /\ row[q.key].guest = q.guest

\* "A booking cancelled in the meantime is not silently revived" by a late payment: only
\* a host's or guest's request that read the row before the cancellation can do that
\* (the webhook's conditional update).
PaymentNeverRevives ==
    [][ \A k \in Key : status[k] = "CANCELLED" /\ status'[k] # "CANCELLED" =>
            \E h \in Desk : desk[h].key = k /\ desk'[h].key = NoKey ]_vars

-----------------------------------------------------------------------------
(* Promises the code does not keep: booking_oversold.cfg, booking_retry.cfg and *)
(* booking_blocks.cfg refute them.                                              *)

\* "Two guests requesting the last room at the same moment": the inventory is never
\* exceeded, by any booking whatever.
NeverSoldTwice ==
    \A u \in Unit, t \in Instants : Sold(Held, u, t) <= totalRooms(u)

\* "The second attempt returns the first booking": a guest whose booking stands is never
\* told that the dates are gone when the request is sent again.
RetryGetsTheOriginal ==
    [][ \A c \in Caller :
          LET q == attempt'[c].request IN
          attempt'[c].pc = "conflict" /\ attempt'[c] # attempt[c] /\ q.key \in Held =>
              row[q.key] # q ]_vars

\* "A blocked date cannot be booked however much inventory is otherwise free": a block
\* on a property, a listing or a room type stops every sale of what is inside it.
Inside(q) == {q.unit, listingOf(q.unit), PropertyOf[listingOf(q.unit)]}
BlocksAreAbsolute ==
    [][ \A c \in Caller :
          attempt[c].pc = "priced" /\ attempt'[c].pc = "booking" =>
              ~ \E x \in blocks : x.place \in Inside(attempt[c].request)
                               /\ Overlaps(x, attempt[c].request) ]_vars
=============================================================================
