------------------------------ MODULE External ------------------------------
(***************************************************************************)
(* Third-party listings: one source, the licence recorded for it, what is  *)
(* stored of its listings and what of that the public feed shows           *)
(* (src/server/external.ts, src/lib/external/licence.ts, the routes of     *)
(* src/app/api/external and src/app/api/public/external).                  *)
(*                                                                         *)
(* A sync reads the licence once and then writes row by row for minutes; a *)
(* change of the licence reads the source, writes it, and goes over every  *)
(* row; a takedown is a single update.  Any number of them overlap, and no *)
(* transaction holds them together.  One action is what a handler does     *)
(* between two awaits that others can get between.                         *)
(*                                                                         *)
(* A listing is its external id, and the country it is in does not change. *)
(* What else a record says, photographs and contacts with their own rights *)
(* included, is left out; a record that normalises to nothing is skipped,  *)
(* and is not a listing.  A page holds one record.                         *)
(***************************************************************************)
EXTENDS Naturals, FiniteSets

CONSTANTS
    Listing,    \* external ids of the source
    Country,
    CountryOf,  \* [Listing -> Country]
    Patch,      \* the changes of the licence that are asked for: the fields given, with values
    Sync,       \* syncs that can overlap
    Editor,     \* changes of the licence that can overlap
    MaxItems,   \* the ceiling of a sync
    MaxBusy,    \* bound: syncs and changes of the licence under way at once
    LastDay,    \* the days that are looked at; a licence without an end outlives them
    NoListing

Licence == [active : BOOLEAN,
            status : {"NONE", "RESEARCH_ONLY", "LICENSED"},
            displayRights : BOOLEAN,
            reference : BOOLEAN,   \* licenceRef is not empty
            territories : SUBSET Country,
            expiry : 0 .. LastDay + 1]

ASSUME ConstantsAssumption ==
    /\ CountryOf \in [Listing -> Country]
    /\ \A p \in Patch, f \in Licence : [k \in DOMAIN f |-> IF k \in DOMAIN p THEN p[k] ELSE f[k]] \in Licence
    /\ MaxItems \in Nat \ {0}
    /\ MaxBusy \in Nat
    /\ LastDay \in Nat
    /\ NoListing \notin Listing
    /\ Sync \cap Editor = {}

VARIABLES
    today,
    feed,         \* what the source lists
    licence,      \* ExternalSource
    stored,       \* the rows of ExternalListing ...
    displayable,  \* ... those whose displayable is set
    suppressed,   \* ... those taken down
    gone,         \* ... those with a goneAt
    sync,         \* each syncSource: where it is and what it holds
    editor,       \* each PATCH of the source
    alone         \* history: handlers beside which, since they read the licence, no other
                  \* has written and neither licence nor feed has changed

rows == <<stored, displayable, suppressed, gone>>
vars == <<today, feed, licence, stored, displayable, suppressed, gone, sync, editor, alone>>

-----------------------------------------------------------------------------
(* The gate. *)

\* A source as it is registered.
Unlicensed == [active |-> TRUE, status |-> "NONE", displayRights |-> FALSE, reference |-> FALSE,
               territories |-> {}, expiry |-> LastDay + 1]

\* Verdict.displayable.
evaluateLicence(lic, l, down) ==
    /\ ~ down
    /\ lic.active
    /\ lic.status = "LICENSED"
    /\ lic.displayRights
    /\ lic.expiry > today
    /\ lic.territories = {} \/ CountryOf[l] \in lic.territories

\* What the public feed answers with: the query, then the gate once more.
Shown == {l \in (displayable \ gone) \ suppressed : evaluateLicence(licence, l, FALSE)}

-----------------------------------------------------------------------------
IdleSync == [pc |-> "idle", licence |-> Unlicensed, seen |-> {}, skipped |-> 0,
             item |-> NoListing, known |-> FALSE, verdict |-> FALSE]
IdleEditor == [pc |-> "idle", patch |-> <<>>, licence |-> Unlicensed, flagged |-> {},
               down |-> {}, left |-> {}]

TypeOK ==
    /\ today \in 0 .. LastDay
    /\ feed \subseteq Listing
    /\ licence \in Licence
    /\ stored \subseteq Listing
    /\ displayable \subseteq stored /\ suppressed \subseteq stored /\ gone \subseteq stored
    /\ sync \in [Sync -> [pc : {"idle", "fetch", "write", "done"}, licence : Licence,
                          seen : SUBSET Listing, skipped : Nat,
                          item : Listing \cup {NoListing},
                          known : BOOLEAN, verdict : BOOLEAN]]
    /\ editor \in [Editor -> [pc : {"idle", "record", "sweep", "list", "rows"},
                              patch : Patch \cup {<<>>}, licence : Licence,
                              flagged : SUBSET Listing, down : SUBSET Listing,
                              left : SUBSET Listing]]
    /\ alone \subseteq Sync \cup Editor

Init ==
    /\ today = 0
    /\ feed \in SUBSET Listing
    /\ licence = Unlicensed
    /\ stored = {} /\ displayable = {} /\ suppressed = {} /\ gone = {}
    /\ sync = [s \in Sync |-> IdleSync]
    /\ editor = [e \in Editor |-> IdleEditor]
    /\ alone = {}

\* h has written: nobody else has been alone.
Disturbs(h) == alone' = alone \cap {h}

\* One more handler may start.
Room == Cardinality({s \in Sync : sync[s].pc # "idle"})
          + Cardinality({e \in Editor : editor[e].pc # "idle"}) < MaxBusy

-----------------------------------------------------------------------------
(* The world. *)

DayPasses ==
    /\ today < LastDay
    /\ today' = today + 1
    /\ UNCHANGED <<feed, licence, rows, sync, editor, alone>>

\* A listing comes to the source, or leaves it.
FeedChanges(l) ==
    /\ feed' = IF l \in feed THEN feed \ {l} ELSE feed \cup {l}
    /\ alone' = {}
    /\ UNCHANGED <<today, licence, rows, sync, editor>>

-----------------------------------------------------------------------------
(* syncSource. *)

StartSync(s) ==
    /\ sync[s].pc = "idle" /\ Room
    /\ sync' = [sync EXCEPT ![s] = [IdleSync EXCEPT !.pc = "fetch", !.licence = licence]]
    /\ alone' = alone \cup {s}
    /\ UNCHANGED <<today, feed, licence, rows, editor>>

\* How many records the run has fetched, which is what its ceiling is about.
Taken(s) == Cardinality(sync[s].seen) + sync[s].skipped

\* The next record normalises to nothing.
Skip(s) ==
    /\ sync[s].pc = "fetch"
    /\ Taken(s) < MaxItems
    /\ sync' = [sync EXCEPT ![s].skipped = @ + 1]
    /\ UNCHANGED <<today, feed, licence, rows, editor, alone>>

\* The next record is fetched, the row it has is looked up, and the gate asked.
LookUp(s, l) ==
    /\ sync[s].pc = "fetch"
    /\ l \in feed \ sync[s].seen
    /\ Taken(s) < MaxItems
    /\ sync' = [sync EXCEPT ![s] = [@ EXCEPT !.pc = "write", !.item = l,
           !.known = (l \in stored),
           !.verdict = evaluateLicence(sync[s].licence, l, l \in suppressed)]]
    /\ UNCHANGED <<today, feed, licence, rows, editor, alone>>

Fetched(s) == [IdleSync EXCEPT !.pc = "fetch", !.licence = sync[s].licence,
                               !.seen = sync[s].seen \cup {sync[s].item},
                               !.skipped = sync[s].skipped]

\* Faulty variant: the whole row is written, with the takedown as it was when it was read.
WriteRowAsRead(s) ==
    LET l == sync[s].item IN
    /\ sync[s].pc = "write"
    /\ sync[s].known \/ l \notin stored
    /\ stored' = stored \cup {l}
    /\ displayable' = IF sync[s].verdict THEN displayable \cup {l} ELSE displayable \ {l}
    /\ suppressed' = IF sync[s].verdict THEN suppressed \ {l} ELSE suppressed
    /\ gone' = gone \ {l}
    /\ sync' = [sync EXCEPT ![s] = Fetched(s)]
    /\ Disturbs(s)
    /\ UNCHANGED <<today, feed, licence, editor>>

\* Faulty variant: a row that comes back stays marked as gone.
WriteRowStillGone(s) ==
    LET l == sync[s].item IN
    /\ sync[s].pc = "write"
    /\ sync[s].known \/ l \notin stored
    /\ stored' = stored \cup {l}
    /\ displayable' = IF sync[s].verdict THEN displayable \cup {l} ELSE displayable \ {l}
    /\ sync' = [sync EXCEPT ![s] = Fetched(s)]
    /\ Disturbs(s)
    /\ UNCHANGED <<today, feed, licence, suppressed, gone, editor>>

\* The row is updated, or created if there was none: what was taken down stays so.
WriteRow(s) ==
    LET l == sync[s].item IN
    /\ sync[s].pc = "write"
    /\ sync[s].known \/ l \notin stored
    /\ stored' = stored \cup {l}
    /\ displayable' = IF sync[s].verdict THEN displayable \cup {l} ELSE displayable \ {l}
    /\ gone' = gone \ {l}
    /\ sync' = [sync EXCEPT ![s] = Fetched(s)]
    /\ Disturbs(s)
    /\ UNCHANGED <<today, feed, licence, suppressed, editor>>

\* Another sync has created the row meanwhile: the create fails, and the run with it.
CreateFails(s) ==
    /\ sync[s].pc = "write"
    /\ ~ sync[s].known /\ sync[s].item \in stored
    /\ sync' = [sync EXCEPT ![s] = IdleSync]
    /\ UNCHANGED <<today, feed, licence, rows, editor, alone>>

NoMorePages(s) == feed \subseteq sync[s].seen \/ Taken(s) = MaxItems

\* What was not seen has been delisted, unless nothing was seen at all.
MarkGone(s) ==
    LET unseen == IF sync[s].seen = {} THEN {} ELSE (stored \ sync[s].seen) \ gone IN
    /\ sync[s].pc = "fetch"
    /\ NoMorePages(s)
    /\ gone' = gone \cup unseen
    /\ displayable' = displayable \ unseen
    /\ sync' = [sync EXCEPT ![s] = [IdleSync EXCEPT !.pc = "done", !.seen = sync[s].seen,
                                                        !.skipped = sync[s].skipped]]
    /\ Disturbs(s)
    /\ UNCHANGED <<today, feed, licence, stored, suppressed, editor>>

\* The run is recorded as finished.
FinishSync(s) ==
    /\ sync[s].pc = "done"
    /\ sync' = [sync EXCEPT ![s] = IdleSync]
    /\ UNCHANGED <<today, feed, licence, rows, editor, alone>>

\* The provider answers with an error, the route runs out of time, or the process dies.
SyncStops(s) ==
    /\ sync[s].pc \in {"fetch", "write"}
    /\ sync' = [sync EXCEPT ![s] = IdleSync]
    /\ UNCHANGED <<today, feed, licence, rows, editor, alone>>

-----------------------------------------------------------------------------
(* PATCH of the source, and reevaluateSource. *)

Patched(lic, p) == [k \in DOMAIN lic |-> IF k \in DOMAIN p THEN p[k] ELSE lic[k]]

\* "a claim has to be answerable with a document"
Backed(lic) == lic.displayRights => lic.status = "LICENSED" /\ lic.reference

ReadSource(e, p) ==
    /\ editor[e].pc = "idle" /\ Room
    /\ Backed(Patched(licence, p))
    /\ editor' = [editor EXCEPT ![e] = [IdleEditor EXCEPT !.pc = "record", !.patch = p]]
    /\ UNCHANGED <<today, feed, licence, rows, sync, alone>>

\* Only the fields that were given are written, to what the source has become.
RecordLicence(e) ==
    /\ editor[e].pc = "record"
    /\ licence' = Patched(licence, editor[e].patch)
    /\ editor' = [editor EXCEPT ![e] = [IdleEditor EXCEPT !.pc = "sweep"]]
    /\ alone' = {}
    /\ UNCHANGED <<today, feed, rows, sync>>

ReadLicence(e) ==
    /\ editor[e].pc = "sweep"
    /\ editor' = [editor EXCEPT ![e] = [@ EXCEPT !.pc = "list", !.licence = licence]]
    /\ alone' = alone \cup {e}
    /\ UNCHANGED <<today, feed, licence, rows, sync>>

ReadListings(e) ==
    /\ editor[e].pc = "list"
    /\ editor' = [editor EXCEPT ![e] = [@ EXCEPT !.pc = "rows", !.left = stored,
                                           !.flagged = displayable, !.down = suppressed]]
    /\ UNCHANGED <<today, feed, licence, rows, sync, alone>>

\* What is left to go over once l has been.
Judged(ed, l) == [ed EXCEPT !.left = @ \ {l}, !.flagged = @ \ {l}, !.down = @ \ {l}]

\* Faulty variant: only what has to come down is written.
ReevaluateDownOnly(e, l) ==
    LET verdict == evaluateLicence(editor[e].licence, l, l \in editor[e].down) IN
    /\ editor[e].pc = "rows"
    /\ l \in editor[e].left
    /\ displayable' = IF verdict THEN displayable ELSE displayable \ {l}
    /\ editor' = [editor EXCEPT ![e] = Judged(@, l)]
    /\ Disturbs(e)
    /\ UNCHANGED <<today, feed, licence, stored, suppressed, gone, sync>>

\* A row whose verdict differs from the flag it was read with is updated.
Reevaluate(e, l) ==
    LET verdict == evaluateLicence(editor[e].licence, l, l \in editor[e].down)
        changed == ~ (verdict <=> l \in editor[e].flagged)
    IN
    /\ editor[e].pc = "rows"
    /\ l \in editor[e].left
    /\ displayable' = IF ~ changed THEN displayable
                      ELSE IF verdict THEN displayable \cup {l} ELSE displayable \ {l}
    /\ editor' = [editor EXCEPT ![e] = Judged(@, l)]
    /\ IF changed THEN Disturbs(e) ELSE UNCHANGED alone
    /\ UNCHANGED <<today, feed, licence, stored, suppressed, gone, sync>>

Swept(e) == editor[e].pc = "rows" /\ editor[e].left = {}

FinishPatch(e) ==
    /\ Swept(e)
    /\ editor' = [editor EXCEPT ![e] = IdleEditor]
    /\ UNCHANGED <<today, feed, licence, rows, sync, alone>>

EditorDies(e) ==
    /\ editor[e].pc # "idle"
    /\ editor' = [editor EXCEPT ![e] = IdleEditor]
    /\ UNCHANGED <<today, feed, licence, rows, sync, alone>>

-----------------------------------------------------------------------------
\* suppressListing: a single update, whoever is in the middle of what.
Suppress(l) ==
    /\ l \in stored \ suppressed
    /\ suppressed' = suppressed \cup {l}
    /\ displayable' = displayable \ {l}
    /\ UNCHANGED <<today, feed, licence, stored, gone, sync, editor, alone>>

SyncStep(s) ==
    \/ StartSync(s)
    \/ Skip(s)
    \/ \E l \in Listing : LookUp(s, l)
    \/ WriteRow(s) \/ CreateFails(s)
    \/ MarkGone(s) \/ FinishSync(s) \/ SyncStops(s)

EditorStep(e) ==
    \/ \E p \in Patch : ReadSource(e, p)
    \/ RecordLicence(e) \/ ReadLicence(e) \/ ReadListings(e)
    \/ \E l \in Listing : Reevaluate(e, l)
    \/ FinishPatch(e) \/ EditorDies(e)

Next ==
    \/ DayPasses
    \/ \E l \in Listing : FeedChanges(l) \/ Suppress(l)
    \/ \E s \in Sync : SyncStep(s)
    \/ \E e \in Editor : EditorStep(e)

Spec == Init /\ [][Next]_vars

-----------------------------------------------------------------------------
(* Properties. *)

Publishable(L) == {l \in L \ suppressed : evaluateLicence(licence, l, FALSE)}

\* TakedownIsForGood: what a rights holder had taken down never comes back, through no
\* sync that had looked at the row before; and no row is deleted, which would let the next
\* sync make it anew.  ("Takedowns survive re-ingestion")
TakedownIsForGood ==
    [][stored \subseteq stored' /\ suppressed \subseteq suppressed'
          /\ suppressed' \cap Shown' = {}]_vars

\* SyncIsExact: a sync beside which no other handler wrote, and during which neither the
\* licence nor the source's listings changed, leaves on the public feed exactly what it saw
\* and the licence lets be shown; and it saw all there is, or went as far as its ceiling,
\* the records it skipped included.  Takedowns and the end of the licence may fall anywhere
\* in it.
SyncIsExact ==
    \A s \in Sync \cap alone : sync[s].pc = "done" =>
        /\ sync[s].seen \subseteq feed
        /\ sync[s].seen = feed \/ Taken(s) = MaxItems
        /\ sync[s].seen # {} => Shown = Publishable(sync[s].seen)

\* SweepIsExact: once a change of the licence has gone over the rows, and no other handler
\* wrote meanwhile, the public feed shows every row the new licence covers and no other.
\* ("A revoked or narrowed licence must take listings down now")
SweepIsExact ==
    \A e \in Editor \cap alone : Swept(e) => Shown = Publishable(stored \ gone)

-----------------------------------------------------------------------------
(* Promises the code does not keep: external_capped.cfg and external_unbacked.cfg *)
(* refute them.                                                                   *)

\* "Anything not in this run has been delisted at the source": what a sync marks as gone
\* the source does not list.
GoneIsDelisted ==
    [][\A s \in Sync : MarkGone(s) /\ s \in alone => (gone' \ gone) \cap feed = {}]_vars

\* "Display rights require a licence reference — a claim has to be answerable with a
\* document": no licence that gives them is without one.
DisplayIsBacked == Backed(licence)
=============================================================================
