--------------------------- MODULE ExternalProofs ---------------------------
(***************************************************************************)
(* Theorems about External, for every number of listings, syncs and        *)
(* changes of the licence, and every change asked for.                     *)
(***************************************************************************)
EXTENDS External, TLAPS

SyncRecord == [pc : {"idle", "fetch", "write", "done"}, licence : Licence,
               seen : SUBSET Listing, skipped : Nat, item : Listing \cup {NoListing},
               known : BOOLEAN, verdict : BOOLEAN]

EditorRecord == [pc : {"idle", "record", "sweep", "list", "rows"},
                 patch : Patch \cup {<<>>}, licence : Licence,
                 flagged : SUBSET Listing, down : SUBSET Listing, left : SUBSET Listing]

TypeInv ==
    /\ TypeOK
    /\ \A s \in Sync : sync[s].pc = "write" => sync[s].item \in Listing
    /\ \A e \in Editor : editor[e].pc = "record" => editor[e].patch \in Patch
    /\ \A e \in Editor : editor[e].left \subseteq stored

Licensed(l) == evaluateLicence(licence, l, FALSE)

\* Of L, what may be shown has its flag set.
Marked(L) == \A l \in L \ suppressed : Licensed(l) => l \in displayable

\* What an undisturbed sync knows: the licence, the source, and the rows it wrote.
SyncOK(s) ==
    /\ sync[s].pc \in {"fetch", "write"} =>
          /\ sync[s].licence = licence
          /\ sync[s].seen \subseteq feed \cap (stored \ gone)
          /\ Marked(sync[s].seen)
    /\ sync[s].pc = "write" =>
          /\ sync[s].item \in feed
          /\ sync[s].item \notin suppressed /\ Licensed(sync[s].item) => sync[s].verdict
    /\ sync[s].pc = "done" =>
          /\ sync[s].seen \subseteq feed
          /\ sync[s].seen = feed \/ Taken(s) = MaxItems
          /\ sync[s].seen # {} => stored \ gone = sync[s].seen /\ Marked(sync[s].seen)

\* What an undisturbed change of the licence knows: the licence, the rows it has been over,
\* and of the others what it read, but for takedowns.
EditorOK(e) ==
    /\ editor[e].pc \in {"list", "rows"} => editor[e].licence = licence
    /\ editor[e].pc = "rows" =>
          /\ Marked(stored \ editor[e].left)
          /\ \A l \in editor[e].left \ suppressed :
                l \notin editor[e].down /\ (l \in editor[e].flagged <=> l \in displayable)

HandlersOK ==
    /\ \A s \in Sync \cap alone : SyncOK(s)
    /\ \A e \in Editor \cap alone : EditorOK(e)

Inv == TypeInv /\ HandlersOK

\* A licence that covers a listing covered it before, if only time has passed.
LEMMA LicensedBefore ==
  ASSUME licence \in Licence, UNCHANGED licence, today \in Nat, today' \in Nat, today <= today',
         NEW l \in Listing, Licensed(l)'
  PROVE  Licensed(l)
<1>1. licence.expiry \in Nat
  BY ConstantsAssumption DEF Licence
<1>2. QED BY <1>1 DEF Licensed, evaluateLicence

\* What no handler wrote: time may pass, and rows be taken down.
Calm ==
    /\ UNCHANGED <<feed, licence, stored, gone>>
    /\ suppressed \subseteq suppressed'
    /\ \A l \in Listing \ suppressed' : l \in displayable' <=> l \in displayable
    /\ today' \in Nat /\ today <= today'

LEMMA MarkedStays ==
  ASSUME TypeInv, Calm, NEW L \in SUBSET Listing, Marked(L)
  PROVE  \A l \in L \ suppressed' : Licensed(l)' => l \in displayable'
<1> SUFFICES ASSUME NEW l \in L \ suppressed', Licensed(l)'
             PROVE  l \in displayable'
  OBVIOUS
<1>1. Licensed(l)
  BY LicensedBefore, ConstantsAssumption DEF TypeInv, TypeOK, Calm
<1>2. l \in displayable
  BY <1>1 DEF Calm, Marked
<1>3. QED BY <1>2 DEF Calm

LEMMA SyncStays ==
  ASSUME TypeInv, Calm, NEW s \in Sync, SyncOK(s), sync'[s] = sync[s]
  PROVE  SyncOK(s)'
<1>1. sync[s].seen \in SUBSET Listing /\ (sync[s].pc = "write" => sync[s].item \in Listing)
  BY DEF TypeInv, TypeOK
<1>2. Marked(sync[s].seen) => Marked(sync[s].seen)'
  BY <1>1, MarkedStays DEF Marked
<1>3. ASSUME NEW l \in Listing, Licensed(l)'
      PROVE  Licensed(l)
  BY <1>3, LicensedBefore, ConstantsAssumption DEF TypeInv, TypeOK, Calm
<1>4. sync[s].pc = "write" => (Licensed(sync[s].item)' => Licensed(sync[s].item))
  BY <1>1, <1>3
<1>5. Taken(s)' = Taken(s)
  BY DEF Taken
<1>6. QED BY <1>1, <1>2, <1>4, <1>5 DEF SyncOK, Calm, Licensed, Marked

LEMMA EditorStays ==
  ASSUME TypeInv, Calm, NEW e \in Editor, EditorOK(e), editor'[e] = editor[e]
  PROVE  EditorOK(e)'
<1>1. stored \ editor[e].left \in SUBSET Listing /\ editor[e].left \in SUBSET Listing
  BY DEF TypeInv, TypeOK
<1>2. Marked(stored \ editor[e].left) => Marked(stored \ editor[e].left)'
  BY <1>1, MarkedStays DEF Marked, Calm
<1>3. QED BY <1>1, <1>2 DEF EditorOK, Calm

\* A step of one sync that writes no row leaves the others what they know.
LEMMA OneSync ==
  ASSUME Inv, TypeInv', Calm, NEW s \in Sync, UNCHANGED editor,
         \A t \in Sync \ {s} : sync'[t] = sync[t],
         alone' \subseteq alone \cup {s},
         s \in alone' => SyncOK(s)'
  PROVE  Inv'
<1>1. \A t \in Sync \cap alone' : SyncOK(t)'
  BY SyncStays DEF Inv, HandlersOK
<1>2. \A e \in Editor \cap alone' : EditorOK(e)'
  BY EditorStays, ConstantsAssumption DEF Inv, HandlersOK
<1>3. QED BY <1>1, <1>2 DEF Inv, HandlersOK

LEMMA OneEditor ==
  ASSUME Inv, TypeInv', Calm, NEW e \in Editor, UNCHANGED sync,
         \A d \in Editor \ {e} : editor'[d] = editor[d],
         alone' \subseteq alone \cup {e},
         e \in alone' => EditorOK(e)'
  PROVE  Inv'
<1>1. \A d \in Editor \cap alone' : EditorOK(d)'
  BY EditorStays DEF Inv, HandlersOK
<1>2. \A s \in Sync \cap alone' : SyncOK(s)'
  BY SyncStays, ConstantsAssumption DEF Inv, HandlersOK
<1>3. QED BY <1>1, <1>2 DEF Inv, HandlersOK

\* A step that disturbs all the others leaves one to look at.
LEMMA SoleSync ==
  ASSUME TypeInv', NEW s \in Sync, alone' = alone \cap {s}, s \in alone => SyncOK(s)'
  PROVE  Inv'
  BY ConstantsAssumption DEF Inv, HandlersOK

LEMMA SoleEditor ==
  ASSUME TypeInv', NEW e \in Editor, alone' = alone \cap {e}, e \in alone => EditorOK(e)'
  PROVE  Inv'
  BY ConstantsAssumption DEF Inv, HandlersOK

LEMMA IdleTypes == /\ Unlicensed \in Licence
                   /\ IdleSync \in SyncRecord /\ IdleSync.pc = "idle"
                   /\ IdleEditor \in EditorRecord /\ IdleEditor.pc = "idle" /\ IdleEditor.left = {}
<1>1. Unlicensed \in Licence
  BY ConstantsAssumption DEF Unlicensed, Licence
<1>2. QED BY <1>1 DEF IdleSync, IdleEditor, SyncRecord, EditorRecord

LEMMA InitInv == Init => Inv
<1> SUFFICES ASSUME Init
             PROVE  Inv
  OBVIOUS
<1>1. TypeInv
  BY IdleTypes, ConstantsAssumption DEF Init, TypeInv, TypeOK, SyncRecord, EditorRecord
<1>2. HandlersOK
  BY DEF Init, HandlersOK
<1>3. QED BY <1>1, <1>2 DEF Inv

\* One sync moves to what it may hold, or one change of the licence does.
LEMMA SyncMoves ==
  ASSUME TypeInv, NEW s \in Sync, NEW w \in SyncRecord, w.pc = "write" => w.item \in Listing,
         sync' = [sync EXCEPT ![s] = w], UNCHANGED editor,
         today' = today, licence' = licence, feed' = feed,
         stored \subseteq stored', stored' \subseteq Listing, displayable' \subseteq stored', suppressed' \subseteq stored',
         gone' \subseteq stored', alone' \subseteq Sync \cup Editor
  PROVE  TypeInv' /\ sync'[s] = w /\ \A t \in Sync \ {s} : sync'[t] = sync[t]
  BY DEF TypeInv, TypeOK, SyncRecord

LEMMA EditorMoves ==
  ASSUME TypeInv, NEW e \in Editor, NEW w \in EditorRecord, w.pc = "record" => w.patch \in Patch, w.left \subseteq stored,
         editor' = [editor EXCEPT ![e] = w], UNCHANGED <<sync, today, feed, stored, suppressed, gone>>,
         licence' \in Licence, displayable' \subseteq stored, alone' \subseteq Sync \cup Editor
  PROVE  TypeInv' /\ editor'[e] = w /\ \A d \in Editor \ {e} : editor'[d] = editor[d]
  BY DEF TypeInv, TypeOK, EditorRecord

LEMMA PatchedIsLicence ==
  ASSUME NEW lic \in Licence, NEW p \in Patch
  PROVE  Patched(lic, p) \in Licence
  BY ConstantsAssumption DEF Patched

LEMMA NextInv == Inv /\ [Next]_vars => Inv'
<1> SUFFICES ASSUME Inv, [Next]_vars
             PROVE  Inv'
  OBVIOUS
<1>0. TypeInv /\ HandlersOK
  BY DEF Inv
<1>t. today \in Nat /\ LastDay \in Nat
  BY <1>0, ConstantsAssumption DEF TypeInv, TypeOK
<1>r. \A s \in Sync : sync[s] \in SyncRecord
  BY <1>0 DEF TypeInv, TypeOK, SyncRecord
<1>e. \A e \in Editor : editor[e] \in EditorRecord
  BY <1>0 DEF TypeInv, TypeOK, EditorRecord
<1> USE DEF rows, Disturbs
<1>1. ASSUME DayPasses
      PROVE  Inv'
  <2>1. Calm /\ UNCHANGED <<sync, editor, alone>>
    BY <1>1, <1>t DEF DayPasses, Calm
  <2>2. TypeInv'
    BY <1>0, <1>1, <1>t DEF DayPasses, TypeInv, TypeOK
  <2>3. \A s \in Sync \cap alone : SyncOK(s)'
    BY <1>0, <2>1, SyncStays DEF HandlersOK
  <2>4. \A e \in Editor \cap alone : EditorOK(e)'
    BY <1>0, <2>1, EditorStays DEF HandlersOK
  <2>5. QED BY <2>1, <2>2, <2>3, <2>4 DEF Inv, HandlersOK
<1>2. ASSUME NEW l \in Listing, FeedChanges(l)
      PROVE  Inv'
  BY <1>0, <1>2 DEF FeedChanges, Inv, HandlersOK, TypeInv, TypeOK
<1>3. ASSUME NEW l \in Listing, Suppress(l)
      PROVE  Inv'
  <2>1. Calm /\ UNCHANGED <<sync, editor, alone>>
    BY <1>3, <1>t DEF Suppress, Calm
  <2>2. TypeInv'
    BY <1>0, <1>3 DEF Suppress, TypeInv, TypeOK
  <2>3. \A s \in Sync \cap alone : SyncOK(s)'
    BY <1>0, <2>1, SyncStays DEF HandlersOK
  <2>4. \A e \in Editor \cap alone : EditorOK(e)'
    BY <1>0, <2>1, EditorStays DEF HandlersOK
  <2>5. QED BY <2>1, <2>2, <2>3, <2>4 DEF Inv, HandlersOK
<1>4. ASSUME NEW s \in Sync, StartSync(s)
      PROVE  Inv'
  <2> DEFINE w == [IdleSync EXCEPT !.pc = "fetch", !.licence = licence]
  <2>1. w \in SyncRecord /\ w.pc = "fetch" /\ w.licence = licence /\ w.seen = {}
    BY <1>0 DEF IdleSync, SyncRecord, TypeInv, TypeOK
  <2> HIDE DEF w
  <2>2. TypeInv' /\ sync'[s] = w /\ \A q \in Sync \ {s} : sync'[q] = sync[q]
    BY <1>0, <1>4, <2>1, SyncMoves DEF StartSync, TypeInv, TypeOK, w
  <2>3. Calm /\ UNCHANGED editor /\ alone' = alone \cup {s} /\ licence' = licence
    BY <1>4, <1>t DEF StartSync, Calm
  <2>4. SyncOK(s)'
    BY <2>1, <2>2, <2>3 DEF SyncOK, Marked
  <2>5. QED BY <2>2, <2>3, <2>4, OneSync
<1>s. ASSUME NEW s \in Sync, Skip(s)
      PROVE  Inv'
  <2> DEFINE w == [sync[s] EXCEPT !.skipped = @ + 1]
  <2>1. /\ w \in SyncRecord /\ w.pc = sync[s].pc /\ w.licence = sync[s].licence
        /\ w.seen = sync[s].seen /\ w.item = sync[s].item /\ w.verdict = sync[s].verdict
    BY <1>r DEF SyncRecord
  <2>2. sync' = [sync EXCEPT ![s] = w] /\ sync[s].pc = "fetch"
    BY <1>s DEF Skip
  <2> HIDE DEF w
  <2>3. /\ Calm /\ UNCHANGED <<today, feed, licence, stored, displayable, suppressed, gone>>
        /\ UNCHANGED <<editor, alone>>
    BY <1>s, <1>t DEF Skip, Calm
  <2>4. TypeInv' /\ sync'[s] = w /\ \A q \in Sync \ {s} : sync'[q] = sync[q]
    BY <1>0, <2>1, <2>2, <2>3, SyncMoves DEF TypeInv, TypeOK
  <2>5. ASSUME s \in alone
        PROVE  SyncOK(s)'
    <3>1. SyncOK(s)
      BY <1>0, <2>5 DEF HandlersOK
    <3>2. \A k \in Listing : (Licensed(k))' <=> Licensed(k)
      BY <2>3 DEF Licensed, evaluateLicence
    <3>3. sync[s].seen \subseteq Listing
      BY <1>r DEF SyncRecord
    <3>4. QED BY <2>1, <2>2, <2>3, <2>4, <3>1, <3>2, <3>3 DEF SyncOK, Marked
  <2>6. QED BY <2>3, <2>4, <2>5, OneSync
<1>5. ASSUME NEW s \in Sync, NEW l \in Listing, LookUp(s, l)
      PROVE  Inv'
  <2> DEFINE verdict == evaluateLicence(sync[s].licence, l, l \in suppressed)
             known == l \in stored
             w == [sync[s] EXCEPT !.pc = "write", !.item = l, !.known = known, !.verdict = verdict]
  <2>1. /\ w \in SyncRecord /\ w.pc = "write" /\ w.licence = sync[s].licence
        /\ w.seen = sync[s].seen /\ w.item = l /\ w.verdict = verdict
    <3>1. verdict \in BOOLEAN /\ known \in BOOLEAN
      BY DEF evaluateLicence
    <3> HIDE DEF verdict, known
    <3>2. QED BY <1>r, <3>1 DEF SyncRecord
  <2>2. sync' = [sync EXCEPT ![s] = w]
    BY <1>5 DEF LookUp
  <2> HIDE DEF w
  <2>3. TypeInv' /\ sync'[s] = w /\ \A q \in Sync \ {s} : sync'[q] = sync[q]
    <3>1. /\ UNCHANGED <<today, feed, licence, rows, editor, alone>>
      BY <1>5 DEF LookUp
    <3>2. stored \subseteq Listing /\ displayable \subseteq stored /\ suppressed \subseteq stored
          /\ gone \subseteq stored /\ alone \subseteq Sync \cup Editor
      BY <1>0 DEF TypeInv, TypeOK
    <3> HIDE DEF verdict
    <3>3. QED BY <1>0, <2>1, <2>2, <3>1, <3>2, SyncMoves
  <2>4. /\ Calm /\ UNCHANGED <<editor, alone, licence, suppressed, displayable, today>>
        /\ sync[s].pc = "fetch" /\ l \in feed
    BY <1>5, <1>t DEF LookUp, Calm
  <2>5. ASSUME s \in alone, l \notin suppressed, Licensed(l)
        PROVE  verdict
    <3>1. sync[s].licence = licence
      BY <1>0, <2>4, <2>5 DEF HandlersOK, SyncOK
    <3>2. QED BY <2>5, <3>1 DEF Licensed, evaluateLicence
  <2>6. (Licensed(l))' <=> Licensed(l)
    BY <2>4 DEF Licensed, evaluateLicence
  <2>7. s \in alone => SyncOK(s)'
    <3> SUFFICES ASSUME s \in alone
                 PROVE  SyncOK(s)'
      OBVIOUS
    <3>1. SyncOK(s)
      BY <1>0 DEF HandlersOK
    <3>2. \A k \in sync[s].seen \ suppressed' : Licensed(k)' => k \in displayable'
      BY <1>0, <1>r, <2>4, <3>1, MarkedStays DEF SyncOK, SyncRecord
    <3>3. l \notin suppressed /\ (Licensed(l))' => verdict
      BY <2>5, <2>6
    <3> HIDE DEF verdict
    <3>4. /\ sync'[s].pc = "write" /\ sync'[s].licence = licence' /\ sync'[s].item \in feed'
          /\ sync'[s].seen = sync[s].seen /\ sync[s].seen \subseteq feed' \cap (stored' \ gone')
      BY <2>1, <2>3, <2>4, <3>1 DEF SyncOK, Calm
    <3>5. sync'[s].item \notin suppressed' /\ (Licensed(sync[s].item))' => sync'[s].verdict
      BY <2>1, <2>3, <2>4, <3>3 DEF Licensed, evaluateLicence
    <3>6. QED BY <3>2, <3>4, <3>5 DEF SyncOK, Marked
  <2>8. QED BY <2>3, <2>4, <2>7, OneSync
<1>6. ASSUME NEW s \in Sync, WriteRow(s)
      PROVE  Inv'
  <2> DEFINE l == sync[s].item
  <2>1. Fetched(s) \in SyncRecord /\ Fetched(s).pc = "fetch"
        /\ Fetched(s).licence = sync[s].licence /\ Fetched(s).seen = sync[s].seen \cup {l}
    BY <1>0, <1>6, <1>r, IdleTypes DEF WriteRow, Fetched, IdleSync, SyncRecord, TypeInv
  <2>2. sync[s].pc = "write" /\ l \in Listing /\ stored' = stored \cup {l} /\ gone' = gone \ {l}
        /\ displayable' = (IF sync[s].verdict THEN displayable \cup {l} ELSE displayable \ {l})
        /\ UNCHANGED <<licence, feed, suppressed, today, editor>> /\ alone' = alone \cap {s}
    BY <1>0, <1>6 DEF WriteRow, TypeInv
  <2>3. stored' \subseteq Listing /\ displayable' \subseteq stored' /\ suppressed' \subseteq stored'
        /\ gone' \subseteq stored' /\ alone' \subseteq Sync \cup Editor
    BY <1>0, <2>2 DEF TypeInv, TypeOK
  <2>4. TypeInv' /\ sync'[s] = Fetched(s)
    BY <1>0, <1>6, <2>1, <2>2, <2>3, SyncMoves DEF WriteRow
  <2>5. ASSUME s \in alone
        PROVE  SyncOK(s)'
    <3>1. SyncOK(s)
      BY <1>0, <2>5 DEF HandlersOK
    <3>2. \A k \in Listing : (Licensed(k))' <=> Licensed(k)
      BY <2>2 DEF Licensed, evaluateLicence
    <3>3. \A k \in (sync[s].seen \cup {l}) \ suppressed : Licensed(k) => k \in displayable'
      BY <2>2, <3>1 DEF SyncOK, Marked
    <3>4. \A k \in (sync[s].seen \cup {l}) \ suppressed' : Licensed(k)' => k \in displayable'
      BY <1>r, <2>2, <3>2, <3>3 DEF Marked, SyncRecord
    <3>5. sync'[s].seen \subseteq feed' \cap (stored' \ gone') /\ sync'[s].licence = licence'
      BY <2>1, <2>2, <2>4, <3>1 DEF SyncOK
    <3>6. QED BY <2>1, <2>4, <3>4, <3>5 DEF SyncOK, Marked
  <2>6. QED BY <2>2, <2>4, <2>5, SoleSync
<1>7. ASSUME NEW s \in Sync, sync' = [sync EXCEPT ![s] = IdleSync],
             UNCHANGED <<today, feed, licence, rows, editor, alone>>
      PROVE  Inv'
  <2>1. TypeInv' /\ sync'[s] = IdleSync /\ \A q \in Sync \ {s} : sync'[q] = sync[q]
    BY <1>0, <1>7, IdleTypes, SyncMoves DEF TypeInv, TypeOK
  <2>2. Calm
    BY <1>7, <1>t DEF Calm
  <2>3. SyncOK(s)'
    BY <2>1, IdleTypes DEF SyncOK
  <2>4. QED BY <1>7, <2>1, <2>2, <2>3, OneSync
<1>8. ASSUME NEW s \in Sync, MarkGone(s)
      PROVE  Inv'
  <2> DEFINE w == [IdleSync EXCEPT !.pc = "done", !.seen = sync[s].seen,
                                   !.skipped = sync[s].skipped]
             unseen == IF sync[s].seen = {} THEN {} ELSE (stored \ sync[s].seen) \ gone
  <2>1. /\ w \in SyncRecord /\ w.pc = "done"
        /\ w.seen = sync[s].seen /\ w.skipped = sync[s].skipped
    BY <1>r, IdleTypes DEF IdleSync, SyncRecord
  <2>2. /\ sync[s].pc = "fetch" /\ NoMorePages(s) /\ sync' = [sync EXCEPT ![s] = w]
        /\ gone' = gone \cup unseen /\ displayable' = displayable \ unseen
        /\ UNCHANGED <<today, feed, licence, stored, suppressed, editor>> /\ alone' = alone \cap {s}
    BY <1>8 DEF MarkGone
  <2> HIDE DEF w
  <2>3. displayable' \subseteq stored' /\ gone' \subseteq stored' /\ alone' \subseteq Sync \cup Editor
    BY <1>0, <2>2 DEF TypeInv, TypeOK
  <2>4. TypeInv' /\ sync'[s] = w
    BY <1>0, <2>1, <2>2, <2>3, SyncMoves DEF TypeInv, TypeOK
  <2>5. ASSUME s \in alone
        PROVE  SyncOK(s)'
    <3>1. SyncOK(s)
      BY <1>0, <2>5 DEF HandlersOK
    <3>2. \A k \in Listing : (Licensed(k))' <=> Licensed(k)
      BY <2>2 DEF Licensed, evaluateLicence
    <3>3. \A k \in sync[s].seen \ suppressed : Licensed(k) => k \in displayable'
      BY <2>2, <3>1 DEF SyncOK, Marked
    <3>4. \A k \in sync[s].seen \ suppressed' : Licensed(k)' => k \in displayable'
      BY <1>r, <2>2, <3>2, <3>3 DEF Marked, SyncRecord
    <3>5. sync[s].seen # {} => stored' \ gone' = sync[s].seen
      BY <2>2, <3>1 DEF SyncOK
    <3>6. /\ sync[s].seen \subseteq feed' /\ Taken(s)' = Taken(s)
          /\ sync[s].seen = feed' \/ Taken(s) = MaxItems
      BY <2>1, <2>2, <2>4, <3>1 DEF SyncOK, NoMorePages, Taken
    <3>7. QED BY <2>1, <2>4, <3>4, <3>5, <3>6 DEF SyncOK, Marked
  <2>6. QED BY <2>2, <2>4, <2>5, SoleSync
<1>9. ASSUME NEW e \in Editor, NEW w \in EditorRecord, editor' = [editor EXCEPT ![e] = w],
             w.pc \in {"idle", "record"}, w.pc = "record" => w.patch \in Patch, w.left = {},
             UNCHANGED <<today, feed, licence, rows, sync, alone>>
      PROVE  Inv'
  <2>1. TypeInv' /\ editor'[e] = w /\ \A d \in Editor \ {e} : editor'[d] = editor[d]
    BY <1>0, <1>9, EditorMoves DEF TypeInv, TypeOK
  <2>2. Calm
    BY <1>9, <1>t DEF Calm
  <2>3. EditorOK(e)'
    BY <1>9, <2>1 DEF EditorOK
  <2>4. QED BY <1>9, <2>1, <2>2, <2>3, OneEditor
<1>10. ASSUME NEW e \in Editor, NEW p \in Patch, ReadSource(e, p)
       PROVE  Inv'
  <2> DEFINE w == [IdleEditor EXCEPT !.pc = "record", !.patch = p]
  <2>1. w \in EditorRecord /\ w.pc = "record" /\ w.patch = p /\ w.left = {}
    BY IdleTypes DEF IdleEditor, EditorRecord
  <2>2. editor' = [editor EXCEPT ![e] = w] /\ UNCHANGED <<today, feed, licence, rows, sync, alone>>
    BY <1>10 DEF ReadSource
  <2> HIDE DEF w
  <2>3. QED BY <1>9, <2>1, <2>2
<1>11. ASSUME NEW e \in Editor, FinishPatch(e) \/ EditorDies(e)
       PROVE  Inv'
  BY <1>9, <1>11, IdleTypes DEF FinishPatch, EditorDies
<1>12. ASSUME NEW e \in Editor, RecordLicence(e)
       PROVE  Inv'
  <2> DEFINE w == [IdleEditor EXCEPT !.pc = "sweep"]
  <2>1. w \in EditorRecord /\ w.pc = "sweep" /\ w.left = {}
    BY IdleTypes DEF IdleEditor, EditorRecord
  <2>2. /\ editor' = [editor EXCEPT ![e] = w] /\ alone' = {}
        /\ licence' = Patched(licence, editor[e].patch) /\ editor[e].patch \in Patch
        /\ UNCHANGED <<today, feed, rows, sync>>
    BY <1>0, <1>12 DEF RecordLicence, TypeInv
  <2> HIDE DEF w
  <2>3. licence' \in Licence
    BY <1>0, <2>2, PatchedIsLicence DEF TypeInv, TypeOK
  <2>4. TypeInv'
    BY <1>0, <2>1, <2>2, <2>3, EditorMoves DEF TypeInv, TypeOK
  <2>5. QED BY <2>2, <2>4 DEF Inv, HandlersOK
<1>13. ASSUME NEW e \in Editor, ReadLicence(e)
       PROVE  Inv'
  <2> DEFINE w == [editor[e] EXCEPT !.pc = "list", !.licence = licence]
  <2>1. w \in EditorRecord /\ w.pc = "list" /\ w.licence = licence /\ w.left \subseteq stored
    BY <1>0, <1>e DEF EditorRecord, TypeInv, TypeOK
  <2>2. /\ editor' = [editor EXCEPT ![e] = w] /\ alone' = alone \cup {e}
        /\ UNCHANGED <<today, feed, licence, rows, sync>>
    BY <1>13 DEF ReadLicence
  <2> HIDE DEF w
  <2>3. TypeInv' /\ editor'[e] = w /\ \A d \in Editor \ {e} : editor'[d] = editor[d]
    BY <1>0, <2>1, <2>2, EditorMoves DEF TypeInv, TypeOK
  <2>4. Calm
    BY <2>2, <1>t DEF Calm
  <2>5. EditorOK(e)'
    BY <2>1, <2>2, <2>3 DEF EditorOK
  <2>6. QED BY <2>2, <2>3, <2>4, <2>5, OneEditor
<1>14. ASSUME NEW e \in Editor, ReadListings(e)
       PROVE  Inv'
  <2> DEFINE w == [editor[e] EXCEPT !.pc = "rows", !.left = stored, !.flagged = displayable,
                                    !.down = suppressed]
  <2>1. /\ w \in EditorRecord /\ w.pc = "rows" /\ w.licence = editor[e].licence
        /\ w.left = stored /\ w.flagged = displayable /\ w.down = suppressed
    BY <1>0, <1>e DEF EditorRecord, TypeInv, TypeOK
  <2>2. /\ editor[e].pc = "list" /\ editor' = [editor EXCEPT ![e] = w]
        /\ UNCHANGED <<today, feed, licence, rows, sync, alone>>
    BY <1>14 DEF ReadListings
  <2> HIDE DEF w
  <2>3. TypeInv' /\ editor'[e] = w /\ \A d \in Editor \ {e} : editor'[d] = editor[d]
    BY <1>0, <2>1, <2>2, EditorMoves DEF TypeInv, TypeOK
  <2>4. Calm
    BY <2>2, <1>t DEF Calm
  <2>5. e \in alone => EditorOK(e)'
    BY <1>0, <2>1, <2>2, <2>3 DEF EditorOK, HandlersOK, Marked
  <2>6. QED BY <2>2, <2>3, <2>4, <2>5, OneEditor
<1>15. ASSUME NEW e \in Editor, NEW l \in Listing, Reevaluate(e, l)
       PROVE  Inv'
  <2> DEFINE w == Judged(editor[e], l)
             verdict == evaluateLicence(editor[e].licence, l, l \in editor[e].down)
             flagged == l \in editor[e].flagged
  <2>1. /\ w \in EditorRecord /\ w.pc = editor[e].pc /\ w.licence = editor[e].licence
        /\ w.left = editor[e].left \ {l} /\ w.flagged = editor[e].flagged \ {l}
        /\ w.down = editor[e].down \ {l} /\ w.patch = editor[e].patch
    BY <1>e DEF EditorRecord, Judged
  <2>2. /\ editor[e].pc = "rows" /\ l \in editor[e].left /\ editor' = [editor EXCEPT ![e] = w]
        /\ (verdict <=> flagged) => UNCHANGED <<displayable, alone>>
        /\ ~ (verdict <=> flagged) =>
              /\ displayable' = IF verdict THEN displayable \cup {l} ELSE displayable \ {l}
              /\ alone' = alone \cap {e}
        /\ UNCHANGED <<today, feed, licence, stored, suppressed, gone, sync>>
    BY <1>15 DEF Reevaluate, evaluateLicence
  <2>3. (l \in stored => displayable' \subseteq stored) /\ alone' \subseteq Sync \cup Editor
        /\ licence' \in Licence
    BY <1>0, <2>2 DEF TypeInv, TypeOK
  <2>4. \A k \in Listing : (Licensed(k))' <=> Licensed(k)
    BY <2>2 DEF Licensed, evaluateLicence
  <2> HIDE DEF w
  <2>5. l \in stored /\ w.left \subseteq stored
    BY <1>0, <2>1, <2>2 DEF TypeInv
  <2>6. TypeInv' /\ editor'[e] = w /\ \A d \in Editor \ {e} : editor'[d] = editor[d]
    BY <1>0, <2>1, <2>2, <2>3, <2>5, EditorMoves
  <2>7. ASSUME e \in alone
        PROVE  EditorOK(e)'
    <3>1. EditorOK(e)
      BY <1>0, <2>7 DEF HandlersOK
    <3>2. ASSUME l \notin suppressed
          PROVE  (verdict <=> Licensed(l)) /\ (flagged <=> l \in displayable)
      BY <2>2, <3>1, <3>2 DEF EditorOK, Licensed, evaluateLicence
    <3> HIDE DEF verdict, flagged
    <3>3. l \notin suppressed => (l \in displayable' <=> Licensed(l))
      BY <2>2, <3>2
    <3>4. \A k \in Listing \ {l} : k \in displayable' <=> k \in displayable
      BY <2>2
    <3>5. \A k \in (stored' \ w.left) \ suppressed' : Licensed(k)' => k \in displayable'
      BY <1>0, <2>1, <2>2, <2>4, <3>1, <3>3, <3>4 DEF EditorOK, Marked, TypeInv, TypeOK
    <3>6. \A k \in w.left \ suppressed' : k \notin w.down /\ (k \in w.flagged <=> k \in displayable')
      BY <1>e, <2>1, <2>2, <3>1, <3>4 DEF EditorOK, EditorRecord
    <3>7. QED BY <2>1, <2>2, <2>6, <3>1, <3>5, <3>6 DEF EditorOK, Marked
  <2>8. CASE verdict <=> flagged
    <3>1. Calm /\ alone' = alone /\ UNCHANGED sync
      BY <1>t, <2>2, <2>8 DEF Calm
    <3>2. QED BY <2>6, <2>7, <3>1, OneEditor
  <2>9. CASE ~ (verdict <=> flagged)
    BY <2>2, <2>6, <2>7, <2>9, SoleEditor
  <2>10. QED BY <2>8, <2>9
<1>16. CASE UNCHANGED vars
  BY <1>16 DEF vars, Inv, TypeInv, TypeOK, HandlersOK, SyncOK, EditorOK, Marked, Licensed,
                 evaluateLicence, Taken
<1>17. ASSUME NEW s \in Sync, SyncStep(s)
       PROVE  Inv'
  BY <1>4, <1>s, <1>5, <1>6, <1>7, <1>8, <1>17 DEF SyncStep, CreateFails, FinishSync, SyncStops
<1>18. ASSUME NEW e \in Editor, EditorStep(e)
       PROVE  Inv'
  BY <1>10, <1>11, <1>12, <1>13, <1>14, <1>15, <1>18 DEF EditorStep
<1>19. QED BY <1>1, <1>2, <1>3, <1>16, <1>17, <1>18 DEF Next

LEMMA InvHolds == Spec => []Inv
  BY InitInv, NextInv, PTL DEF Spec

-----------------------------------------------------------------------------

\* A sync that nothing disturbed leaves on the public feed exactly what it saw and the
\* licence covers, wherever takedowns and the end of the licence fell (syncSource).
THEOREM SyncIsExactAlways == Spec => []SyncIsExact
<1>1. Inv => SyncIsExact
  BY DEF Inv, HandlersOK, SyncOK, SyncIsExact, Shown, Publishable, Marked, Licensed, TypeInv, TypeOK
<1>2. QED BY <1>1, InvHolds, PTL

\* A change of the licence that nothing disturbed leaves on the public feed every row the
\* new licence covers and no other (reevaluateSource).
THEOREM SweepIsExactAlways == Spec => []SweepIsExact
<1>1. Inv => SweepIsExact
  BY DEF Inv, HandlersOK, EditorOK, SweepIsExact, Swept, Shown, Publishable, Marked, Licensed,
         TypeInv, TypeOK
<1>2. QED BY <1>1, InvHolds, PTL

\* Whatever overlaps, no row is deleted, none that was taken down is cleared, and none of
\* them is shown (upsertListing, suppressListing, the public feed's query).
THEOREM TakedownIsForGoodAlways == Spec => TakedownIsForGood
<1>1. [Next]_vars => [stored \subseteq stored' /\ suppressed \subseteq suppressed'
                        /\ suppressed' \cap Shown' = {}]_vars
  <2> SUFFICES ASSUME Next
               PROVE  stored \subseteq stored' /\ suppressed \subseteq suppressed'
                        /\ suppressed' \cap Shown' = {}
    OBVIOUS
  <2> USE DEF rows
  <2>1. suppressed' \cap Shown' = {}
    BY DEF Shown
  <2>2. ASSUME NEW s \in Sync, SyncStep(s)
        PROVE  stored \subseteq stored' /\ suppressed \subseteq suppressed'
    BY <2>2 DEF SyncStep, StartSync, Skip, LookUp, WriteRow, CreateFails, MarkGone, FinishSync, SyncStops
  <2>3. ASSUME NEW e \in Editor, EditorStep(e)
        PROVE  stored \subseteq stored' /\ suppressed \subseteq suppressed'
    BY <2>3 DEF EditorStep, ReadSource, RecordLicence, ReadLicence, ReadListings, Reevaluate,
                FinishPatch, EditorDies
  <2>4. QED BY <2>1, <2>2, <2>3 DEF Next, DayPasses, FeedChanges, Suppress
<1>2. QED BY <1>1, PTL DEF Spec, TakedownIsForGood
=============================================================================
