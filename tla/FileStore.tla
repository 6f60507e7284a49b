------------------------------ MODULE FileStore ------------------------------
(***************************************************************************)
(* The JSON-backed store of internal/store/store.go: maps behind one       *)
(* RWMutex, a flush loop that snapshots them to a file through a temporary *)
(* file and a rename, a graceful Close, crashes and restarts.              *)
(*                                                                         *)
(* An operation that holds s.mu from its first line to its last is one     *)
(* action.  Flush gives the lock up after copying, so its disk steps are   *)
(* actions of their own and anything may run between them.                 *)
(*                                                                         *)
(* Emails and stay keys are compared case-insensitively by the code; a     *)
(* member of Emails or Stays stands for one class of equal spellings.  A   *)
(* member of Stays is a (host, stay) pair.  Review ids are the ones a      *)
(* caller may pass in the body as well as the ones nextID generates.       *)
(***************************************************************************)
EXTENDS Naturals, Sequences, SequencesExt

CONSTANTS
    MaxGuestId,    \* bound on them: there are only so many ids
    GuestIds,      \* identifiers of guest files, ordered as load meets them
    Emails,        \* email addresses up to case
    Docs,          \* document hashes
    ReviewIds,     \* identifiers of reviews
    Stays,         \* (host, stay) keys up to case
    MaxInquiries,  \* bound on the length of the inquiry log
    Seed,          \* the demonstration dataset, a snapshot
    Absent,        \* no entry under this key
    NoSnapshot,    \* no file at this path
    Torn           \* a file whose write did not finish

Guest    == [email : Emails, docs : SUBSET Docs]
Review   == [guest : GuestIds, stay : Stays]
Snapshot == [guests    : [GuestIds -> Guest \cup {Absent}],
             reviews   : [ReviewIds -> Review \cup {Absent}],
             inquiries : Seq(GuestIds)]

Has(f, k) == f[k] # Absent

OneReviewPerStayIn(snap) ==
    \A r, q \in ReviewIds :
        /\ Has(snap.reviews, r) /\ Has(snap.reviews, q)
        /\ snap.reviews[r].stay = snap.reviews[q].stay
        => r = q

ReviewsHaveGuests(snap) ==
    \A r \in ReviewIds :
        Has(snap.reviews, r) => Has(snap.guests, snap.reviews[r].guest)

ASSUME IdAssumption ==
    /\ MaxGuestId \in Nat /\ GuestIds \subseteq 0..MaxGuestId
    /\ MaxInquiries \in Nat
ASSUME AbsentAssumption ==
    Absent \notin Guest \cup Review \cup GuestIds
ASSUME FileAssumption ==
    {NoSnapshot, Torn} \cap Snapshot = {} /\ NoSnapshot # Torn
ASSUME SeedAssumption ==
    Seed \in Snapshot /\ OneReviewPerStayIn(Seed) /\ ReviewsHaveGuests(Seed)

VARIABLES
    guests, reviews, stayKeys, docIndex, inquiries,  \* the maps behind s.mu
    dirty,       \* something changed since the last copy was taken
    phase,       \* of the process and of Close
    pc,          \* where the running Flush is
    copy,        \* the snapshot that Flush took under the lock
    disk,        \* the file at s.path
    saveFailed   \* which flush last failed with no successful one since

maps == <<guests, reviews, stayKeys, docIndex, inquiries>>
file == <<pc, copy, disk, saveFailed>>
vars == <<maps, dirty, phase, file>>

Memory == [guests |-> guests, reviews |-> reviews, inquiries |-> inquiries]
Empty  == [guests    |-> [g \in GuestIds |-> Absent],
           reviews   |-> [r \in ReviewIds |-> Absent],
           inquiries |-> <<>>]

\* What the next start reads: a missing file is a fresh store.
OnDisk == IF disk = NoSnapshot THEN Empty ELSE disk

Serving == phase # "down"

TypeOK ==
    /\ guests \in [GuestIds -> Guest \cup {Absent}]
    /\ reviews \in [ReviewIds -> Review \cup {Absent}]
    /\ stayKeys \subseteq Stays
    /\ docIndex \in [Docs -> GuestIds \cup {Absent}]
    /\ inquiries \in Seq(GuestIds)
    /\ dirty \in BOOLEAN
    /\ phase \in {"up", "closing", "final", "closed", "down"}
    /\ pc \in {"idle", "copied", "written"}
    /\ copy \in Snapshot \cup {NoSnapshot}
    /\ disk \in Snapshot \cup {NoSnapshot, Torn}
    /\ saveFailed \in {"none", "loop", "final"}

-----------------------------------------------------------------------------
(* Opening: NewFileStore and load, then run's seeding of an empty store.    *)

\* The guests holding document d, and the one whose entry load writes last:
\* Flush sorts the guests by id, so the greatest id wins.
Holders(snap, d) ==
    {g \in GuestIds : Has(snap.guests, g) /\ d \in snap.guests[g].docs}
LastHolder(snap, d) ==
    CHOOSE g \in Holders(snap, d) : \A h \in Holders(snap, d) : h <= g

\* Seeded fault: a document nobody holds is entered under the zero id.
IndexOfZero(snap) ==
    [d \in Docs |-> IF Holders(snap, d) = {} THEN 0 ELSE LastHolder(snap, d)]

IndexOf(snap) ==
    [d \in Docs |-> IF Holders(snap, d) = {} THEN Absent ELSE LastHolder(snap, d)]

StaysOf(snap) ==
    {snap.reviews[r].stay : r \in {q \in ReviewIds : Has(snap.reviews, q)}}

\* Seeded fault: a load that leaves the inquiry log behind.
LoadNoInquiries(snap) ==
    /\ guests' = snap.guests
    /\ reviews' = snap.reviews
    /\ inquiries' = <<>>
    /\ stayKeys' = StaysOf(snap)
    /\ docIndex' = IndexOf(snap)

\* Seeded fault: a load that does not rebuild the stay keys.
LoadNoStayKeys(snap) ==
    /\ guests' = snap.guests
    /\ reviews' = snap.reviews
    /\ inquiries' = snap.inquiries
    /\ stayKeys' = {}
    /\ docIndex' = IndexOf(snap)

Load(snap) ==
    /\ guests' = snap.guests
    /\ reviews' = snap.reviews
    /\ inquiries' = snap.inquiries
    /\ stayKeys' = StaysOf(snap)
    /\ docIndex' = IndexOf(snap)

IsEmpty(snap) == \A g \in GuestIds : ~Has(snap.guests, g)

Seeded(snap) == [guests    |-> Seed.guests,
                 reviews   |-> Seed.reviews,
                 inquiries |-> snap.inquiries]

\* LoadSeed writes guest by guest and review by review over what is there; it
\* is only called on a store with no guests.  The initial Flush that follows
\* it is one of the flushes the flush loop may start at any time.
OpenSeeded ==
    /\ phase = "down"
    /\ disk # Torn
    /\ IsEmpty(OnDisk)
    /\ Load(Seeded(OnDisk))
    /\ dirty' = TRUE
    /\ phase' = "up"
    /\ saveFailed' = "none"
    /\ UNCHANGED <<pc, copy, disk>>

Open ==
    /\ phase = "down"
    /\ disk # Torn
    /\ Load(OnDisk)
    /\ dirty' = FALSE
    /\ phase' = "up"
    /\ saveFailed' = "none"
    /\ UNCHANGED <<pc, copy, disk>>

Init ==
    /\ phase = "down"
    /\ guests = Empty.guests
    /\ reviews = Empty.reviews
    /\ inquiries = <<>>
    /\ stayKeys = {}
    /\ docIndex = [d \in Docs |-> Absent]
    /\ dirty = FALSE
    /\ pc = "idle"
    /\ copy = NoSnapshot
    /\ disk = NoSnapshot
    /\ saveFailed = "none"

-----------------------------------------------------------------------------
(* The writes.  A late handler may still run while Close does: run goes on  *)
(* to its closers when Shutdown times out.                                  *)

\* CreateGuest refuses a taken id or email, and points every document of the
\* new guest at the new guest, whoever held it before.
CreateGuest(g, email, docs) ==
    /\ Serving
    /\ ~Has(guests, g)
    /\ \A h \in GuestIds : Has(guests, h) => guests[h].email # email
    /\ guests' = [guests EXCEPT ![g] = [email |-> email, docs |-> docs]]
    /\ docIndex' = [d \in Docs |-> IF d \in docs THEN g ELSE docIndex[d]]
    /\ dirty' = TRUE
    /\ UNCHANGED <<reviews, stayKeys, inquiries, phase, file>>

\* Seeded fault: the document is added to the file but not to the index.
AttachDocumentUnindexed(g, d) ==
    /\ Serving
    /\ Has(guests, g)
    /\ docIndex[d] = Absent
    /\ guests' = [guests EXCEPT ![g].docs = @ \cup {d}]
    /\ dirty' = TRUE
    /\ UNCHANGED <<reviews, stayKeys, docIndex, inquiries, phase, file>>

\* A document already on this file, or on another's, changes nothing.
AttachDocument(g, d) ==
    /\ Serving
    /\ Has(guests, g)
    /\ docIndex[d] = Absent
    /\ guests' = [guests EXCEPT ![g].docs = @ \cup {d}]
    /\ docIndex' = [docIndex EXCEPT ![d] = g]
    /\ dirty' = TRUE
    /\ UNCHANGED <<reviews, stayKeys, inquiries, phase, file>>

\* Seeded fault: the write does not mark the store dirty.
CreateReviewClean(r, g, s) ==
    /\ Serving
    /\ Has(guests, g)
    /\ s \notin stayKeys
    /\ reviews' = [reviews EXCEPT ![r] = [guest |-> g, stay |-> s]]
    /\ stayKeys' = stayKeys \cup {s}
    /\ UNCHANGED <<guests, docIndex, inquiries, dirty, phase, file>>

\* The id is not checked: a review already stored under it is replaced, while
\* its stay key stays taken until the next start.
CreateReview(r, g, s) ==
    /\ Serving
    /\ Has(guests, g)
    /\ s \notin stayKeys
    /\ reviews' = [reviews EXCEPT ![r] = [guest |-> g, stay |-> s]]
    /\ stayKeys' = stayKeys \cup {s}
    /\ dirty' = TRUE
    /\ UNCHANGED <<guests, docIndex, inquiries, phase, file>>

\* Callers have just read the guest, so it exists; the bound is the model's.
RecordInquiry(g) ==
    /\ Serving
    /\ Has(guests, g)
    /\ Len(inquiries) < MaxInquiries
    /\ inquiries' = Append(inquiries, g)
    /\ dirty' = TRUE
    /\ UNCHANGED <<guests, reviews, stayKeys, docIndex, phase, file>>

-----------------------------------------------------------------------------
(* Flush, run by the flush loop ("up", "closing") or by Close ("final").    *)

FlushCopy ==
    /\ Serving /\ phase # "closed"
    /\ pc = "idle"
    /\ dirty
    /\ copy' = Memory
    /\ dirty' = FALSE
    /\ pc' = "copied"
    /\ UNCHANGED <<maps, phase, disk, saveFailed>>

\* Seeded fault: the snapshot is written to s.path itself.
FlushWriteInPlace ==
    /\ pc = "copied"
    /\ disk' = Torn
    /\ pc' = "written"
    /\ UNCHANGED <<maps, dirty, phase, copy, saveFailed>>

\* The temporary file holds the copy from here on.  What a crash leaves in it
\* is never read: load opens s.path, and WriteFile truncates before it writes.
FlushWriteTmp ==
    /\ pc = "copied"
    /\ pc' = "written"
    /\ UNCHANGED <<maps, dirty, phase, copy, disk, saveFailed>>

\* Close returns after its own Flush, with or without an error.
EndOfFlush ==
    /\ pc' = "idle"
    /\ copy' = NoSnapshot
    /\ phase' = IF phase = "final" THEN "closed" ELSE phase

\* Seeded fault: dirty is cleared again when the file is in place.
FlushRenameClean ==
    /\ pc = "written"
    /\ disk' = copy
    /\ dirty' = FALSE
    /\ saveFailed' = "none"
    /\ EndOfFlush
    /\ UNCHANGED maps

FlushRename ==
    /\ pc = "written"
    /\ disk' = copy
    /\ saveFailed' = "none"
    /\ EndOfFlush
    /\ UNCHANGED <<maps, dirty>>

\* MkdirAll, WriteFile or Rename fails.  The copy is dropped and dirty is not
\* set again: the loop logs the error, Close returns it.
FlushFail ==
    /\ pc # "idle"
    /\ saveFailed' = IF phase = "final" THEN "final" ELSE "loop"
    /\ EndOfFlush
    /\ UNCHANGED <<maps, dirty, disk>>

-----------------------------------------------------------------------------
(* Close and the end of the process.                                        *)

BeginClose ==
    /\ phase = "up"
    /\ phase' = "closing"
    /\ UNCHANGED <<maps, dirty, file>>

\* The loop sees s.closing between two flushes; wg.Wait waits for it.
LoopStops ==
    /\ phase = "closing"
    /\ pc = "idle"
    /\ phase' = "final"
    /\ UNCHANGED <<maps, dirty, file>>

\* Close's Flush finds nothing dirty.
FlushNothing ==
    /\ phase = "final"
    /\ pc = "idle"
    /\ ~dirty
    /\ phase' = "closed"
    /\ UNCHANGED <<maps, dirty, file>>

\* The maps die with the process, the files stay as they are.
Halt ==
    /\ phase' = "down"
    /\ guests' = Empty.guests
    /\ reviews' = Empty.reviews
    /\ inquiries' = <<>>
    /\ stayKeys' = {}
    /\ docIndex' = [d \in Docs |-> Absent]
    /\ dirty' = FALSE
    /\ pc' = "idle"
    /\ copy' = NoSnapshot
    /\ saveFailed' = "none"
    /\ UNCHANGED disk

Exit  == phase = "closed" /\ Halt
Crash == Serving /\ phase # "closed" /\ Halt

-----------------------------------------------------------------------------
Write ==
    \/ \E g \in GuestIds, email \in Emails, docs \in SUBSET Docs :
           CreateGuest(g, email, docs)
    \/ \E g \in GuestIds, d \in Docs : AttachDocument(g, d)
    \/ \E r \in ReviewIds, g \in GuestIds, s \in Stays : CreateReview(r, g, s)
    \/ \E g \in GuestIds : RecordInquiry(g)

FlushProgress == FlushCopy \/ FlushWriteTmp \/ FlushRename
CloseProgress == LoopStops \/ FlushNothing \/ Exit

Next ==
    \/ Open \/ OpenSeeded
    \/ Write
    \/ FlushProgress \/ FlushFail
    \/ BeginClose \/ CloseProgress
    \/ Crash

Spec == Init /\ [][Next]_vars

\* The ticker keeps firing, and a started Flush runs on: each step of the loop
\* is taken unless the process dies or the disk refuses it.  Close likewise
\* runs to its end.  Nothing obliges a client to write or the disk to fail.
FairSpec ==
    /\ Spec
    /\ WF_vars(FlushProgress) /\ WF_vars(CloseProgress)

-----------------------------------------------------------------------------
(* Properties.                                                              *)

\* FR-010: no two stored reviews share a stay, in memory, in any snapshot on
\* its way to the disk, or on the disk, across every crash and restart.  The
\* guard is a separate set of keys that load has to rebuild.
OneReviewPerStay ==
    /\ OneReviewPerStayIn(Memory)
    /\ \A snap \in {copy, disk} \ {NoSnapshot, Torn} : OneReviewPerStayIn(snap)

\* A crash at any point leaves a file the next start can use: never torn, and
\* never a review without its guest, whatever was written while Flush was
\* between its copy and its rename.
DiskIsRestorable == disk # Torn /\ ReviewsHaveGuests(OnDisk)

\* If the file is behind the memory, then the store still knows: dirty is set,
\* or a flush is on its way, or a flush has failed.  A write that lands while
\* an older copy is being written must leave dirty set.
BehindIsFlagged ==
    Serving /\ OnDisk # Memory => dirty \/ pc # "idle" \/ saveFailed # "none"

\* The index resolves a document exactly when some file holds it, and then to
\* a file that does hold it: what check-in relies on after any mix of opening,
\* attaching, seeding and restarting.
IndexFindsHolder ==
    \A d \in Docs :
        LET holders == Holders(Memory, d)
        IN  IF holders = {} THEN docIndex[d] = Absent ELSE docIndex[d] \in holders

\* FR-013: what reached the file stays in it.  No later snapshot, of this
\* process or of one started after a crash, drops a file, a document of a
\* file, a review id or an entry of the inquiry log.
DiskOnlyGrows ==
    [][ /\ \A g \in GuestIds : Has(OnDisk.guests, g) =>
               /\ Has(OnDisk'.guests, g)
               /\ OnDisk.guests[g].docs \subseteq OnDisk'.guests[g].docs
        /\ \A r \in ReviewIds : Has(OnDisk.reviews, r) => Has(OnDisk'.reviews, r)
        /\ IsPrefix(OnDisk.inquiries, OnDisk'.inquiries) ]_vars

\* A stored review reaches the file unless the process goes down or a flush
\* fails first, however many writes keep arriving.
StoredReviewReachesDisk ==
    \A r \in ReviewIds :
        (Serving /\ phase = "up" /\ Has(reviews, r))
            ~> (Has(OnDisk.reviews, r) \/ phase # "up" \/ saveFailed # "none")

\* Close's comment (store.go:193): it "writes a final snapshot".  Once Close
\* is over, with no late write and its own flush not refused by the disk, the
\* file holds what the memory held.
CloseLeavesFinalSnapshot ==
    phase = "closed" /\ ~dirty /\ saveFailed # "final" => OnDisk = Memory
=============================================================================
