--------------------------- MODULE FileStoreProofs ---------------------------
(***************************************************************************)
(* The safety of FileStore for every set of guests, documents, reviews and *)
(* stays, proved from one inductive invariant.                             *)
(***************************************************************************)
EXTENDS FileStore, WellFoundedInduction, TLAPS

\* A snapshot that may become the memory of a later process.
Sound(snap) ==
    /\ snap \in Snapshot
    /\ OneReviewPerStayIn(snap)
    /\ ReviewsHaveGuests(snap)

\* The guard of CreateReview knows of every stored review.
KeysCoverReviews ==
    \A r \in ReviewIds : Has(reviews, r) => reviews[r].stay \in stayKeys

\* What the running Flush has copied, and when the file is up to date.
FlushTracksMemory ==
    /\ pc # "idle" => Serving /\ copy \in Snapshot
    /\ pc # "idle" /\ ~dirty => copy = Memory
    /\ Serving /\ pc = "idle" /\ ~dirty /\ saveFailed = "none" => OnDisk = Memory

\* Nothing in one snapshot is missing from a later one.
Extends(old, new) ==
    /\ \A g \in GuestIds : Has(old.guests, g) =>
           Has(new.guests, g) /\ old.guests[g].docs \subseteq new.guests[g].docs
    /\ \A r \in ReviewIds : Has(old.reviews, r) => Has(new.reviews, r)
    /\ IsPrefix(old.inquiries, new.inquiries)

\* The file is behind the copy of the running Flush, and the copy behind the
\* memory: a flush cannot take anything back.
DiskCopyMemory ==
    /\ Serving => Extends(OnDisk, Memory)
    /\ pc # "idle" => Extends(OnDisk, copy) /\ Extends(copy, Memory)

\* Inductive: the memory and both snapshots are sound, the stay keys cover the
\* reviews, and the flags say whether the file is behind.
IInv ==
    /\ TypeOK
    /\ Sound(Memory)
    /\ copy # NoSnapshot => Sound(copy)
    /\ disk # NoSnapshot => Sound(disk)
    /\ KeysCoverReviews
    /\ FlushTracksMemory
-----------------------------------------------------------------------------
(* Loading a snapshot.                                                      *)

\* A nonempty set of guest ids has a greatest one: the index load builds is
\* well defined.
LEMMA GreatestId ==
    ASSUME NEW S \in SUBSET GuestIds, S # {}
    PROVE  \E g \in S : \A h \in S : h <= g
<1>1. PICK n \in Nat : \A g \in GuestIds : g <= n
  BY IdAssumption
<1> DEFINE T == {n - g : g \in S}
<1>2. T \subseteq Nat /\ T # {}
  <2>1. \A g \in S : n - g \in Nat
    BY <1>1, IdAssumption
  <2>2. PICK g \in S : TRUE
    OBVIOUS
  <2>3. n - g \in T
    OBVIOUS
  <2> QED BY <2>1, <2>3
<1>3. IsWellFoundedOn(OpToRel(<, Nat), Nat)
  BY NatLessThanWellFounded
<1>4. PICK x \in T : \A y \in T : ~ (<<y, x>> \in OpToRel(<, Nat))
  <2> HIDE DEF T
  <2> QED BY <1>2, <1>3, WFMin
<1>5. \A y \in T : x <= y
  <2> TAKE y \in T
  <2>1. ~ (y < x)
    <3> HIDE DEF T
    <3> QED BY <1>2, <1>4 DEF OpToRel
  <2> QED BY <2>1, <1>2
<1>6. PICK g \in S : x = n - g
  OBVIOUS
<1>7. \A h \in S : h <= g
  <2> TAKE h \in S
  <2>1. n - g <= n - h
    BY <1>5, <1>6
  <2> QED BY <2>1, IdAssumption
<1> QED BY <1>7

LEMMA IndexType ==
    ASSUME NEW snap \in Snapshot
    PROVE  IndexOf(snap) \in [Docs -> GuestIds \cup {Absent}]
<1> SUFFICES ASSUME NEW d \in Docs, Holders(snap, d) # {}
             PROVE  LastHolder(snap, d) \in GuestIds
  BY DEF IndexOf
<1>1. Holders(snap, d) \in SUBSET GuestIds
  BY DEF Holders
<1>2. \E g \in Holders(snap, d) : \A h \in Holders(snap, d) : h <= g
  BY <1>1, GreatestId
<1>3. LastHolder(snap, d) \in Holders(snap, d)
  BY <1>2 DEF LastHolder
<1> QED BY <1>1, <1>3

\* What load rebuilds from a sound snapshot.
LEMMA LoadSound ==
    ASSUME NEW snap, Sound(snap), Load(snap)
    PROVE  /\ Memory' = snap
           /\ Sound(Memory)' /\ KeysCoverReviews'
           /\ guests' \in [GuestIds -> Guest \cup {Absent}]
           /\ reviews' \in [ReviewIds -> Review \cup {Absent}]
           /\ inquiries' \in Seq(GuestIds)
           /\ stayKeys' \subseteq Stays
           /\ docIndex' \in [Docs -> GuestIds \cup {Absent}]
<1>1. Memory' = snap
  BY DEF Load, Memory, Sound, Snapshot
<1>2. Sound(Memory')
  BY <1>1
<1>3. \A r \in ReviewIds : Has(snap.reviews, r) =>
          snap.reviews[r] \in Review /\ snap.reviews[r].stay \in StaysOf(snap)
  BY DEF Sound, Snapshot, Has, StaysOf
<1>4. StaysOf(snap) \subseteq Stays
  BY <1>3 DEF StaysOf, Review
<1>5. KeysCoverReviews'
  BY <1>3 DEF Load, KeysCoverReviews
<1> QED
  BY <1>1, <1>2, <1>4, <1>5, IndexType DEF Load, Sound, Snapshot

LEMMA EmptySound == Sound(Empty)
<1>1. Empty \in Snapshot
  BY DEF Empty, Snapshot
<1> QED
  BY <1>1 DEF Sound, Empty, OneReviewPerStayIn, ReviewsHaveGuests, Has

LEMMA OnDiskSound == IInv /\ disk # Torn => Sound(OnDisk)
BY EmptySound DEF IInv, OnDisk

-----------------------------------------------------------------------------
(* The invariant is established and kept.                                   *)

LEMMA InitInv == Init => IInv
<1> SUFFICES ASSUME Init PROVE IInv
  OBVIOUS
<1>1. Memory = Empty
  BY DEF Init, Memory, Empty
<1>2. TypeOK
  <2>1. <<>> \in Seq(GuestIds)
    OBVIOUS
  <2>2. /\ Empty.guests \in [GuestIds -> Guest \cup {Absent}]
        /\ Empty.reviews \in [ReviewIds -> Review \cup {Absent}]
    BY DEF Empty
  <2> QED BY <2>1, <2>2 DEF Init, TypeOK
<1>3. KeysCoverReviews /\ FlushTracksMemory
  BY DEF Init, KeysCoverReviews, FlushTracksMemory, Empty, Has, Serving
<1> QED
  BY <1>1, <1>2, <1>3, EmptySound DEF IInv, Init

LEMMA OpenInv ==
    ASSUME IInv, Open PROVE IInv'
<1>1. Sound(OnDisk)
  BY OnDiskSound DEF Open
<1>2. /\ Memory' = OnDisk /\ OnDisk' = OnDisk
      /\ Sound(Memory)' /\ KeysCoverReviews'
  BY <1>1, LoadSound DEF Open, OnDisk, Empty
<1>3. TypeOK'
  BY <1>1, LoadSound DEF Open, IInv, TypeOK
<1>4. FlushTracksMemory'
  BY <1>2 DEF IInv, FlushTracksMemory, Serving, Open
<1> QED
  BY <1>2, <1>3, <1>4 DEF IInv, Open

LEMMA OpenSeededInv ==
    ASSUME IInv, OpenSeeded PROVE IInv'
<1> DEFINE snap == Seeded(OnDisk)
<1>1. Sound(OnDisk)
  BY OnDiskSound DEF OpenSeeded
<1>2. snap \in Snapshot
  BY <1>1, SeedAssumption DEF Sound, Snapshot, Seeded
<1>3. Sound(snap)
  BY <1>2, SeedAssumption
  DEF Sound, Snapshot, Seeded, OneReviewPerStayIn, ReviewsHaveGuests
<1>4. Load(snap)
  BY DEF OpenSeeded
<1> HIDE DEF snap
<1>5. Sound(Memory)' /\ KeysCoverReviews'
  BY <1>3, <1>4, LoadSound
<1>6. TypeOK'
  BY <1>3, <1>4, LoadSound DEF OpenSeeded, IInv, TypeOK
<1>7. FlushTracksMemory'
  BY DEF IInv, FlushTracksMemory, Serving, OpenSeeded
<1> QED
  BY <1>5, <1>6, <1>7 DEF IInv, OpenSeeded
LEMMA WriteInv ==
    ASSUME IInv, Write PROVE IInv'
<1> USE DEF IInv
<1>1. ASSUME NEW g \in GuestIds, NEW email \in Emails, NEW docs \in SUBSET Docs,
             CreateGuest(g, email, docs)
      PROVE  IInv'
  <2> USE <1>1 DEF CreateGuest, file
  <2>1. [email |-> email, docs |-> docs] \in Guest
    BY DEF Guest
  <2>2. TypeOK'
    BY <2>1 DEF TypeOK
  <2>3. \A h \in GuestIds : Has(guests, h) => Has(guests', h)
    BY <2>1, AbsentAssumption DEF TypeOK, Has
  <2>4. Sound(Memory)'
    BY <2>2, <2>3 DEF Sound, Snapshot, Memory, TypeOK, OneReviewPerStayIn,
                      ReviewsHaveGuests, Has, Review
  <2>5. KeysCoverReviews' /\ FlushTracksMemory'
    BY DEF KeysCoverReviews, FlushTracksMemory, Serving
  <2> QED BY <2>2, <2>4, <2>5
<1>2. ASSUME NEW g \in GuestIds, NEW d \in Docs, AttachDocument(g, d)
      PROVE  IInv'
  <2> USE <1>2 DEF AttachDocument, file
  <2>1. guests[g] \in Guest
    BY DEF TypeOK, Has
  <2>2. [guests[g] EXCEPT !.docs = @ \cup {d}] \in Guest
    BY <2>1 DEF Guest
  <2>3. guests' = [guests EXCEPT ![g] = [guests[g] EXCEPT !.docs = @ \cup {d}]]
    OBVIOUS
  <2>4. TypeOK'
    BY <2>2, <2>3 DEF TypeOK
  <2>5. \A h \in GuestIds : Has(guests, h) => Has(guests', h)
    BY <2>2, <2>3, AbsentAssumption DEF TypeOK, Has
  <2>6. Sound(Memory)'
    BY <2>4, <2>5 DEF Sound, Snapshot, Memory, TypeOK, OneReviewPerStayIn,
                      ReviewsHaveGuests, Has, Review
  <2>7. KeysCoverReviews' /\ FlushTracksMemory'
    BY DEF KeysCoverReviews, FlushTracksMemory, Serving
  <2> QED BY <2>4, <2>6, <2>7
<1>3. ASSUME NEW r \in ReviewIds, NEW g \in GuestIds, NEW s \in Stays,
             CreateReview(r, g, s)
      PROVE  IInv'
  <2> USE <1>3 DEF CreateReview, file
  <2> DEFINE new == [guest |-> g, stay |-> s]
  <2>1. new \in Review /\ new.guest = g /\ new.stay = s
    BY DEF Review
  <2>2. reviews' = [reviews EXCEPT ![r] = new]
    OBVIOUS
  <2> HIDE DEF new
  <2>3. TypeOK'
    BY <2>1, <2>2 DEF TypeOK
  <2>4. \A q \in ReviewIds :
            reviews'[q] = IF q = r THEN new ELSE reviews[q]
    BY <2>2 DEF TypeOK
  <2>5. KeysCoverReviews'
    BY <2>1, <2>4 DEF KeysCoverReviews, Has
  \* The new stay is not among the keys, so it is the stay of no old review.
  <2>6. OneReviewPerStayIn(Memory)'
    BY <2>1, <2>4 DEF KeysCoverReviews, Sound, OneReviewPerStayIn, Memory, Has
  <2>7. ReviewsHaveGuests(Memory)'
    BY <2>1, <2>4 DEF Sound, ReviewsHaveGuests, Memory, Has
  <2>8. Sound(Memory)'
    BY <2>3, <2>6, <2>7 DEF Sound, Snapshot, Memory, TypeOK
  <2>9. FlushTracksMemory'
    BY DEF FlushTracksMemory, Serving
  <2> QED BY <2>3, <2>5, <2>8, <2>9
<1>4. ASSUME NEW g \in GuestIds, RecordInquiry(g)
      PROVE  IInv'
  <2> USE <1>4 DEF RecordInquiry, file
  <2>1. TypeOK'
    BY DEF TypeOK
  <2>2. Sound(Memory)'
    BY <2>1 DEF Sound, Snapshot, Memory, TypeOK, OneReviewPerStayIn,
                ReviewsHaveGuests
  <2>3. KeysCoverReviews' /\ FlushTracksMemory'
    BY DEF KeysCoverReviews, FlushTracksMemory, Serving
  <2> QED BY <2>1, <2>2, <2>3
<1> QED
  BY <1>1, <1>2, <1>3, <1>4 DEF Write

\* A flush replaces the file by what it copied; a failed one leaves the file
\* and the mark of the failure.
LEMMA FlushInv ==
    ASSUME IInv, FlushProgress \/ FlushFail PROVE IInv'
<1> USE DEF IInv
<1>1. UNCHANGED maps
  BY DEF FlushProgress, FlushCopy, FlushWriteTmp, FlushRename, FlushFail
<1>2. Memory' = Memory /\ KeysCoverReviews'
  BY <1>1 DEF maps, Memory, KeysCoverReviews
<1>3. Memory \in Snapshot
  BY DEF Sound
<1>4. CASE FlushCopy
  <2>1. TypeOK'
    BY <1>1, <1>3, <1>4 DEF FlushCopy, maps, TypeOK
  <2>2. FlushTracksMemory'
    BY <1>2, <1>3, <1>4 DEF FlushCopy, FlushTracksMemory, Serving
  <2> QED BY <1>2, <1>4, <2>1, <2>2 DEF FlushCopy
<1>5. CASE FlushWriteTmp
  <2>1. TypeOK'
    BY <1>1, <1>5 DEF FlushWriteTmp, maps, TypeOK
  <2>2. FlushTracksMemory'
    BY <1>2, <1>5 DEF FlushWriteTmp, FlushTracksMemory, Serving
  <2> QED BY <1>2, <1>5, <2>1, <2>2 DEF FlushWriteTmp
<1>6. CASE FlushRename
  <2>1. copy \in Snapshot /\ copy # NoSnapshot
    BY <1>6, FileAssumption DEF FlushRename, FlushTracksMemory
  <2>2. TypeOK'
    BY <1>1, <1>6, <2>1 DEF FlushRename, EndOfFlush, maps, TypeOK
  <2>3. OnDisk' = copy
    BY <1>6, <2>1 DEF FlushRename, OnDisk
  <2>4. FlushTracksMemory'
    BY <1>2, <1>6, <2>3
    DEF FlushRename, EndOfFlush, FlushTracksMemory, Serving
  <2> QED BY <1>2, <1>6, <2>1, <2>2, <2>4 DEF FlushRename, EndOfFlush
<1>7. CASE FlushFail
  <2>1. TypeOK'
    BY <1>1, <1>7 DEF FlushFail, EndOfFlush, maps, TypeOK
  <2>2. FlushTracksMemory'
    BY <1>2, <1>7 DEF FlushFail, EndOfFlush, FlushTracksMemory, Serving
  <2> QED BY <1>2, <1>7, <2>1, <2>2 DEF FlushFail, EndOfFlush
<1> QED
  BY <1>4, <1>5, <1>6, <1>7 DEF FlushProgress

LEMMA CloseInv ==
    ASSUME IInv, BeginClose \/ LoopStops \/ FlushNothing PROVE IInv'
<1> USE DEF IInv, file
<1>1. UNCHANGED <<maps, dirty, file>>
  BY DEF BeginClose, LoopStops, FlushNothing
<1>2. Memory' = Memory /\ OnDisk' = OnDisk /\ KeysCoverReviews'
  BY <1>1 DEF maps, Memory, OnDisk, KeysCoverReviews
<1>3. TypeOK'
  BY <1>1 DEF BeginClose, LoopStops, FlushNothing, maps, TypeOK
<1>4. Serving /\ Serving'
  BY DEF BeginClose, LoopStops, FlushNothing, Serving
<1>5. FlushTracksMemory'
  BY <1>1, <1>2, <1>4 DEF FlushTracksMemory
<1> QED BY <1>1, <1>2, <1>3, <1>5

LEMMA HaltInv ==
    ASSUME IInv, Exit \/ Crash PROVE IInv'
<1> USE DEF IInv
<1>1. Halt
  BY DEF Exit, Crash
<1>2. Memory' = Empty
  BY <1>1 DEF Halt, Memory, Empty
<1>3. TypeOK'
  <2>1. <<>> \in Seq(GuestIds)
    OBVIOUS
  <2>2. /\ Empty.guests \in [GuestIds -> Guest \cup {Absent}]
        /\ Empty.reviews \in [ReviewIds -> Review \cup {Absent}]
    BY DEF Empty
  <2> QED BY <1>1, <2>1, <2>2 DEF Halt, TypeOK
<1>4. KeysCoverReviews' /\ FlushTracksMemory'
  BY <1>1 DEF Halt, KeysCoverReviews, FlushTracksMemory, Serving, Empty, Has
<1> QED
  BY <1>1, <1>2, <1>3, <1>4, EmptySound DEF Halt

LEMMA NextInv == IInv /\ [Next]_vars => IInv'
<1>1. ASSUME IInv, UNCHANGED vars PROVE IInv'
  BY <1>1
  DEF vars, maps, file, IInv, TypeOK, Sound, Snapshot, Memory, OneReviewPerStayIn,
      ReviewsHaveGuests, KeysCoverReviews, FlushTracksMemory, Serving, OnDisk, Has
<1>2. ASSUME IInv, Next PROVE IInv'
  BY <1>2, OpenInv, OpenSeededInv, WriteInv, FlushInv, CloseInv, HaltInv
  DEF Next, CloseProgress
<1> QED BY <1>1, <1>2

-----------------------------------------------------------------------------
(* The document index.                                                      *)

LEMMA HolderIsGreatest ==
    ASSUME NEW snap, NEW d, Holders(snap, d) # {}
    PROVE  LastHolder(snap, d) \in Holders(snap, d)
<1>1. Holders(snap, d) \in SUBSET GuestIds
  BY DEF Holders
<1>2. \E g \in Holders(snap, d) : \A h \in Holders(snap, d) : h <= g
  BY <1>1, GreatestId
<1> QED BY <1>2 DEF LastHolder

LEMMA LoadIndexes ==
    ASSUME NEW snap, Memory' = snap, Load(snap)
    PROVE  IndexFindsHolder'
<1> SUFFICES ASSUME NEW d \in Docs
             PROVE  IF Holders(snap, d) = {} THEN docIndex'[d] = Absent
                    ELSE docIndex'[d] \in Holders(snap, d)
  BY DEF IndexFindsHolder
<1>1. docIndex'[d] = IF Holders(snap, d) = {} THEN Absent ELSE LastHolder(snap, d)
  BY DEF Load, IndexOf
<1> QED BY <1>1, HolderIsGreatest

\* A guest file that stays as it is holds what it held.
LEMMA IndexKept ==
    ASSUME IndexFindsHolder, guests' = guests, docIndex' = docIndex
    PROVE  IndexFindsHolder'
BY DEF IndexFindsHolder, Holders, Memory

LEMMA NextIndex == IInv /\ IndexFindsHolder /\ [Next]_vars => IndexFindsHolder'
<1> SUFFICES ASSUME IInv, IndexFindsHolder, [Next]_vars PROVE IndexFindsHolder'
  OBVIOUS
<1>1. CASE Open
  BY <1>1, OnDiskSound, LoadSound, LoadIndexes DEF Open
<1>2. CASE OpenSeeded
  <2>1. Sound(OnDisk)
    BY <1>2, OnDiskSound DEF OpenSeeded
  <2>2. Memory' = Seeded(OnDisk)
    BY <1>2 DEF OpenSeeded, Load, Memory, Seeded
  <2> QED BY <1>2, <2>2, LoadIndexes DEF OpenSeeded
<1>3. ASSUME NEW g \in GuestIds, NEW email \in Emails, NEW docs \in SUBSET Docs,
             CreateGuest(g, email, docs)
      PROVE  IndexFindsHolder'
  <2>1. /\ guests' = [guests EXCEPT ![g] = [email |-> email, docs |-> docs]]
        /\ guests \in [GuestIds -> Guest \cup {Absent}] /\ guests[g] = Absent
    BY <1>3 DEF CreateGuest, IInv, TypeOK, Has
  <2>2. [email |-> email, docs |-> docs] # Absent
    BY AbsentAssumption DEF Guest
  <2>3. \A d \in Docs : Holders(Memory, d)' =
            IF d \in docs THEN Holders(Memory, d) \cup {g} ELSE Holders(Memory, d)
    BY <2>1, <2>2 DEF Holders, Memory, Has
  <2>4. \A d \in Docs : docIndex'[d] = IF d \in docs THEN g ELSE docIndex[d]
    BY <1>3 DEF CreateGuest
  <2> QED BY <2>3, <2>4 DEF IndexFindsHolder
<1>4. ASSUME NEW g \in GuestIds, NEW d \in Docs, AttachDocument(g, d)
      PROVE  IndexFindsHolder'
  <2>1. /\ guests' = [guests EXCEPT ![g].docs = @ \cup {d}]
        /\ guests \in [GuestIds -> Guest \cup {Absent}] /\ guests[g] \in Guest
        /\ docIndex \in [Docs -> GuestIds \cup {Absent}]
        /\ docIndex' = [docIndex EXCEPT ![d] = g]
    BY <1>4 DEF AttachDocument, IInv, TypeOK, Has
  <2>2. /\ guests'[g].docs = guests[g].docs \cup {d} /\ guests'[g] # Absent
        /\ \A h \in GuestIds \ {g} : guests'[h] = guests[h]
    BY <2>1, AbsentAssumption DEF Guest
  <2>3. \A c \in Docs : Holders(Memory, c)' =
            IF c = d THEN Holders(Memory, c) \cup {g} ELSE Holders(Memory, c)
    BY <2>1, <2>2, AbsentAssumption DEF Holders, Memory, Has
  <2>4. \A c \in Docs : docIndex'[c] = IF c = d THEN g ELSE docIndex[c]
    BY <2>1
  <2> QED BY <2>3, <2>4 DEF IndexFindsHolder
<1>5. ASSUME NEW r \in ReviewIds, NEW g \in GuestIds, NEW s \in Stays,
             CreateReview(r, g, s)
      PROVE  IndexFindsHolder'
  BY <1>5, IndexKept DEF CreateReview
<1>6. ASSUME NEW g \in GuestIds, RecordInquiry(g)
      PROVE  IndexFindsHolder'
  BY <1>6, IndexKept DEF RecordInquiry
<1>7. CASE FlushProgress \/ FlushFail
  BY <1>7, IndexKept
  DEF FlushProgress, FlushCopy, FlushWriteTmp, FlushRename, FlushFail, maps
<1>8. CASE BeginClose \/ LoopStops \/ FlushNothing
  BY <1>8, IndexKept DEF BeginClose, LoopStops, FlushNothing, maps
<1>9. CASE Exit \/ Crash
  <2>1. guests' = [g \in GuestIds |-> Absent] /\ docIndex' = [d \in Docs |-> Absent]
    BY <1>9 DEF Exit, Crash, Halt, Empty
  <2> QED BY <2>1 DEF IndexFindsHolder, Holders, Memory, Has
<1>10. CASE UNCHANGED vars
  BY <1>10, IndexKept DEF vars, maps
<1> QED BY <1>1, <1>2, <1>3, <1>4, <1>5, <1>6, <1>7, <1>8, <1>9, <1>10
        DEF Next, Write, CloseProgress

LEMMA InitIndex == Init => IndexFindsHolder
BY DEF Init, Empty, IndexFindsHolder, Holders, Memory, Has

-----------------------------------------------------------------------------
(* Snapshots only grow.                                                     *)

LEMMA Prefix ==
    ASSUME NEW S, NEW s \in Seq(S), NEW t \in Seq(S)
    PROVE  IsPrefix(s, t) <=>
               Len(s) <= Len(t) /\ \A i \in 1..Len(s) : s[i] = t[i]
BY DEF IsPrefix

LEMMA ExtendsItself ==
    ASSUME NEW a \in Snapshot
    PROVE  Extends(a, a)
BY DEF Extends, IsPrefix, Snapshot

LEMMA ExtendsOn ==
    ASSUME NEW a \in Snapshot, NEW b \in Snapshot, NEW c \in Snapshot,
           Extends(a, b), Extends(b, c)
    PROVE  Extends(a, c)
<1>1. /\ a.inquiries \in Seq(GuestIds) /\ b.inquiries \in Seq(GuestIds)
      /\ c.inquiries \in Seq(GuestIds)
  BY DEF Snapshot
<1>2. IsPrefix(a.inquiries, b.inquiries) /\ IsPrefix(b.inquiries, c.inquiries)
  BY DEF Extends
<1>3. IsPrefix(a.inquiries, c.inquiries)
  <2>1. /\ Len(a.inquiries) <= Len(b.inquiries) /\ Len(b.inquiries) <= Len(c.inquiries)
        /\ \A i \in 1..Len(a.inquiries) : a.inquiries[i] = b.inquiries[i]
        /\ \A i \in 1..Len(b.inquiries) : b.inquiries[i] = c.inquiries[i]
    BY <1>1, <1>2, Prefix
  <2>2. /\ Len(a.inquiries) <= Len(c.inquiries)
        /\ \A i \in 1..Len(a.inquiries) : a.inquiries[i] = c.inquiries[i]
    BY <1>1, <2>1
  <2> QED BY <1>1, <2>2, Prefix
<1> QED BY <1>3 DEF Extends

\* A write adds to the memory and takes nothing away.
LEMMA WriteExtends ==
    ASSUME IInv, Write
    PROVE  Extends(Memory, Memory')
<1>1. Memory \in Snapshot /\ inquiries \in Seq(GuestIds)
  BY DEF IInv, Sound, TypeOK
<1>2. IsPrefix(inquiries, inquiries)
  BY <1>1 DEF IsPrefix
<1>3. ASSUME NEW g \in GuestIds, NEW email \in Emails, NEW docs \in SUBSET Docs,
             CreateGuest(g, email, docs)
      PROVE  Extends(Memory, Memory')
  <2>1. /\ guests' = [guests EXCEPT ![g] = [email |-> email, docs |-> docs]]
        /\ reviews' = reviews /\ inquiries' = inquiries /\ guests[g] = Absent
    BY <1>3 DEF CreateGuest, Has
  <2>2. \A h \in GuestIds : Has(guests, h) => guests'[h] = guests[h]
    BY <2>1 DEF IInv, TypeOK, Has
  <2> QED BY <1>2, <2>1, <2>2 DEF Extends, Memory, Has
<1>4. ASSUME NEW g \in GuestIds, NEW d \in Docs, AttachDocument(g, d)
      PROVE  Extends(Memory, Memory')
  <2>1. /\ guests' = [guests EXCEPT ![g].docs = @ \cup {d}]
        /\ guests \in [GuestIds -> Guest \cup {Absent}] /\ guests[g] \in Guest
        /\ reviews' = reviews /\ inquiries' = inquiries
    BY <1>4 DEF AttachDocument, IInv, TypeOK, Has
  <2>2. /\ guests'[g].docs = guests[g].docs \cup {d}
        /\ guests'[g] \in Guest
        /\ \A h \in GuestIds \ {g} : guests'[h] = guests[h]
    BY <2>1 DEF Guest
  <2>3. \A h \in GuestIds : Has(guests, h) =>
            Has(guests', h) /\ guests[h].docs \subseteq guests'[h].docs
    BY <2>2, AbsentAssumption DEF Has
  <2> QED BY <1>2, <2>1, <2>3 DEF Extends, Memory
<1>5. ASSUME NEW r \in ReviewIds, NEW g \in GuestIds, NEW s \in Stays,
             CreateReview(r, g, s)
      PROVE  Extends(Memory, Memory')
  <2>1. [guest |-> g, stay |-> s] # Absent
    BY AbsentAssumption DEF Review
  <2>2. \A q \in ReviewIds : Has(reviews, q) => Has(reviews', q)
    BY <1>5, <2>1 DEF CreateReview, IInv, TypeOK, Has
  <2>3. guests' = guests /\ inquiries' = inquiries
    BY <1>5 DEF CreateReview
  <2> QED BY <1>2, <2>2, <2>3 DEF Extends, Memory
<1>6. ASSUME NEW g \in GuestIds, RecordInquiry(g)
      PROVE  Extends(Memory, Memory')
  <2>1. guests' = guests /\ reviews' = reviews /\ inquiries' = Append(inquiries, g)
    BY <1>6 DEF RecordInquiry
  <2>2. IsPrefix(inquiries, inquiries')
    <3>1. /\ inquiries' \in Seq(GuestIds) /\ Len(inquiries') = Len(inquiries) + 1
          /\ \A i \in 1..Len(inquiries) : inquiries'[i] = inquiries[i]
      BY <1>1, <2>1
    <3> QED BY <1>1, <3>1, Prefix
  <2> QED BY <2>1, <2>2 DEF Extends, Memory
<1> QED BY <1>3, <1>4, <1>5, <1>6 DEF Write

\* A store with no guests has no reviews either: the seed is written over
\* nothing but the inquiry log, which it keeps.
LEMMA SeedExtends ==
    ASSUME IInv, disk # Torn, IsEmpty(OnDisk)
    PROVE  Extends(OnDisk, Seeded(OnDisk))
<1>1. Sound(OnDisk)
  BY OnDiskSound
<1>2. /\ OnDisk.reviews \in [ReviewIds -> Review \cup {Absent}]
      /\ OnDisk.inquiries \in Seq(GuestIds)
  BY <1>1 DEF Sound, Snapshot
<1>3. \A r \in ReviewIds : ~Has(OnDisk.reviews, r)
  BY <1>1, <1>2 DEF Sound, ReviewsHaveGuests, IsEmpty, Has, Review
<1>4. IsPrefix(OnDisk.inquiries, OnDisk.inquiries)
  BY <1>2 DEF IsPrefix
<1> QED BY <1>3, <1>4 DEF Extends, IsEmpty, Seeded

LEMMA Snapshots ==
    ASSUME IInv
    PROVE  /\ disk # Torn /\ OnDisk \in Snapshot /\ Memory \in Snapshot
           /\ pc # "idle" => Serving /\ copy \in Snapshot
<1>1. disk # Torn
  BY FileAssumption DEF IInv, Sound
<1> QED BY <1>1, OnDiskSound DEF IInv, Sound, FlushTracksMemory

\* The file is only ever replaced by what extends it, and the copies and the
\* memory keep extending it.
LEMMA NextExtends ==
    IInv /\ DiskCopyMemory /\ [Next]_vars =>
        DiskCopyMemory' /\ Extends(OnDisk, OnDisk')
<1> SUFFICES ASSUME IInv, DiskCopyMemory, [Next]_vars
             PROVE  DiskCopyMemory' /\ Extends(OnDisk, OnDisk')
  OBVIOUS
<1>1. /\ disk # Torn /\ OnDisk \in Snapshot /\ Memory \in Snapshot
      /\ pc # "idle" => Serving /\ copy \in Snapshot
      /\ Memory' \in Snapshot
  BY Snapshots, NextInv DEF IInv, Sound
<1>2. Extends(OnDisk, OnDisk)
  BY <1>1, ExtendsItself
<1>3. CASE Open
  <2>1. OnDisk' = OnDisk /\ pc' = "idle"
    <3>1. disk' = disk /\ phase = "down" /\ pc' = pc
      BY <1>3 DEF Open
    <3> QED BY <1>1, <3>1 DEF OnDisk, Empty, Serving
  <2>2. Memory' = OnDisk
    <3>1. Sound(OnDisk) /\ Load(OnDisk)
      BY <1>1, <1>3, OnDiskSound DEF Open
    <3> QED BY <3>1, LoadSound
  <2> QED BY <1>2, <2>1, <2>2 DEF DiskCopyMemory
<1>4. CASE OpenSeeded
  <2>1. /\ Memory' = Seeded(OnDisk) /\ OnDisk' = OnDisk /\ pc' = "idle"
        /\ Extends(OnDisk, Seeded(OnDisk))
    BY <1>1, <1>4, SeedExtends
    DEF OpenSeeded, OnDisk, Empty, Serving, Load, Memory, Seeded
  <2> QED BY <1>2, <2>1 DEF DiskCopyMemory
<1>5. CASE Write
  <2>1. /\ OnDisk' = OnDisk /\ pc' = pc /\ copy' = copy /\ Serving
        /\ Serving' = Serving
    BY <1>5 DEF Write, CreateGuest, AttachDocument, CreateReview, RecordInquiry,
                file, OnDisk, Empty, Serving
  <2>2. Extends(Memory, Memory')
    BY <1>5, WriteExtends
  <2>3. Extends(OnDisk, Memory')
    BY <1>1, <2>1, <2>2, ExtendsOn DEF DiskCopyMemory
  <2>4. pc # "idle" => Extends(copy, Memory')
    BY <1>1, <2>2, ExtendsOn DEF DiskCopyMemory
  <2> QED BY <1>2, <2>1, <2>3, <2>4 DEF DiskCopyMemory
<1>6. CASE FlushCopy
  <2>1. /\ OnDisk' = OnDisk /\ Memory' = Memory /\ copy' = Memory /\ Serving
    BY <1>6 DEF FlushCopy, maps, OnDisk, Empty, Memory
  <2> QED BY <1>1, <1>2, <2>1, ExtendsItself DEF DiskCopyMemory
<1>7. CASE FlushWriteTmp
  <2>1. /\ OnDisk' = OnDisk /\ Memory' = Memory /\ copy' = copy /\ pc # "idle"
        /\ Serving' = Serving
    BY <1>7 DEF FlushWriteTmp, maps, OnDisk, Empty, Memory, Serving
  <2> QED BY <1>2, <2>1 DEF DiskCopyMemory
<1>8. CASE FlushRename
  <2>1. /\ OnDisk' = copy /\ Memory' = Memory /\ pc # "idle" /\ pc' = "idle"
    BY <1>1, <1>8, FileAssumption DEF FlushRename, EndOfFlush, maps, OnDisk, Memory
  <2> QED BY <2>1 DEF DiskCopyMemory
<1>9. CASE FlushFail
  <2>1. /\ OnDisk' = OnDisk /\ Memory' = Memory /\ pc # "idle" /\ pc' = "idle"
    BY <1>9 DEF FlushFail, EndOfFlush, maps, OnDisk, Empty, Memory
  <2> QED BY <1>1, <1>2, <2>1 DEF DiskCopyMemory
<1>10. CASE BeginClose \/ LoopStops \/ FlushNothing
  <2>1. /\ OnDisk' = OnDisk /\ Memory' = Memory /\ copy' = copy /\ pc' = pc
        /\ Serving
    BY <1>10 DEF BeginClose, LoopStops, FlushNothing, maps, file, OnDisk, Empty,
                 Memory, Serving
  <2> QED BY <1>2, <2>1 DEF DiskCopyMemory
<1>11. CASE Exit \/ Crash
  <2>1. OnDisk' = OnDisk /\ pc' = "idle" /\ ~Serving'
    BY <1>11 DEF Exit, Crash, Halt, OnDisk, Empty, Serving
  <2> QED BY <1>2, <2>1 DEF DiskCopyMemory
<1>12. CASE UNCHANGED vars
  <2>1. /\ OnDisk' = OnDisk /\ Memory' = Memory /\ copy' = copy /\ pc' = pc
        /\ Serving' = Serving
    BY <1>12 DEF vars, maps, file, OnDisk, Empty, Memory, Serving
  <2> QED BY <1>2, <2>1 DEF DiskCopyMemory
<1> QED BY <1>3, <1>4, <1>5, <1>6, <1>7, <1>8, <1>9, <1>10, <1>11, <1>12
        DEF Next, FlushProgress, CloseProgress

-----------------------------------------------------------------------------
(* The theorems.                                                            *)

\* Every reachable state satisfies the inductive invariant.
THEOREM Invariance == Spec => []IInv
BY InitInv, NextInv, PTL DEF Spec

\* The variables keep their types; in particular the index only ever names
\* guest ids, also after load has rebuilt it from documents held twice.
THEOREM TypeCorrect == Spec => []TypeOK
<1>1. IInv => TypeOK
  BY DEF IInv
<1> QED BY <1>1, Invariance, PTL

\* FR-010 across crashes and restarts: CreateReview's guard reads a set of
\* keys, and the keys cover the reviews in every reachable state.
THEOREM StayReviewedOnce == Spec => []OneReviewPerStay
<1>1. IInv => OneReviewPerStay
  BY DEF IInv, OneReviewPerStay, Sound
<1> QED BY <1>1, Invariance, PTL

\* Whenever the process dies, the file it leaves can be loaded and refers to
\* no missing guest.
THEOREM CrashSafe == Spec => []DiskIsRestorable
<1>1. IInv => DiskIsRestorable
  BY FileAssumption, EmptySound DEF IInv, DiskIsRestorable, OnDisk, Sound
<1> QED BY <1>1, Invariance, PTL

\* The store never believes the file is up to date when it is behind, unless
\* a flush has failed.
THEOREM BehindFlagged == Spec => []BehindIsFlagged
<1>1. IInv => BehindIsFlagged
  BY DEF IInv, BehindIsFlagged, FlushTracksMemory
<1> QED BY <1>1, Invariance, PTL

\* A document leads to a file that holds it, and to none only if no file does,
\* after any mix of opening, attaching, seeding and restarting.
THEOREM DocumentsAreFound == Spec => []IndexFindsHolder
BY InitIndex, NextIndex, Invariance, PTL DEF Spec

\* FR-013: no write, flush, failure, crash or restart takes anything out of the
\* file once it is there.
THEOREM NothingLeavesTheDisk == Spec => DiskOnlyGrows
<1>1. Init => DiskCopyMemory
  BY DEF Init, DiskCopyMemory, Serving
<1>2. IInv /\ DiskCopyMemory /\ [Next]_vars =>
          [/\ \A g \in GuestIds : Has(OnDisk.guests, g) =>
                  /\ Has(OnDisk'.guests, g)
                  /\ OnDisk.guests[g].docs \subseteq OnDisk'.guests[g].docs
           /\ \A r \in ReviewIds : Has(OnDisk.reviews, r) => Has(OnDisk'.reviews, r)
           /\ IsPrefix(OnDisk.inquiries, OnDisk'.inquiries)]_vars
  BY NextExtends DEF Extends
<1> QED BY <1>1, <1>2, NextExtends, Invariance, PTL DEF Spec, DiskOnlyGrows
=============================================================================
