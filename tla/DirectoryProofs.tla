---------------------------- MODULE DirectoryProofs ----------------------------
(***************************************************************************)
(* What a reader of the directory can rely on, for any guests, queries,    *)
(* page size and calendar, however the store changes while a request       *)
(* reads it.                                                               *)
(***************************************************************************)
EXTENDS Directory, ScoringProofs, SequenceTheorems

\* What a request has read of a guest, and the rows it may show.
Entries == [guest : Guests, reviews : SUBSET Records, day : Calendar]
Rows == {Row(g, rs, Compute(rs, day, Model)) :
             g \in Guests, rs \in SUBSET Records, day \in Calendar}

StoreIsTyped ==
    /\ database \in {"postgres", "file"}
    /\ open \subseteq Guests
    /\ file \in [Guests -> SUBSET Records]
    /\ \A g \in Guests : /\ IsFiniteSet(file[g]) /\ Cardinality(file[g]) <= MaxStays[g]
                         /\ g \notin open => file[g] = {}
    /\ today \in Calendar

RequestIsTyped ==
    /\ pc \in {"idle", "list", "all", "read", "stays", "answered"}
    /\ query \in Queries \cup {None} /\ (query = None <=> pc = "idle")
    /\ offset \in Nat /\ total \in Nat
    /\ at \in Calendar \cup {0} /\ at <= today
    /\ listed \in Seq(Guests) /\ read \in Seq(Entries)
    /\ rows \in Seq(Rows) /\ stays \in Seq(SUBSET Records)

Lengths ==
    /\ Len(read) <= Len(listed)
    /\ Len(rows) <= PageSize /\ Len(rows) <= Len(read)
    /\ Len(rows) <= total \/ total = 0
    /\ Len(stays) <= Len(rows) /\ (pc = "stays" => Len(stays) < Len(rows))
    /\ pc \in {"idle", "list", "all"} => Len(read) = 0
    /\ pc \in {"idle", "list", "all", "read"} => Len(rows) = 0

Reading == pc \in {"all", "read", "stays", "answered"}

\* A day, and a state of a guest's record, that the request has been through.
Lived(day) == day \in Calendar /\ began.day <= day /\ day <= today
Seen(g, reviews) == began.file[g] \subseteq reviews /\ reviews \subseteq file[g]

ListedAreAsked ==
    /\ \A i \in DOMAIN listed : listed[i] \in open /\ Matches(query, listed[i])
    /\ \A i, j \in DOMAIN listed : listed[i] = listed[j] => i = j

ReadAreSeen ==
    \A i \in DOMAIN read : /\ read[i].guest = listed[i]
                           /\ Seen(listed[i], read[i].reviews)
                           /\ Lived(read[i].day)

ReadingInv ==
    Reading => /\ began.day \in Calendar /\ began.day <= today
               /\ \A g \in Guests : began.file[g] \subseteq file[g]
               /\ Lived(at)
               /\ ListedAreAsked /\ ReadAreSeen

TierFits(q, row) == q.tier \in {"", row.score.tier}
Incriminated(seen) == \E r \in seen : r.incidents # <<>> /\ Scoreable(r)

\* What RowsAreTrue says of one row.
RowIsTrue(i) ==
    /\ rows[i].guest \in open /\ Matches(query, rows[i].guest)
    /\ TierFits(query, rows[i])
    /\ \E seen \in SUBSET file[rows[i].guest] : \E day \in Calendar :
           /\ Seen(rows[i].guest, seen) /\ Lived(day)
           /\ rows[i].score = Compute(seen, day, Model)
           /\ query.incidents => Incriminated(seen)
           /\ i \in DOMAIN stays => seen \subseteq stays[i]

RowsInv ==
    /\ \A i \in DOMAIN rows : RowIsTrue(i)
    /\ \A i, j \in DOMAIN rows : rows[i].guest = rows[j].guest => i = j

IInv == StoreIsTyped /\ RequestIsTyped /\ Lengths /\ ReadingInv /\ RowsInv
-----------------------------------------------------------------------------
(* The helpers of the model.                                                *)

\* A guest shown for its incidents has one that counts.
LEMMA IncidentsAreCounted ==
    ASSUME NEW rs \in SUBSET Records, IsFiniteSet(rs), IncidentCount(rs) > 0
    PROVE  Incriminated(rs)
<1> DEFINE counted == {r \in rs : Scoreable(r)}
           F == [r \in counted |-> Len(r.incidents)]
<1>1. \A r \in rs : r.incidents \in Seq(Incidents)
  BY DEF Records
<1>2. IsFiniteSet(counted)
  BY FS_Subset
<1>3. F \in [counted -> Nat]
  BY <1>1
<1>4. IncidentCount(rs) = SumFunction(F)
  BY DEF IncidentCount
<1> SUFFICES ASSUME ~Incriminated(rs)
             PROVE  FALSE
  OBVIOUS
<1>5. \A r \in counted : F[r] = 0
  BY DEF Incriminated
<1>6. SumFunction(F) = 0
  <2> HIDE DEF F, counted
  <2> QED BY <1>2, <1>3, <1>5, SumOfZeros
<1> QED BY <1>4, <1>6

\* A page is a piece of the list it is cut from, no longer than was asked for.
LEMMA WindowIsCut ==
    ASSUME NEW S, NEW seq \in Seq(S), NEW from \in Nat
    PROVE  /\ Window(seq, from) \in Seq(S)
           /\ Len(Window(seq, from)) <= PageSize
           /\ Len(Window(seq, from)) <= Len(seq)
           /\ \A i \in DOMAIN Window(seq, from) :
                  from + i \in DOMAIN seq /\ Window(seq, from)[i] = seq[from + i]
           /\ from <= Len(seq) =>
                  Len(Window(seq, from)) = Min({from + PageSize, Len(seq)}) - from
<1> DEFINE last == Min({from + PageSize, Len(seq)})
           page == Window(seq, from)
<1>1. /\ last \in Int /\ last <= from + PageSize /\ last <= Len(seq)
      /\ PageSize \in Nat /\ Len(seq) \in Nat
      /\ from <= Len(seq) => from <= last
  <2>1. PageSize \in Nat /\ Len(seq) \in Nat
    BY DirectoryAssumption
  <2>2. from + PageSize \in Int
    BY <2>1
  <2>3. last = IF from + PageSize <= Len(seq) THEN from + PageSize ELSE Len(seq)
    BY <2>1, <2>2, LowerOf
  <2> QED BY <2>1, <2>2, <2>3
<1>2. page = SubSeq(seq, from + 1, last)
  BY DEF Window
<1> HIDE DEF last
<1>3. \A i \in (from + 1)..last : seq[i] \in S
  BY <1>1
<1>4. /\ page \in Seq(S)
      /\ Len(page) = IF from + 1 <= last THEN last - from ELSE 0
      /\ \A i \in 1..(last - from) : page[i] = seq[from + i]
  <2>1. from + 1 \in Int /\ last - (from + 1) + 1 = last - from
    BY <1>1
  <2>2. /\ page \in Seq(S)
        /\ Len(page) = IF from + 1 <= last THEN last - (from + 1) + 1 ELSE 0
        /\ \A i \in 1..(last - (from + 1) + 1) : page[i] = seq[from + 1 + i - 1]
    BY <1>1, <1>2, <1>3, <2>1, SubSeqProperties
  <2> HIDE DEF page
  <2>3. Len(page) = IF from + 1 <= last THEN last - from ELSE 0
    BY <2>1, <2>2
  <2>4. ASSUME NEW i \in 1..(last - from)
        PROVE  page[i] = seq[from + i]
    <3>1. from + 1 + i - 1 = from + i
      BY <1>1
    <3>2. page[i] = seq[from + 1 + i - 1]
      BY <2>1, <2>2
    <3> QED BY <3>1, <3>2
  <2> QED BY <2>2, <2>3, <2>4
<1> HIDE DEF page
<1>5. DOMAIN page = 1..Len(page)
  BY <1>4
<1>6. from <= Len(seq) => Len(page) = last - from
  BY <1>1, <1>4
<1>7. from <= Len(seq) =>
          Len(Window(seq, from)) = Min({from + PageSize, Len(seq)}) - from
  BY <1>6, Zenon DEF page, last
<1> QED BY <1>1, <1>4, <1>5, <1>7 DEF page

-----------------------------------------------------------------------------
(* The store.                                                               *)

LEMMA Initially ==
    Init => IInv
<1> SUFFICES ASSUME Init PROVE IInv
  OBVIOUS
<1>1. StoreIsTyped
  <2>1. today \in Calendar
    BY DirectoryAssumption, HasLeast DEF Init
  <2>2. file \in [Guests -> SUBSET Records]
    BY DEF Init
  <2>3. \A g \in Guests : file[g] = {}
    BY DEF Init
  <2>4. \A g \in Guests : IsFiniteSet(file[g]) /\ Cardinality(file[g]) <= MaxStays[g]
    <3>1. \A g \in Guests : MaxStays[g] \in Nat
      BY DirectoryAssumption
    <3> QED BY <2>3, <3>1, FS_EmptySet
  <2> QED BY <2>1, <2>2, <2>3, <2>4 DEF Init, StoreIsTyped
<1>2. listed = <<>> /\ read = <<>> /\ rows = <<>> /\ stays = <<>>
  BY DEF Init
<1>3. RequestIsTyped
  <2>1. listed \in Seq(Guests) /\ read \in Seq(Entries) /\ rows \in Seq(Rows)
        /\ stays \in Seq(SUBSET Records)
    BY <1>2
  <2>2. at \in Calendar \cup {0} /\ at <= today
    BY <1>1, DirectoryAssumption DEF Init, StoreIsTyped
  <2> QED BY <2>1, <2>2 DEF Init, RequestIsTyped
<1>4. Lengths
  <2>1. Len(listed) = 0 /\ Len(read) = 0 /\ Len(rows) = 0 /\ Len(stays) = 0
    BY <1>2
  <2> QED BY <2>1, DirectoryAssumption DEF Init, Lengths
<1>5. ReadingInv
  BY DEF Init, ReadingInv, Reading
<1>6. RowsInv
  <2>1. DOMAIN rows = {}
    BY <1>2
  <2> QED BY <2>1 DEF RowsInv
<1> QED BY <1>1, <1>3, <1>4, <1>5, <1>6 DEF IInv

\* The store only grows: files are opened, reviews are filed, days pass.
Grows ==
    /\ database' = database
    /\ open \subseteq open'
    /\ \A g \in Guests : file[g] \subseteq file'[g]
    /\ today <= today'

\* A request in flight is as sound in a store that has grown.
LEMMA GrownStore ==
    ASSUME IInv, Grows, StoreIsTyped', UNCHANGED <<request, book, began>>
    PROVE  IInv'
<1>0. /\ pc' = pc /\ query' = query /\ offset' = offset /\ at' = at /\ listed' = listed
      /\ read' = read /\ rows' = rows /\ total' = total /\ stays' = stays /\ began' = began
  BY DEF request
<1>1. today \in Nat /\ today' \in Nat /\ today <= today'
  BY DirectoryAssumption DEF IInv, StoreIsTyped, Grows
<1>a. ASSUME NEW day \in Nat, day <= today
      PROVE  day <= today'
  BY <1>1, <1>a
<1>b. Calendar \subseteq Nat
  BY DirectoryAssumption
<1>2. RequestIsTyped'
  <2>1. RequestIsTyped
    BY DEF IInv
  <2>2. at <= today'
    <3>1. at \in Nat /\ at <= today
      BY <1>b, <2>1 DEF RequestIsTyped
    <3> QED BY <1>a, <3>1
  <2> QED BY <1>0, <2>1, <2>2 DEF RequestIsTyped
<1>3. Lengths'
  BY <1>0 DEF IInv, Lengths
<1>4. ReadingInv'
  <2> SUFFICES ASSUME Reading'
               PROVE  /\ began.day \in Calendar /\ began.day <= today'
                      /\ \A g \in Guests : began.file[g] \subseteq file'[g]
                      /\ Lived(at)' /\ ListedAreAsked' /\ ReadAreSeen'
    BY <1>0 DEF ReadingInv
  <2>1. Reading
    BY <1>0 DEF Reading
  <2>2. /\ began.day \in Calendar /\ began.day <= today
        /\ \A g \in Guests : began.file[g] \subseteq file[g]
        /\ Lived(at) /\ ListedAreAsked /\ ReadAreSeen
    BY <2>1 DEF IInv, ReadingInv
  <2>3. ASSUME NEW day, Lived(day)
        PROVE  day \in Calendar /\ began.day <= day /\ day <= today'
    BY <1>a, <1>b, <2>3 DEF Lived
  <2>4. began.day <= today'
    BY <1>a, <1>b, <2>2
  <2>5. ListedAreAsked'
    BY <1>0, <2>2 DEF ListedAreAsked, Grows
  <2>6. ReadAreSeen'
    <3> SUFFICES ASSUME NEW i \in DOMAIN read
                 PROVE  /\ read[i].guest = listed[i]
                        /\ began.file[listed[i]] \subseteq read[i].reviews
                        /\ read[i].reviews \subseteq file'[listed[i]]
                        /\ read[i].day \in Calendar /\ began.day <= read[i].day
                        /\ read[i].day <= today'
      BY <1>0 DEF ReadAreSeen, Seen, Lived
    <3>1. /\ read[i].guest = listed[i] /\ Seen(listed[i], read[i].reviews)
          /\ Lived(read[i].day)
      BY <2>2 DEF ReadAreSeen
    <3>2. listed[i] \in Guests
      <4>1. read \in Seq(Entries)
        BY DEF IInv, RequestIsTyped
      <4>2. read[i] \in Entries
        BY <4>1
      <4>3. read[i].guest \in Guests
        BY <4>2 DEF Entries
      <4> QED BY <3>1, <4>3
    <3> QED BY <2>3, <3>1, <3>2 DEF Seen, Grows
  <2> QED BY <1>0, <2>2, <2>3, <2>4, <2>5, <2>6 DEF Lived, Grows
<1>5. RowsInv'
  <2>1. RowsInv
    BY DEF IInv
  <2>2. ASSUME NEW i \in DOMAIN rows
        PROVE  RowIsTrue(i)'
    <3>1. RowIsTrue(i)
      BY <2>1 DEF RowsInv
    <3>2. open' \subseteq Guests /\ open \subseteq open'
      BY DEF StoreIsTyped, Grows
    <3>3. file[rows[i].guest] \subseteq file'[rows[i].guest]
      BY <3>1, <3>2 DEF RowIsTrue, Grows
    <3>4. PICK seen \in SUBSET file[rows[i].guest] : \E day \in Calendar :
              /\ Seen(rows[i].guest, seen) /\ Lived(day)
              /\ rows[i].score = Compute(seen, day, Model)
              /\ query.incidents => Incriminated(seen)
              /\ i \in DOMAIN stays => seen \subseteq stays[i]
      BY <3>1 DEF RowIsTrue
    <3>5. PICK day \in Calendar :
              /\ Seen(rows[i].guest, seen) /\ Lived(day)
              /\ rows[i].score = Compute(seen, day, Model)
              /\ query.incidents => Incriminated(seen)
              /\ i \in DOMAIN stays => seen \subseteq stays[i]
      BY <3>4
    <3>6. Seen(rows[i].guest, seen)'
      BY <1>0, <3>3, <3>5 DEF Seen
    <3>7. Lived(day)'
      BY <1>0, <1>a, <1>b, <3>5 DEF Lived
    <3>8. rows[i].guest \in open' /\ Matches(query, rows[i].guest) /\ TierFits(query, rows[i])
      BY <3>1, <3>2 DEF RowIsTrue
    <3>9. seen \in SUBSET file'[rows[i].guest]
      BY <3>3
    <3> QED BY <1>0, <3>5, <3>6, <3>7, <3>8, <3>9 DEF RowIsTrue
  <2> QED BY <1>0, <2>1, <2>2 DEF RowsInv
<1> QED BY <1>2, <1>3, <1>4, <1>5 DEF IInv

LEMMA OpenFileStep ==
    ASSUME IInv, NEW g \in Guests, OpenFile(g)
    PROVE  IInv'
<1>1. StoreIsTyped' /\ Grows
  <2>1. StoreIsTyped /\ today \in Nat
    BY DirectoryAssumption DEF IInv, StoreIsTyped
  <2> QED BY <2>1 DEF OpenFile, StoreIsTyped, Grows
<1> QED BY <1>1, GrownStore DEF OpenFile

LEMMA TickStep ==
    ASSUME IInv, Tick
    PROVE  IInv'
<1> DEFINE later == {day \in Calendar : day > today}
<1>1. today' \in later
  <2>1. later \in SUBSET Nat /\ later # {}
    BY DirectoryAssumption DEF Tick
  <2> QED BY <2>1, HasLeast DEF Tick
<1>2. StoreIsTyped /\ today \in Nat /\ today' \in Calendar /\ today <= today'
  BY <1>1, DirectoryAssumption DEF IInv, StoreIsTyped
<1>3. StoreIsTyped' /\ Grows
  BY <1>2 DEF Tick, StoreIsTyped, Grows
<1> QED BY <1>3, GrownStore DEF Tick

LEMMA FileStep ==
    ASSUME IInv, NEW g \in Guests, NEW lag \in Lags, NEW s \in Samples[g], File(g, s, lag)
    PROVE  IInv'
<1> DEFINE new == [s EXCEPT !.submittedAt = today - lag, !.checkOut = @ + today - lag]
<1>1. StoreIsTyped /\ today \in Int /\ lag \in Int
  BY DirectoryAssumption DEF IInv, StoreIsTyped
<1>2. new \in Records
  <2>1. s \in Records
    BY DirectoryAssumption
  <2>2. s.checkOut \in Int
    BY <2>1 DEF Records
  <2>3. today - lag \in Int /\ s.checkOut + today - lag \in Int
    BY <1>1, <2>2
  <2> QED BY <2>1, <2>3 DEF Records
<1>3. file' = [file EXCEPT ![g] = file[g] \cup {new}]
  BY DEF File
<1> HIDE DEF new
<1>4. file' \in [Guests -> SUBSET Records] /\ \A h \in Guests : file[h] \subseteq file'[h]
  BY <1>1, <1>2, <1>3 DEF StoreIsTyped
<1>5. ASSUME NEW h \in Guests
      PROVE  /\ IsFiniteSet(file'[h]) /\ Cardinality(file'[h]) <= MaxStays[h]
             /\ h \notin open' => file'[h] = {}
  <2>1. IsFiniteSet(file[h]) /\ Cardinality(file[h]) \in Nat
    BY <1>1, FS_CardinalityType DEF StoreIsTyped
  <2>2. CASE h # g
    BY <1>1, <1>3, <2>2 DEF File, StoreIsTyped
  <2>3. CASE h = g
    <3>1. file'[h] = file[h] \cup {new}
      BY <1>1, <1>3, <2>3 DEF StoreIsTyped
    <3>2. /\ IsFiniteSet(file[h] \cup {new})
          /\ Cardinality(file[h] \cup {new})
                 = IF new \in file[h] THEN Cardinality(file[h]) ELSE Cardinality(file[h]) + 1
      BY <2>1, FS_AddElement
    <3>3. Cardinality(file[h]) < MaxStays[h] /\ MaxStays[h] \in Nat /\ h \in open'
      BY <2>3, DirectoryAssumption DEF File
    <3> QED BY <2>1, <3>1, <3>2, <3>3
  <2> QED BY <2>2, <2>3
<1>6. database' = database /\ open' = open /\ today' = today
      /\ UNCHANGED <<request, book, began>>
  BY DEF File
<1>7. StoreIsTyped'
  BY <1>1, <1>4, <1>5, <1>6 DEF StoreIsTyped
<1>8. Grows
  BY <1>1, <1>4, <1>6 DEF Grows
<1> QED BY <1>6, <1>7, <1>8, GrownStore

-----------------------------------------------------------------------------
(* A request.                                                               *)

LEMMA StoreStays ==
    ASSUME StoreIsTyped, UNCHANGED store
    PROVE  StoreIsTyped'
BY DEF StoreIsTyped, store

\* What the invariant says of a request that shows nothing.
LEMMA NoRowsNext ==
    ASSUME rows' = <<>>, stays' = <<>>
    PROVE  RowsInv' /\ Len(rows') = 0 /\ Len(stays') = 0
<1>1. DOMAIN rows' = {} /\ Len(rows') = 0 /\ Len(stays') = 0
  OBVIOUS
<1> QED BY <1>1 DEF RowsInv

\* Until it is complete, a request shows nothing.
LEMMA NothingYet ==
    ASSUME IInv, pc \in {"idle", "list", "all", "read"}
    PROVE  rows = <<>> /\ stays = <<>>
<1>1. rows \in Seq(Rows) /\ stays \in Seq(SUBSET Records) /\ Len(stays) <= Len(rows)
      /\ Len(rows) = 0
  BY DEF IInv, RequestIsTyped, Lengths
<1>2. Len(stays) = 0
  BY <1>1
<1> QED BY <1>1, <1>2

LEMMA Cleared ==
    ASSUME IInv, UNCHANGED store, pc' \in {"idle", "list"},
           query' \in Queries \cup {None}, query' = None <=> pc' = "idle",
           offset' \in Nat, at' \in Calendar \cup {0}, at' <= today,
           listed' \in Seq(Guests), read' = <<>>, rows' = <<>>, total' \in Nat, stays' = <<>>
    PROVE  IInv'
<1>1. StoreIsTyped' /\ today' = today
  BY StoreStays DEF IInv, store
<1>2. read' \in Seq(Entries) /\ rows' \in Seq(Rows) /\ stays' \in Seq(SUBSET Records)
  OBVIOUS
<1>3. RequestIsTyped'
  BY <1>1, <1>2 DEF RequestIsTyped
<1>4. Len(read') = 0 /\ Len(rows') = 0 /\ Len(stays') = 0 /\ RowsInv' /\ Len(listed') \in Nat
  BY NoRowsNext
<1>5. Lengths'
  BY <1>4, DirectoryAssumption DEF Lengths
<1>6. ReadingInv'
  BY DEF ReadingInv, Reading
<1> QED BY <1>1, <1>3, <1>4, <1>5, <1>6 DEF IInv

LEMMA AskStep ==
    ASSUME IInv, NEW q \in Queries, Ask(q)
    PROVE  IInv'
<1>1. rows = <<>> /\ stays = <<>>
  BY NothingYet DEF Ask
<1>2. RequestIsTyped /\ read = <<>>
  <2>1. read \in Seq(Entries) /\ Len(read) = 0
    BY DEF IInv, RequestIsTyped, Lengths, Ask
  <2> QED BY <2>1 DEF IInv
<1>3. UNCHANGED store /\ pc' = "list" /\ query' = q /\ q # None
  BY DirectoryAssumption DEF Ask
<1>4. /\ offset' \in Nat /\ at' \in Calendar \cup {0} /\ at' <= today
      /\ listed' \in Seq(Guests) /\ total' \in Nat
      /\ read' = <<>> /\ rows' = <<>> /\ stays' = <<>>
  BY <1>1, <1>2 DEF Ask, RequestIsTyped
<1> QED BY <1>3, <1>4, Cleared

LEMMA NextPageStep ==
    ASSUME IInv, NextPage
    PROVE  IInv'
<1>1. RequestIsTyped /\ today \in Nat /\ PageSize \in Nat
  BY DirectoryAssumption DEF IInv, StoreIsTyped
<1>2. /\ UNCHANGED store /\ pc' = "list" /\ query' = query /\ query \in Queries
      /\ offset' = offset + PageSize /\ at' = 0 /\ listed' = <<>> /\ read' = <<>>
      /\ rows' = <<>> /\ total' = 0 /\ stays' = <<>>
  BY <1>1 DEF NextPage, RequestIsTyped
<1>3. offset' \in Nat /\ at' <= today /\ listed' \in Seq(Guests) /\ query' # None
  <2>1. offset \in Nat
    BY <1>1 DEF RequestIsTyped
  <2> QED BY <1>1, <1>2, <2>1, DirectoryAssumption
<1> QED BY <1>2, <1>3, Cleared

LEMMA ResetStep ==
    ASSUME IInv, Reset
    PROVE  IInv'
<1>1. today \in Nat
  BY DirectoryAssumption DEF IInv, StoreIsTyped
<1>2. /\ UNCHANGED store /\ pc' = "idle" /\ query' = None /\ offset' = 0 /\ at' = 0
      /\ listed' = <<>> /\ read' = <<>> /\ rows' = <<>> /\ total' = 0 /\ stays' = <<>>
  BY DEF Reset
<1>3. at' <= today /\ listed' \in Seq(Guests)
  BY <1>1, <1>2
<1> QED BY <1>2, <1>3, Cleared

LEMMA ListGuestsStep ==
    ASSUME IInv, ListGuests
    PROVE  IInv'
<1> DEFINE found == {g \in open : Matches(query, g)}
<1>1. /\ UNCHANGED store /\ pc' \in {"all", "read"} /\ query' = query /\ at' = today
      /\ offset' = offset /\ total' = total /\ listed' \in Listings
      /\ read' = read /\ rows' = rows /\ stays' = stays
      /\ began' = [open |-> open, file |-> file, day |-> today]
  BY DEF ListGuests
<1>2. StoreIsTyped /\ StoreIsTyped' /\ today' = today /\ open' = open /\ file' = file
  BY <1>1, StoreStays DEF IInv, store
<1>3. today \in Calendar /\ today \in Nat
  BY <1>2, DirectoryAssumption DEF StoreIsTyped
<1>4. Cardinality(found) \in Nat
  <2>1. found \in SUBSET Guests
    BY <1>2 DEF StoreIsTyped
  <2>2. IsFiniteSet(found)
    BY <2>1, FS_Subset, DirectoryAssumption
  <2> QED BY <2>2, FS_CardinalityType
<1>5. /\ listed' \in [1..Cardinality(found) -> found]
      /\ \A i, j \in DOMAIN listed' : i < j => listed'[i] # listed'[j]
  BY <1>1 DEF Listings
<1> HIDE DEF found
<1>6. listed' \in Seq(found) /\ DOMAIN listed' = 1..Cardinality(found)
  BY <1>4, <1>5
<1>7. /\ listed' \in Seq(Guests)
      /\ \A i \in DOMAIN listed' : listed'[i] \in open /\ Matches(query, listed'[i])
  <2>1. \A i \in DOMAIN listed' : listed'[i] \in found
    BY <1>5, <1>6
  <2>2. found \subseteq Guests /\ \A g \in found : g \in open /\ Matches(query, g)
    BY <1>2 DEF found, StoreIsTyped
  <2> QED BY <1>6, <2>1, <2>2
<1>8. \A i, j \in DOMAIN listed' : listed'[i] = listed'[j] => i = j
  <2> SUFFICES ASSUME NEW i \in DOMAIN listed', NEW j \in DOMAIN listed',
                      listed'[i] = listed'[j], i # j
               PROVE  FALSE
    OBVIOUS
  <2>1. i \in Int /\ j \in Int
    BY <1>4, <1>6
  <2>2. i < j \/ j < i
    BY <2>1
  <2> QED BY <1>5, <2>2
<1>9. rows = <<>> /\ stays = <<>> /\ read = <<>>
  <2>1. read \in Seq(Entries) /\ Len(read) = 0 /\ pc = "list"
    BY DEF IInv, RequestIsTyped, Lengths, ListGuests
  <2> QED BY <2>1, NothingYet
<1>10. RequestIsTyped'
  <2>1. RequestIsTyped /\ query # None
    BY DEF IInv, RequestIsTyped, ListGuests
  <2>2. at' \in Calendar /\ at' <= today'
    BY <1>1, <1>2, <1>3
  <2>3. read' \in Seq(Entries) /\ rows' \in Seq(Rows) /\ stays' \in Seq(SUBSET Records)
    BY <1>1, <1>9
  <2>4. query' \in Queries \cup {None} /\ query' # None /\ offset' \in Nat /\ total' \in Nat
    BY <1>1, <2>1 DEF RequestIsTyped
  <2> QED BY <1>1, <1>7, <2>2, <2>3, <2>4 DEF RequestIsTyped
<1>11. RowsInv' /\ Len(rows') = 0 /\ Len(stays') = 0 /\ Len(read') = 0 /\ Len(listed') \in Nat
  BY <1>1, <1>7, <1>9, NoRowsNext
<1>12. Lengths'
  <2>1. total' = 0 \/ 0 <= total'
    BY <1>10 DEF RequestIsTyped
  <2> QED BY <1>1, <1>11, <2>1, DirectoryAssumption DEF Lengths
<1>13. ReadingInv'
  <2>1. began'.day = today /\ began'.file = file
    BY <1>1
  <2>2. Lived(at)'
    BY <1>1, <1>2, <1>3, <2>1 DEF Lived
  <2>3. ListedAreAsked'
    BY <1>1, <1>2, <1>7, <1>8 DEF ListedAreAsked
  <2>4. ReadAreSeen'
    <3>1. DOMAIN read' = {}
      BY <1>1, <1>9
    <3> QED BY <3>1 DEF ReadAreSeen
  <2> QED BY <1>2, <1>3, <2>1, <2>2, <2>3, <2>4 DEF ReadingInv
<1> QED BY <1>2, <1>10, <1>11, <1>12, <1>13 DEF IInv

LEMMA AllReviewsStep ==
    ASSUME IInv, AllReviews
    PROVE  IInv'
<1>1. /\ UNCHANGED store /\ pc = "all" /\ pc' = "read" /\ at' = today
      /\ query' = query /\ offset' = offset /\ total' = total /\ listed' = listed
      /\ read' = read /\ rows' = rows /\ stays' = stays /\ began' = began
  BY DEF AllReviews, member
<1>2. StoreIsTyped /\ StoreIsTyped' /\ today' = today /\ open' = open /\ file' = file
  BY <1>1, StoreStays DEF IInv, store
<1>3. today \in Calendar /\ today \in Nat
  BY <1>2, DirectoryAssumption DEF StoreIsTyped
<1>4. RequestIsTyped'
  <2>1. at' \in Calendar \cup {0} /\ at' <= today'
    BY <1>1, <1>2, <1>3
  <2>2. RequestIsTyped
    BY DEF IInv
  <2> QED BY <1>1, <2>1, <2>2 DEF RequestIsTyped
<1>5. Lengths'
  BY <1>1 DEF IInv, Lengths
<1>6. ReadingInv'
  <2>1. /\ began.day \in Calendar /\ began.day <= today
        /\ \A g \in Guests : began.file[g] \subseteq file[g]
        /\ ListedAreAsked /\ ReadAreSeen
    BY <1>1 DEF IInv, ReadingInv, Reading
  <2>2. Lived(at)'
    BY <1>1, <1>2, <1>3, <2>1 DEF Lived
  <2>3. ListedAreAsked' /\ ReadAreSeen'
    BY <1>1, <1>2, <2>1 DEF ListedAreAsked, ReadAreSeen, Seen, Lived
  <2> QED BY <1>1, <1>2, <2>1, <2>2, <2>3 DEF ReadingInv
<1>7. RowsInv'
  BY <1>1, NothingYet, NoRowsNext
<1> QED BY <1>2, <1>4, <1>5, <1>6, <1>7 DEF IInv

LEMMA ReviewsForGuestStep ==
    ASSUME IInv, ReviewsForGuest
    PROVE  IInv'
<1> DEFINE n   == Len(read) + 1
           day == IF query.kind = "searchGuests" THEN today ELSE at
           new == [guest |-> listed[n], reviews |-> file[listed[n]], day |-> day]
<1>1. /\ UNCHANGED store /\ pc = "read" /\ pc' = pc /\ at' = at /\ query' = query
      /\ offset' = offset /\ total' = total /\ listed' = listed /\ rows' = rows
      /\ stays' = stays /\ began' = began /\ read' = Append(read, new)
      /\ Len(read) # Len(listed)
  BY DEF ReviewsForGuest, Enough, member
<1>2. StoreIsTyped /\ StoreIsTyped' /\ today' = today /\ open' = open /\ file' = file
  BY <1>1, StoreStays DEF IInv, store
<1>3. /\ began.day \in Calendar /\ began.day <= today /\ today \in Calendar /\ today \in Nat
      /\ \A g \in Guests : began.file[g] \subseteq file[g]
      /\ Lived(at) /\ ListedAreAsked /\ ReadAreSeen
  BY <1>1, <1>2, DirectoryAssumption DEF IInv, ReadingInv, Reading, StoreIsTyped
<1>4. Lived(day)
  BY <1>3 DEF Lived
<1>5. /\ listed \in Seq(Guests) /\ read \in Seq(Entries) /\ Len(read) \in Nat
      /\ Len(listed) \in Nat /\ Len(read) <= Len(listed)
  BY DEF IInv, RequestIsTyped, Lengths
<1>6. n \in DOMAIN listed /\ listed[n] \in Guests /\ n <= Len(listed)
  BY <1>1, <1>5
<1>7. new \in Entries
  <2>1. file[listed[n]] \in SUBSET Records
    BY <1>2, <1>6 DEF StoreIsTyped
  <2>2. day \in Calendar
    BY <1>4 DEF Lived
  <2> QED BY <1>6, <2>1, <2>2 DEF Entries
<1>8. /\ new.guest = listed[n] /\ Seen(listed[n], new.reviews) /\ Lived(new.day)
  BY <1>3, <1>4, <1>6 DEF Seen
<1> HIDE DEF new, day
<1>9. /\ read' \in Seq(Entries) /\ Len(read') = n /\ DOMAIN read' = 1..n
      /\ \A i \in 1..n : read'[i] = IF i = n THEN new ELSE read[i]
  BY <1>1, <1>5, <1>7
<1>10. rows = <<>> /\ stays = <<>>
  BY <1>1, NothingYet
<1>11. RequestIsTyped'
  <2>1. RequestIsTyped
    BY DEF IInv
  <2> QED BY <1>1, <1>2, <1>9, <2>1 DEF RequestIsTyped
<1>12. RowsInv' /\ Len(rows') = 0 /\ Len(stays') = 0
  BY <1>1, <1>10, NoRowsNext
<1>13. Lengths'
  <2>1. total' = 0 \/ 0 <= total'
    BY <1>11 DEF RequestIsTyped
  <2> QED BY <1>1, <1>5, <1>6, <1>9, <1>12, <2>1, DirectoryAssumption DEF Lengths
<1>14. ReadingInv'
  <2>1. ListedAreAsked'
    BY <1>1, <1>2, <1>3 DEF ListedAreAsked
  <2>2. ASSUME NEW i \in DOMAIN read'
        PROVE  /\ read'[i].guest = listed[i] /\ Seen(listed[i], read'[i].reviews)
               /\ Lived(read'[i].day)
    <3>1. CASE i = n
      BY <1>8, <1>9, <3>1
    <3>2. CASE i # n
      <4>1. i \in DOMAIN read /\ read'[i] = read[i]
        BY <1>5, <1>9, <3>2
      <4> QED BY <1>3, <4>1 DEF ReadAreSeen
    <3> QED BY <3>1, <3>2
  <2>3. ReadAreSeen'
    BY <1>1, <1>2, <2>2 DEF ReadAreSeen, Seen, Lived
  <2>4. Lived(at)'
    BY <1>1, <1>2, <1>3 DEF Lived
  <2> QED BY <1>1, <1>2, <1>3, <2>1, <2>3, <2>4 DEF ReadingInv
<1> QED BY <1>2, <1>11, <1>12, <1>13, <1>14 DEF IInv

LEMMA FinishStatsStep ==
    ASSUME IInv, FinishStats
    PROVE  IInv'
<1>1. /\ UNCHANGED store /\ pc = "read" /\ pc' = "answered" /\ at' = at /\ query' = query
      /\ offset' = offset /\ total' = total /\ listed' = listed /\ read' = read
      /\ rows' = rows /\ stays' = stays /\ began' = began
  BY DEF FinishStats, member
<1>2. StoreIsTyped /\ StoreIsTyped' /\ today' = today /\ open' = open /\ file' = file
  BY <1>1, StoreStays DEF IInv, store
<1>3. RowsInv'
  BY <1>1, NothingYet, NoRowsNext
<1>4. RequestIsTyped'
  <2>1. RequestIsTyped
    BY DEF IInv
  <2> QED BY <1>1, <1>2, <2>1 DEF RequestIsTyped
<1>5. Lengths'
  BY <1>1 DEF IInv, Lengths
<1>6. ReadingInv'
  <2>1. ReadingInv /\ Reading
    BY <1>1 DEF IInv, Reading
  <2> QED BY <1>1, <1>2, <2>1
        DEF ReadingInv, Reading, Lived, ListedAreAsked, ReadAreSeen, Seen
<1> QED BY <1>2, <1>3, <1>4, <1>5, <1>6 DEF IInv

LEMMA ResolveStaysStep ==
    ASSUME IInv, ResolveStays
    PROVE  IInv'
<1> DEFINE n == Len(stays) + 1
           shown == file[rows[n].guest]
<1>1. /\ UNCHANGED store /\ pc = "stays" /\ at' = at /\ query' = query
      /\ offset' = offset /\ total' = total /\ listed' = listed /\ read' = read
      /\ rows' = rows /\ began' = began /\ stays' = Append(stays, shown)
      /\ pc' = IF n = Len(rows) THEN "answered" ELSE "stays"
  BY DEF ResolveStays, member
<1>2. StoreIsTyped /\ StoreIsTyped' /\ today' = today /\ open' = open /\ file' = file
  BY <1>1, StoreStays DEF IInv, store
<1>3. /\ rows \in Seq(Rows) /\ stays \in Seq(SUBSET Records) /\ Len(stays) < Len(rows)
      /\ Len(rows) \in Nat /\ Len(stays) \in Nat
  BY <1>1 DEF IInv, RequestIsTyped, Lengths
<1>4. n \in DOMAIN rows /\ n <= Len(rows)
  BY <1>3
<1>5. \A i \in DOMAIN rows : RowIsTrue(i) /\ rows[i].guest \in Guests
  BY <1>2 DEF IInv, RowsInv, RowIsTrue, StoreIsTyped
<1>6. shown \in SUBSET Records
  BY <1>2, <1>4, <1>5 DEF StoreIsTyped
<1> HIDE DEF shown
<1>7. /\ stays' \in Seq(SUBSET Records) /\ Len(stays') = n /\ DOMAIN stays' = 1..n
      /\ \A i \in 1..n : stays'[i] = IF i = n THEN shown ELSE stays[i]
  BY <1>1, <1>3, <1>6
<1>8. RequestIsTyped'
  <2>1. RequestIsTyped /\ query # None
    BY <1>1 DEF IInv, RequestIsTyped
  <2>2. pc' \in {"stays", "answered"}
    BY <1>1
  <2> QED BY <1>1, <1>2, <1>7, <2>1, <2>2 DEF RequestIsTyped
<1>9. Lengths'
  <2>1. /\ Len(read) <= Len(listed) /\ Len(rows) <= PageSize /\ Len(rows) <= Len(read)
        /\ Len(rows) <= total \/ total = 0
    BY DEF IInv, Lengths
  <2>2. Len(stays') <= Len(rows') /\ (pc' = "stays" => Len(stays') < Len(rows'))
    BY <1>1, <1>3, <1>4, <1>7
  <2> QED BY <1>1, <2>1, <2>2 DEF Lengths
<1>10. ReadingInv'
  <2>1. ReadingInv /\ Reading
    BY <1>1 DEF IInv, Reading
  <2> QED BY <1>1, <1>2, <2>1
        DEF ReadingInv, Reading, Lived, ListedAreAsked, ReadAreSeen, Seen
<1>11. RowsInv'
  <2>1. ASSUME NEW i \in DOMAIN rows
        PROVE  RowIsTrue(i)'
    <3>1. PICK seen \in SUBSET file[rows[i].guest] : \E day \in Calendar :
              /\ Seen(rows[i].guest, seen) /\ Lived(day)
              /\ rows[i].score = Compute(seen, day, Model)
              /\ query.incidents => Incriminated(seen)
              /\ i \in DOMAIN stays => seen \subseteq stays[i]
      BY <1>5 DEF RowIsTrue
    <3>2. i \in DOMAIN stays' => seen \subseteq stays'[i]
      <4>1. CASE i = n
        BY <1>7, <4>1 DEF shown
      <4>2. CASE i # n
        <5>1. i \in DOMAIN stays' => i \in DOMAIN stays /\ stays'[i] = stays[i]
          BY <1>3, <1>7, <4>2
        <5> QED BY <3>1, <5>1
      <4> QED BY <4>1, <4>2
    <3>3. /\ rows[i].guest \in open /\ Matches(query, rows[i].guest)
          /\ TierFits(query, rows[i])
      BY <1>5 DEF RowIsTrue
    <3> QED BY <1>1, <1>2, <3>1, <3>2, <3>3 DEF RowIsTrue, Seen, Lived
  <2> QED BY <1>1, <2>1 DEF IInv, RowsInv
<1> QED BY <1>2, <1>8, <1>9, <1>10, <1>11 DEF IInv

-----------------------------------------------------------------------------
(* The answer.                                                              *)

\* Every row is one guest's, of the reviews that were read, as of a day of
\* the request; the batch keeps scores and guests together by their place.
LEMMA TableOfRead ==
    ASSUME today \in Calendar, read \in Seq(Entries)
    PROVE  /\ DOMAIN AllRows = DOMAIN read
           /\ \A i \in DOMAIN read : \E day \in {today, read[i].day} :
                  AllRows[i] = Row(read[i].guest, read[i].reviews,
                                   Compute(read[i].reviews, day, Model))
<1>1. CASE query.kind = "guests"
  <2>1. AllRows = BatchRows
    BY <1>1 DEF AllRows
  <2>2. DOMAIN Items = DOMAIN read /\ \A i \in DOMAIN read : Items[i] = read[i].reviews
    BY DEF Items
  <2>3. BatchRows = [i \in DOMAIN read |->
                        Row(read[i].guest, read[i].reviews,
                            Compute(read[i].reviews, today, Model))]
    BY <2>2 DEF BatchRows
  <2> QED BY <2>1, <2>3
<1>2. CASE query.kind # "guests"
  BY <1>2 DEF AllRows, RowOf, Scored
<1> QED BY <1>1, <1>2

\* The rows kept are different rows of the table, and pass the filters.
LEMMA OrderOfTable ==
    ASSUME NEW len \in Nat, NEW table, DOMAIN table = 1..len, NEW order \in Orders(table)
    PROVE  /\ DOMAIN order = 1..Len(order) /\ Len(order) \in Nat /\ Len(order) <= len
           /\ \A n \in DOMAIN order : order[n] \in 1..len /\ Passes(query, table[order[n]])
           /\ \A m, n \in DOMAIN order : order[m] = order[n] => m = n
<1> DEFINE passing == {i \in DOMAIN table : Passes(query, table[i])}
<1>1. /\ order \in [1..Cardinality(passing) -> passing]
      /\ \A m, n \in DOMAIN order : m < n => order[m] # order[n]
  BY DEF Orders
<1>2. /\ passing \in SUBSET (1..len) /\ \A i \in passing : Passes(query, table[i])
  OBVIOUS
<1> HIDE DEF passing
<1>3. Cardinality(passing) \in Nat /\ Cardinality(passing) <= len
  <2>1. IsFiniteSet(1..len) /\ Cardinality(1..len) = len
    BY FS_Interval
  <2>2. IsFiniteSet(passing) /\ Cardinality(passing) <= Cardinality(1..len)
    <3> DEFINE S == 1..len
    <3>1. IsFiniteSet(S) /\ passing \in SUBSET S
      BY <1>2, <2>1
    <3> HIDE DEF S
    <3>2. IsFiniteSet(passing) /\ Cardinality(passing) <= Cardinality(S)
      BY <3>1, FS_Subset
    <3> QED BY <3>2 DEF S
  <2>3. Cardinality(passing) \in Nat
    BY <2>2, FS_CardinalityType
  <2> QED BY <2>1, <2>2, <2>3
<1>4. order \in Seq(passing) /\ Len(order) = Cardinality(passing)
      /\ DOMAIN order = 1..Cardinality(passing)
  BY <1>1, <1>3
<1>5. \A n \in DOMAIN order : order[n] \in passing
  BY <1>1, <1>4
<1>6. \A m, n \in DOMAIN order : order[m] = order[n] => m = n
  <2> SUFFICES ASSUME NEW m \in DOMAIN order, NEW n \in DOMAIN order,
                      order[m] = order[n], m # n
               PROVE  FALSE
    OBVIOUS
  <2>1. m \in Int /\ n \in Int
    BY <1>3, <1>4
  <2>2. m < n \/ n < m
    BY <2>1
  <2> QED BY <1>1, <2>2
<1> QED BY <1>2, <1>3, <1>4, <1>5, <1>6

LEMMA FinishStep ==
    ASSUME IInv, Finish
    PROVE  IInv'
<1> DEFINE table == AllRows
<1>1. PICK order \in Orders(table) :
          LET found == [n \in DOMAIN order |-> table[order[n]]]
              page == Window(found, offset)
          IN  /\ rows' = page
              /\ total' = IF query.kind = "list" THEN Len(found) ELSE Len(page)
              /\ pc' = IF query.kind \in {"guests", "searchGuests"} /\ page # <<>>
                       THEN "stays" ELSE "answered"
  BY DEF Finish
<1> DEFINE found == [n \in DOMAIN order |-> table[order[n]]]
           page  == Window(found, offset)
<1>2. /\ rows' = page /\ total' \in {Len(found), Len(page)}
      /\ pc' \in {"stays", "answered"} /\ (pc' = "stays" => page # <<>>)
  BY <1>1
<1>3. /\ UNCHANGED store /\ pc = "read" /\ at' = at /\ query' = query /\ offset' = offset
      /\ listed' = listed /\ read' = read /\ stays' = stays /\ began' = began
  BY DEF Finish
<1>4. StoreIsTyped /\ StoreIsTyped' /\ today' = today /\ open' = open /\ file' = file
  BY <1>3, StoreStays DEF IInv, store
<1>5. /\ listed \in Seq(Guests) /\ read \in Seq(Entries) /\ Len(read) \in Nat
      /\ Len(listed) \in Nat /\ Len(read) <= Len(listed) /\ offset \in Nat
  BY DEF IInv, RequestIsTyped, Lengths
<1>6. /\ began.day \in Calendar /\ began.day <= today /\ today \in Calendar /\ today \in Nat
      /\ \A g \in Guests : began.file[g] \subseteq file[g]
      /\ Lived(at) /\ ListedAreAsked /\ ReadAreSeen
  BY <1>3, <1>4, DirectoryAssumption DEF IInv, ReadingInv, Reading, StoreIsTyped
<1>7. /\ DOMAIN table = 1..Len(read) /\ DOMAIN read = 1..Len(read)
      /\ \A i \in DOMAIN read : \E day \in {today, read[i].day} :
             table[i] = Row(read[i].guest, read[i].reviews,
                            Compute(read[i].reviews, day, Model))
  BY <1>5, <1>6, TableOfRead
<1> HIDE DEF table
<1>8. /\ DOMAIN order = 1..Len(order) /\ Len(order) \in Nat /\ Len(order) <= Len(read)
      /\ \A n \in DOMAIN order :
             order[n] \in 1..Len(read) /\ Passes(query, table[order[n]])
      /\ \A m, n \in DOMAIN order : order[m] = order[n] => m = n
  BY <1>1, <1>5, <1>7, OrderOfTable
\* Row k of the table is the record of the k-th guest asked about.
<1>9. ASSUME NEW k \in 1..Len(read)
      PROVE  /\ table[k] \in Rows /\ table[k].guest = listed[k] /\ listed[k] \in Guests
             /\ k \in DOMAIN listed /\ k \in DOMAIN read
             /\ \E day \in Calendar :
                    /\ Lived(day) /\ table[k].score = Compute(read[k].reviews, day, Model)
             /\ table[k].incidents = IncidentCount(read[k].reviews)
             /\ read[k].reviews \in SUBSET file[listed[k]]
             /\ Seen(listed[k], read[k].reviews)
  <2>1. k \in DOMAIN read /\ k \in DOMAIN listed /\ read[k] \in Entries
    BY <1>5, <1>7
  <2>2. /\ read[k].guest = listed[k] /\ Seen(listed[k], read[k].reviews) /\ Lived(read[k].day)
    BY <1>6, <2>1 DEF ReadAreSeen
  <2>3. PICK day \in {today, read[k].day} :
            table[k] = Row(read[k].guest, read[k].reviews,
                           Compute(read[k].reviews, day, Model))
    BY <1>7, <2>1
  <2>4. Lived(today)
    BY <1>6 DEF Lived
  <2>5. Lived(day) /\ day \in Calendar
    BY <1>6, <2>1, <2>2, <2>3, <2>4 DEF Lived
  <2>6. read[k].guest \in Guests /\ read[k].reviews \in SUBSET Records
    BY <2>1 DEF Entries
  <2>7. table[k] \in Rows
    BY <2>3, <2>5, <2>6 DEF Rows
  <2>8. /\ table[k].guest = read[k].guest
        /\ table[k].score = Compute(read[k].reviews, day, Model)
        /\ table[k].incidents = IncidentCount(read[k].reviews)
    BY <2>3 DEF Row
  <2> QED BY <2>1, <2>2, <2>5, <2>6, <2>7, <2>8 DEF Seen
<1>10. found \in Seq(Rows) /\ Len(found) = Len(order) /\ DOMAIN found = DOMAIN order
       /\ \A n \in DOMAIN found : found[n] = table[order[n]]
  <2>1. \A n \in 1..Len(order) : table[order[n]] \in Rows
    BY <1>8, <1>9
  <2>2. found = [n \in 1..Len(order) |-> table[order[n]]]
    BY <1>8
  <2> QED BY <1>8, <2>1, <2>2
<1> HIDE DEF found
<1>11. /\ page \in Seq(Rows) /\ Len(page) <= PageSize /\ Len(page) <= Len(found)
       /\ \A i \in DOMAIN page :
              offset + i \in DOMAIN found /\ page[i] = found[offset + i]
  <2>1. found \in Seq(Rows)
    BY <1>10
  <2>2. offset \in Nat
    BY <1>5
  <2> QED BY <2>1, <2>2, WindowIsCut
<1> HIDE DEF page
<1>12. Len(page) \in Nat /\ DOMAIN page = 1..Len(page) /\ (page # <<>> => Len(page) > 0)
  BY <1>11
<1>13. stays = <<>> /\ Len(stays) = 0
  BY <1>3, NothingYet
<1>14. RequestIsTyped'
  <2>1. RequestIsTyped /\ query # None
    BY <1>3 DEF IInv, RequestIsTyped
  <2>2. rows' \in Seq(Rows) /\ total' \in Nat
    BY <1>2, <1>8, <1>10, <1>11, <1>12
  <2> QED BY <1>2, <1>3, <1>4, <2>1, <2>2 DEF RequestIsTyped
<1>15. Lengths'
  <2>1. Len(page) <= Len(read)
    BY <1>5, <1>8, <1>10, <1>11, <1>12
  <2>2. Len(page) <= total'
    BY <1>2, <1>11, <1>12
  <2>3. Len(stays') <= Len(rows') /\ (pc' = "stays" => Len(stays') < Len(rows'))
    BY <1>2, <1>3, <1>12, <1>13
  <2> QED BY <1>2, <1>3, <1>5, <1>11, <2>1, <2>2, <2>3 DEF Lengths
<1>16. ReadingInv'
  <2>1. ReadingInv /\ Reading
    BY <1>3 DEF IInv, Reading
  <2> QED BY <1>3, <1>4, <2>1
        DEF ReadingInv, Reading, Lived, ListedAreAsked, ReadAreSeen, Seen
<1>17. ASSUME NEW i \in DOMAIN page
       PROVE  /\ offset + i \in DOMAIN order /\ order[offset + i] \in 1..Len(read)
              /\ page[i] = table[order[offset + i]]
              /\ Passes(query, table[order[offset + i]])
  BY <1>8, <1>10, <1>11
<1>18. ASSUME NEW i \in DOMAIN page
       PROVE  RowIsTrue(i)'
  <2> DEFINE k == order[offset + i]
             seen == read[k].reviews
  <2>1. k \in 1..Len(read) /\ page[i] = table[k] /\ Passes(query, page[i])
    BY <1>17
  <2> HIDE DEF k
  <2>2. /\ page[i].guest = listed[k] /\ listed[k] \in Guests /\ k \in DOMAIN listed
        /\ k \in DOMAIN read
        /\ \E day \in Calendar : Lived(day) /\ page[i].score = Compute(seen, day, Model)
        /\ page[i].incidents = IncidentCount(seen)
        /\ seen \in SUBSET file[listed[k]] /\ Seen(listed[k], seen)
    BY <1>9, <2>1
  <2>3. listed[k] \in open /\ Matches(query, listed[k])
    BY <1>6, <2>2 DEF ListedAreAsked
  <2>4. TierFits(query, page[i])
    BY <2>1 DEF Passes, TierFits
  <2>5. query.incidents => Incriminated(seen)
    <3>1. query.incidents => page[i].incidents > 0
      BY <2>1 DEF Passes
    <3>2. seen \in SUBSET Records
      <4>1. read[k] \in Entries
        BY <1>5, <2>2
      <4> QED BY <4>1 DEF Entries
    <3>3. IsFiniteSet(seen)
      <4>1. IsFiniteSet(file[listed[k]])
        BY <1>4, <2>2 DEF StoreIsTyped
      <4> QED BY <2>2, <4>1, FS_Subset
    <3> HIDE DEF seen
    <3> QED BY <2>2, <3>1, <3>2, <3>3, IncidentsAreCounted
  <2>6. i \notin DOMAIN stays'
    BY <1>3, <1>13
  <2> HIDE DEF seen
  <2>7. PICK day \in Calendar : Lived(day) /\ page[i].score = Compute(seen, day, Model)
    BY <2>2
  <2> QED BY <1>2, <1>3, <1>4, <2>2, <2>3, <2>4, <2>5, <2>6, <2>7
        DEF RowIsTrue, Seen, Lived
<1>19. ASSUME NEW i \in DOMAIN page, NEW j \in DOMAIN page, page[i].guest = page[j].guest
       PROVE  i = j
  <2>1. listed[order[offset + i]] = listed[order[offset + j]]
    BY <1>9, <1>17, <1>19
  <2>2. order[offset + i] = order[offset + j]
    <3>1. order[offset + i] \in DOMAIN listed /\ order[offset + j] \in DOMAIN listed
      BY <1>9, <1>17
    <3> QED BY <1>6, <2>1, <3>1 DEF ListedAreAsked
  <2>3. offset + i = offset + j
    BY <1>8, <1>17, <2>2
  <2>4. i \in Int /\ j \in Int
    BY <1>12
  <2> QED BY <1>5, <2>3, <2>4
<1>20. RowsInv'
  BY <1>2, <1>18, <1>19 DEF RowsInv
<1> QED BY <1>4, <1>14, <1>15, <1>16, <1>20 DEF IInv

-----------------------------------------------------------------------------
(* The theorems.                                                            *)

LEMMA Unchanged ==
    ASSUME IInv, UNCHANGED vars
    PROVE  IInv'
<1>1. UNCHANGED <<request, book, began>> /\ StoreIsTyped /\ UNCHANGED store
  BY DEF vars, member, IInv
<1>2. StoreIsTyped'
  BY <1>1, StoreStays
<1>3. Grows
  <2>1. today \in Nat
    BY <1>1, DirectoryAssumption DEF StoreIsTyped
  <2> QED BY <1>1, <2>1 DEF Grows, store
<1> QED BY <1>1, <1>2, <1>3, GrownStore

\* The inductive invariant: what a request has read of a guest lies between
\* the record as the request began and the record as it is, whatever is filed
\* meanwhile (the handlers of internal/api and internal/graphqlapi).
THEOREM Invariance == Spec => []IInv
<1>1. Init => IInv
  BY Initially
<1>2. IInv /\ [Next]_vars => IInv'
  <2> SUFFICES ASSUME IInv, [Next]_vars
               PROVE  IInv'
    OBVIOUS
  <2>1. CASE \E g \in Guests : OpenFile(g)
    BY <2>1, OpenFileStep
  <2>2. CASE \E g \in Guests, lag \in Lags : \E s \in Samples[g] : File(g, s, lag)
    BY <2>2, FileStep
  <2>3. CASE Tick
    BY <2>3, TickStep
  <2>4. CASE \E q \in Queries : Ask(q)
    BY <2>4, AskStep
  <2>5. CASE ListGuests
    BY <2>5, ListGuestsStep
  <2>6. CASE AllReviews
    BY <2>6, AllReviewsStep
  <2>7. CASE ReviewsForGuest
    BY <2>7, ReviewsForGuestStep
  <2>8. CASE Finish
    BY <2>8, FinishStep
  <2>9. CASE ResolveStays
    BY <2>9, ResolveStaysStep
  <2>10. CASE FinishStats
    BY <2>10, FinishStatsStep
  <2>11. CASE NextPage
    BY <2>11, NextPageStep
  <2>12. CASE Leave \/ Fail
    BY <2>12, ResetStep DEF Leave, Fail
  <2>13. CASE UNCHANGED vars
    BY <2>13, Unchanged
  <2> QED BY <2>1, <2>2, <2>3, <2>4, <2>5, <2>6, <2>7, <2>8, <2>9, <2>10, <2>11, <2>12,
             <2>13 DEF Next
<1> QED BY <1>1, <1>2, PTL DEF Spec

\* A request answers with at most a page, of guests it has read, and resolves
\* the stays of no more rows than it shows.
THEOREM TypeCorrect == Spec => []TypeOK
<1>1. IInv => TypeOK
  <2> SUFFICES ASSUME IInv PROVE TypeOK
    OBVIOUS
  <2>1. Len(rows) <= Min({PageSize, Len(read)})
    <3>1. PageSize \in Int /\ Len(read) \in Int /\ Len(rows) <= PageSize
          /\ Len(rows) <= Len(read)
      BY DirectoryAssumption DEF IInv, RequestIsTyped, Lengths
    <3>2. Min({PageSize, Len(read)}) = IF PageSize <= Len(read) THEN PageSize ELSE Len(read)
      BY <3>1, LowerOf
    <3> QED BY <3>1, <3>2
  <2>2. /\ database \in {"postgres", "file"} /\ open \subseteq Guests /\ DOMAIN file = Guests
        /\ \A g \in Guests : /\ Cardinality(file[g]) <= MaxStays[g]
                             /\ g \notin open => file[g] = {}
        /\ today \in Calendar
    BY DEF IInv, StoreIsTyped
  <2>3. /\ pc \in {"idle", "list", "all", "read", "stays", "answered"}
        /\ query \in Queries \cup {None} /\ (query = None <=> pc = "idle")
        /\ at \in Calendar \cup {0} /\ at <= today
    BY DEF IInv, RequestIsTyped
  <2>4. /\ Len(read) <= Len(listed) /\ Len(stays) <= Len(rows)
        /\ Len(rows) <= total \/ total = 0
    BY DEF IInv, Lengths
  <2> QED BY <2>1, <2>2, <2>3, <2>4 DEF TypeOK
<1> QED BY <1>1, Invariance, PTL

\* Whatever is filed while a request reads, and however long it takes, each
\* guest it shows is one it was asked for, shown once, with the score of this
\* guest's reviews as they stood at one moment of the request, and with stays
\* that leave out none of them (resolveDirectory, resolveSearch,
\* handleListGuests).
THEOREM RowsTrue == Spec => []RowsAreTrue
<1>1. IInv => RowsAreTrue
  <2> SUFFICES ASSUME IInv, NEW i \in DOMAIN rows
               PROVE  LET row == rows[i]
                          g == row.guest
                      IN  /\ g \in open /\ Matches(query, g)
                          /\ \A j \in DOMAIN rows : rows[j].guest = g => i = j
                          /\ query.tier \in {"", row.score.tier}
                          /\ \E seen \in Between(began.file[g], file[g]),
                                day \in Calendar \cap (began.day)..today :
                                 /\ row.score = Compute(seen, day, Model)
                                 /\ query.incidents =>
                                        \E r \in seen : r.incidents # <<>> /\ Scoreable(r)
                                 /\ i \in DOMAIN stays => seen \subseteq stays[i]
    BY DEF RowsAreTrue
  <2> DEFINE g == rows[i].guest
  <2>1. RowIsTrue(i) /\ \A j \in DOMAIN rows : rows[j].guest = g => i = j
    BY DEF IInv, RowsInv
  <2>2. g \in open /\ Matches(query, g) /\ TierFits(query, rows[i])
    BY <2>1 DEF RowIsTrue
  <2>3. query.tier \in {"", rows[i].score.tier}
    BY <2>2 DEF TierFits
  <2>4. PICK seen \in SUBSET file[g], day \in Calendar :
            /\ Seen(g, seen) /\ Lived(day)
            /\ rows[i].score = Compute(seen, day, Model)
            /\ query.incidents => Incriminated(seen)
            /\ i \in DOMAIN stays => seen \subseteq stays[i]
    BY <2>1 DEF RowIsTrue
  <2>5. seen \in Between(began.file[g], file[g])
    BY <2>4 DEF Between, Seen
  <2>6. day \in Calendar \cap (began.day)..today
    <3>1. began.day \in Calendar /\ today \in Calendar /\ Calendar \subseteq Nat
      <4>1. Len(rows) # 0
        <5>1. rows \in Seq(Rows)
          BY DEF IInv, RequestIsTyped
        <5> QED BY <5>1
      <4>2. Reading
        BY <4>1 DEF IInv, RequestIsTyped, Lengths, Reading
      <4> QED BY <4>2, DirectoryAssumption DEF IInv, ReadingInv, StoreIsTyped
    <3> QED BY <2>4, <3>1 DEF Lived
  <2>7. query.incidents => \E r \in seen : r.incidents # <<>> /\ Scoreable(r)
    BY <2>4 DEF Incriminated
  <2> HIDE DEF g
  <2>8. \E s \in Between(began.file[g], file[g]), d \in Calendar \cap (began.day)..today :
            /\ rows[i].score = Compute(s, d, Model)
            /\ query.incidents => \E r \in s : r.incidents # <<>> /\ Scoreable(r)
            /\ i \in DOMAIN stays => s \subseteq stays[i]
    BY <2>4, <2>5, <2>6, <2>7
  <2> QED BY <2>1, <2>2, <2>3, <2>8, Zenon DEF g
<1> QED BY <1>1, Invariance, PTL

-----------------------------------------------------------------------------
(* Orders.                                                                  *)

\* s runs through S, each element once, in the order R.
Enumerates(s, S, R) ==
    /\ s \in [1..Cardinality(S) -> S]
    /\ \A i, j \in DOMAIN s : i < j => s[i] # s[j] /\ <<s[i], s[j]>> \in R

OneWay(S, R) == \A a, b \in S : ~(<<a, b>> \in R /\ <<b, a>> \in R)

\* Each element has its place.
Placed(s, S) ==
    /\ Cardinality(S) \in Nat /\ DOMAIN s = 1..Cardinality(S)
    /\ s \in [1..Cardinality(S) -> S]
    /\ \A i, j \in DOMAIN s : s[i] = s[j] => i = j
    /\ \A x \in S : \E i \in DOMAIN s : s[i] = x

\* Nothing is left out of a listing as long as the set.
LEMMA RunsThrough ==
    ASSUME NEW S, IsFiniteSet(S), NEW R, NEW s, Enumerates(s, S, R)
    PROVE  Placed(s, S)
<1> DEFINE n == Cardinality(S)
           I == 1..n
<1>1. n \in Nat
  BY FS_CardinalityType
<1>2. s \in [I -> S] /\ DOMAIN s = I
  BY DEF Enumerates
<1>3. \A i, j \in I : s[i] = s[j] => i = j
  <2> SUFFICES ASSUME NEW i \in I, NEW j \in I, s[i] = s[j], i # j
               PROVE  FALSE
    OBVIOUS
  <2>1. i < j \/ j < i
    BY <1>1
  <2> QED BY <1>2, <2>1 DEF Enumerates
<1>4. IsFiniteSet(I) /\ Cardinality(I) = n
  <2> HIDE DEF n
  <2> QED BY <1>1, FS_Interval
<1> HIDE DEF I
<1>5. s \in Injection(I, S)
  BY <1>2, <1>3 DEF Injection, IsInjective
<1>6. s \in Surjection(I, S)
  BY <1>4, <1>5, FS_Injection
<1>7. \A x \in S : \E i \in I : s[i] = x
  BY <1>2, <1>6 DEF Surjection
<1> QED BY <1>1, <1>2, <1>3, <1>7 DEF I, Placed

\* There is one way to sort a set.
LEMMA OneOrder ==
    ASSUME NEW S, IsFiniteSet(S), NEW R, OneWay(S, R),
           NEW s, Enumerates(s, S, R), NEW t, Enumerates(t, S, R)
    PROVE  s = t
<1> DEFINE n == Cardinality(S)
           apart == {i \in 1..n : s[i] # t[i]}
<1>0. Placed(s, S) /\ Placed(t, S)
  BY RunsThrough
<1>1. /\ n \in Nat /\ DOMAIN s = 1..n /\ DOMAIN t = 1..n
      /\ s \in [1..n -> S] /\ t \in [1..n -> S]
      /\ \A i, j \in 1..n : s[i] = s[j] => i = j
      /\ \A i, j \in 1..n : t[i] = t[j] => i = j
      /\ \A x \in S : \E i \in 1..n : s[i] = x
      /\ \A x \in S : \E i \in 1..n : t[i] = x
  BY <1>0 DEF Placed
<1>2. \A i, j \in 1..n : i < j => <<s[i], s[j]>> \in R /\ <<t[i], t[j]>> \in R
  BY <1>1 DEF Enumerates
<1> HIDE DEF n
<1> SUFFICES ASSUME apart # {} PROVE FALSE
  <2>1. apart = {} => \A i \in 1..n : s[i] = t[i]
    OBVIOUS
  <2> HIDE DEF apart
  <2>2. s = [i \in 1..n |-> s[i]] /\ t = [i \in 1..n |-> t[i]]
    BY <1>1
  <2> QED BY <2>1, <2>2, Zenon
<1> DEFINE i == Min(apart)
<1>3. i \in apart /\ \A j \in apart : i <= j
  <2>1. apart \in SUBSET Nat
    BY <1>1
  <2> HIDE DEF apart
  <2> QED BY <2>1, HasLeast
<1> HIDE DEF i
<1>4. i \in 1..n /\ s[i] # t[i] /\ s[i] \in S /\ t[i] \in S
  BY <1>1, <1>3
<1>5. \A j \in 1..n : j < i => s[j] = t[j]
  BY <1>3, <1>4, <1>1
<1>6. <<s[i], t[i]>> \in R
  <2>1. PICK j \in 1..n : s[j] = t[i]
    BY <1>1, <1>4
  <2>2. ~(j < i)
    BY <1>1, <1>4, <1>5, <2>1
  <2>3. i < j
    BY <1>1, <1>4, <2>1, <2>2
  <2> QED BY <1>2, <1>4, <2>1, <2>3
<1>7. <<t[i], s[i]>> \in R
  <2>1. PICK j \in 1..n : t[j] = s[i]
    BY <1>1, <1>4
  <2>2. ~(j < i)
    BY <1>1, <1>4, <1>5, <2>1
  <2>3. i < j
    BY <1>1, <1>4, <2>1, <2>2
  <2> QED BY <1>2, <1>4, <2>1, <2>3
<1> QED BY <1>4, <1>6, <1>7 DEF OneWay

-----------------------------------------------------------------------------
(* What the pages are cut from: one listing, and one order of its rows,     *)
(* as long as nothing changes.                                              *)

RowNow(g) == Row(g, file[g], Compute(file[g], today, Model))
TableNow(list) == [i \in DOMAIN list |-> RowNow(list[i])]

Certain == database = "postgres" \/ \A g, h \in open : Name[g] = Name[h] => g = h

Found == {g \in open : Matches(query, g)}

\* Whom the store lists before whom, when it can tell.
Precedes == {pair \in Guests \X Guests :
                 LET g == pair[1]
                     h == pair[2]
                 IN  \/ Name[g] < Name[h]
                     \/ Name[g] = Name[h] /\ database = "postgres" /\ Id[g] < Id[h]}

LEMMA ListingEnumerates ==
    ASSUME StoreIsTyped, Certain, NEW l \in Listings
    PROVE  IsFiniteSet(Found) /\ Found \in SUBSET Guests /\ Enumerates(l, Found, Precedes)
<1>1. Found \in SUBSET Guests /\ Found \in SUBSET open
  BY DEF StoreIsTyped, Found
<1>2. IsFiniteSet(Found)
  BY <1>1, FS_Subset, DirectoryAssumption
<1>3. /\ l \in [1..Cardinality(Found) -> Found]
      /\ \A i, j \in DOMAIN l : i < j =>
             /\ l[i] # l[j] /\ Name[l[i]] <= Name[l[j]]
             /\ database = "postgres" /\ Name[l[i]] = Name[l[j]] => Id[l[i]] < Id[l[j]]
  BY DEF Listings, Found
<1>4. ASSUME NEW i \in DOMAIN l, NEW j \in DOMAIN l, i < j
      PROVE  l[i] # l[j] /\ <<l[i], l[j]>> \in Precedes
  <2>1. l[i] \in Guests /\ l[j] \in Guests /\ l[i] \in open /\ l[j] \in open
    BY <1>1, <1>3
  <2>2. Name[l[i]] \in Nat /\ Name[l[j]] \in Nat
    BY <2>1, DirectoryAssumption
  <2>3. l[i] # l[j] /\ Name[l[i]] <= Name[l[j]]
        /\ (database = "postgres" /\ Name[l[i]] = Name[l[j]] => Id[l[i]] < Id[l[j]])
    BY <1>3, <1>4
  <2>4. Name[l[i]] < Name[l[j]] \/ Name[l[i]] = Name[l[j]]
    BY <2>2, <2>3
  <2>5. Name[l[i]] = Name[l[j]] => database = "postgres"
    BY <2>1, <2>3 DEF Certain
  <2> QED BY <2>1, <2>3, <2>4, <2>5 DEF Precedes
<1> QED BY <1>1, <1>2, <1>3, <1>4 DEF Enumerates

LEMMA PrecedesOneWay ==
    ASSUME NEW S \in SUBSET Guests
    PROVE  OneWay(S, Precedes)
<1> SUFFICES ASSUME NEW a \in S, NEW b \in S, <<a, b>> \in Precedes, <<b, a>> \in Precedes
             PROVE  FALSE
  BY DEF OneWay
<1>1. Name[a] \in Nat /\ Name[b] \in Nat /\ Id[a] \in Nat /\ Id[b] \in Nat
  BY DirectoryAssumption
<1>2. /\ Name[a] < Name[b] \/ (Name[a] = Name[b] /\ Id[a] < Id[b])
      /\ Name[b] < Name[a] \/ (Name[b] = Name[a] /\ Id[b] < Id[a])
  BY DEF Precedes
<1> QED BY <1>1, <1>2

\* Asked again, the store lists the same guests in the same order.
LEMMA OneListing ==
    ASSUME StoreIsTyped, Certain, NEW l \in Listings, NEW m \in Listings
    PROVE  l = m
<1>1. /\ IsFiniteSet(Found) /\ Found \in SUBSET Guests
      /\ Enumerates(l, Found, Precedes) /\ Enumerates(m, Found, Precedes)
  BY ListingEnumerates
<1>2. OneWay(Found, Precedes)
  BY <1>1, PrecedesOneWay
<1> QED BY <1>1, <1>2, OneOrder

-----------------------------------------------------------------------------
Comparable(row) ==
    /\ row.guest \in Guests
    /\ row.score.composite \in Int /\ row.score.stays \in Int
    /\ row.last # None => row.last \in Int

LEMMA BeforeOneWay ==
    ASSUME NEW sort \in Sorts, NEW a, NEW b, Comparable(a), Comparable(b),
           Before(sort, a, b), Before(sort, b, a)
    PROVE  FALSE
<1>1. Name[a.guest] \in Nat /\ Name[b.guest] \in Nat
  BY DirectoryAssumption DEF Comparable
<1>2. CASE sort = "name"
  BY <1>1, <1>2 DEF Before
<1>3. CASE sort = "reviews"
  BY <1>3 DEF Before, Comparable
<1>4. CASE sort = "recent"
  BY <1>4 DEF Before, Comparable
<1>5. CASE sort = "composite"
  BY <1>5 DEF Before, Comparable
<1>6. CASE sort = "none"
  BY <1>6 DEF Before
<1>7. CASE sort = "score"
  BY <1>1, <1>7 DEF Before, Comparable
<1> QED BY <1>2, <1>3, <1>4, <1>5, <1>6, <1>7 DEF Sorts

Passing(table) == {i \in DOMAIN table : Passes(query, table[i])}

First(table) ==
    {pair \in (DOMAIN table) \X (DOMAIN table) :
        LET a == table[pair[1]]
            b == table[pair[2]]
        IN  Before(query.sort, a, b) \/ (~Before(query.sort, b, a) /\ pair[1] < pair[2])}

Table(table, n) ==
    n \in Nat /\ DOMAIN table = 1..n /\ \A i \in DOMAIN table : Comparable(table[i])

LEMMA OrderEnumerates ==
    ASSUME NEW n, NEW table, Table(table, n), NEW order \in Orders(table)
    PROVE  /\ IsFiniteSet(Passing(table)) /\ Passing(table) \in SUBSET 1..n
           /\ Enumerates(order, Passing(table), First(table))
<1>1. Passing(table) \in SUBSET (1..n) /\ n \in Nat /\ DOMAIN table = 1..n
  BY DEF Table, Passing
<1>2. IsFiniteSet(Passing(table))
  <2>1. IsFiniteSet(1..n)
    BY <1>1, FS_Interval
  <2> QED BY <1>1, <2>1, FS_Subset
<1>3. /\ order \in [1..Cardinality(Passing(table)) -> Passing(table)]
      /\ \A i, j \in DOMAIN order : i < j =>
             /\ order[i] # order[j]
             /\ \/ Before(query.sort, table[order[i]], table[order[j]])
                \/ ~Before(query.sort, table[order[j]], table[order[i]]) /\ order[i] < order[j]
  BY DEF Orders, Passing
<1>4. ASSUME NEW i \in DOMAIN order, NEW j \in DOMAIN order, i < j
      PROVE  order[i] # order[j] /\ <<order[i], order[j]>> \in First(table)
  <2>1. order[i] \in DOMAIN table /\ order[j] \in DOMAIN table
    BY <1>1, <1>3
  <2> QED BY <1>3, <1>4, <2>1 DEF First
<1> QED BY <1>1, <1>2, <1>3, <1>4 DEF Enumerates

\* The rows of a table have one order.
LEMMA OneOrderOfTable ==
    ASSUME NEW n, NEW table, Table(table, n), query.sort \in Sorts,
           NEW order \in Orders(table), NEW other \in Orders(table)
    PROVE  order = other
<1>1. /\ IsFiniteSet(Passing(table)) /\ Passing(table) \in SUBSET 1..n
      /\ Enumerates(order, Passing(table), First(table))
      /\ Enumerates(other, Passing(table), First(table))
  BY OrderEnumerates
<1>2. OneWay(Passing(table), First(table))
  <2> SUFFICES ASSUME NEW i \in Passing(table), NEW j \in Passing(table),
                      <<i, j>> \in First(table), <<j, i>> \in First(table)
               PROVE  FALSE
    BY DEF OneWay
  <2>1. i \in Int /\ j \in Int /\ Comparable(table[i]) /\ Comparable(table[j])
    BY <1>1 DEF Table, Passing
  <2>2. /\ Before(query.sort, table[i], table[j])
               \/ (~Before(query.sort, table[j], table[i]) /\ i < j)
        /\ Before(query.sort, table[j], table[i])
               \/ (~Before(query.sort, table[i], table[j]) /\ j < i)
    BY DEF First
  <2>3. ~(Before(query.sort, table[i], table[j]) /\ Before(query.sort, table[j], table[i]))
    BY <2>1, BeforeOneWay
  <2> QED BY <2>1, <2>2, <2>3
<1> QED BY <1>1, <1>2, OneOrder

LEMMA RowFields ==
    ASSUME NEW g, NEW rs, NEW score
    PROVE  LET row == Row(g, rs, score)
           IN  /\ row.guest = g /\ row.score = score /\ row.incidents = IncidentCount(rs)
               /\ row.last = LastStayAt(rs)
BY DEF Row

LEMMA LastTyped ==
    ASSUME NEW rs \in SUBSET Records, IsFiniteSet(rs)
    PROVE  LastStayAt(rs) # None => LastStayAt(rs) \in Int
<1> SUFFICES ASSUME rs # {} PROVE LastStayAt(rs) \in Int
  BY DEF LastStayAt
<1> DEFINE days == {r.checkOut : r \in rs}
           F == [r \in rs |-> r.checkOut]
<1>1. days \in SUBSET Int /\ days # {}
  BY DEF Records
<1>2. IsFiniteSet(days)
  <2>1. F \in Surjection(rs, days)
    BY DEF Surjection
  <2> HIDE DEF F, days
  <2> QED BY <2>1, FS_Surjection
<1>3. LastStayAt(rs) = Max(days)
  BY DEF LastStayAt
<1> HIDE DEF days
<1>4. PICK x \in days : \A y \in days : y <= x
  BY <1>1, <1>2, HasGreatest
<1>5. Max(days) = x
  BY <1>1, <1>4, HighestIn
<1> QED BY <1>1, <1>3, <1>4, <1>5

\* What a score is computed from, if anything is.
Counted(rs) == {r \in rs : Scoreable(r)}

LEMMA CountedIsCountable ==
    ASSUME NEW rs \in SUBSET Records, IsFiniteSet(rs), NEW day \in Int
    PROVE  IsFiniteSet(Counted(rs)) /\ (Counted(rs) # {} => Countable(Counted(rs), day))
<1>1. IsFiniteSet(Counted(rs))
  BY FS_Subset DEF Counted
<1>2. ASSUME NEW r \in Counted(rs)
      PROVE  /\ r.submittedAt \in Int /\ r.q \in Nat
             /\ r.incidents \in Seq(Incidents) /\ r.commendations \in Seq(DOMAIN BaseBonus)
  <2>1. r \in Records
    BY DEF Counted
  <2>2. /\ r.submittedAt \in Int
        /\ r.incidents \in Seq(Incidents) /\ r.commendations \in Seq(DOMAIN BaseBonus)
    BY <2>1 DEF Records
  <2>3. r.q \in Nat
    <3>1. r.q \in 100..500
      BY <2>1 DEF Records
    <3> QED BY <3>1
  <2> QED BY <2>2, <2>3
<1> QED BY <1>1, <1>2 DEF Countable

LEMMA ComputeIs ==
    ASSUME NEW rs, NEW day
    PROVE  \E n : Compute(rs, day, Model) =
               IF Counted(rs) = {} THEN Opening(n, Model)
               ELSE Earned(Counted(rs), n, day, Model)
BY DEF Compute, Counted

\* Scores are numbers of the scale, of a number of stays.
LEMMA ScoreTyped ==
    ASSUME HalvingIsFraction, NEW rs \in SUBSET Records, IsFiniteSet(rs), NEW day \in Int
    PROVE  /\ Compute(rs, day, Model).composite \in Int
           /\ Compute(rs, day, Model).stays \in Nat
<1> DEFINE R == Counted(rs)
<1>1. PICK n : Compute(rs, day, Model) =
                   IF R = {} THEN Opening(n, Model) ELSE Earned(R, n, day, Model)
  BY ComputeIs
<1>2. IsFiniteSet(R) /\ (R # {} => Countable(R, day))
  BY CountedIsCountable
<1> HIDE DEF R
<1>3. CASE R = {}
  <2>1. Compute(rs, day, Model) = Opening(n, Model)
    BY <1>1, <1>3
  <2>2. /\ Compute(rs, day, Model).composite = Model.newGuestScore
        /\ Compute(rs, day, Model).stays = 0
    BY <2>1, OpeningFields
  <2>3. Model.newGuestScore = 5000
    BY DEF Model, DefaultModel
  <2> QED BY <2>2, <2>3
<1>4. CASE R # {}
  <2>1. Compute(rs, day, Model) = Earned(R, n, day, Model)
    BY <1>1, <1>4
  <2>2. /\ Compute(rs, day, Model).composite = Composite(R, day, Model)
        /\ Compute(rs, day, Model).stays = Cardinality(R)
    BY <2>1, EarnedFields
  <2>3. Composite(R, day, Model) \in Points
    BY <1>2, <1>4, CompositeTyped DEF Model
  <2>4. Cardinality(R) \in Nat
    BY <1>2, FS_CardinalityType
  <2>5. \A p \in Points : p \in Int
    BY DEF Points
  <2> QED BY <2>2, <2>3, <2>4, <2>5
<1> QED BY <1>3, <1>4

LEMMA RowsCompare ==
    ASSUME HalvingIsFraction, StoreIsTyped, NEW g \in Guests
    PROVE  Comparable(RowNow(g)) /\ RowNow(g).guest = g
<1>1. file[g] \in SUBSET Records /\ IsFiniteSet(file[g]) /\ today \in Int
  BY DirectoryAssumption DEF StoreIsTyped
<1> DEFINE score == Compute(file[g], today, Model)
<1>2. score.composite \in Int /\ score.stays \in Nat
  BY <1>1, ScoreTyped
<1>3. LastStayAt(file[g]) # None => LastStayAt(file[g]) \in Int
  BY <1>1, LastTyped
<1>4. /\ RowNow(g).guest = g /\ RowNow(g).score = score
      /\ RowNow(g).last = LastStayAt(file[g])
  BY RowFields DEF RowNow
<1> HIDE DEF score
<1> QED BY <1>2, <1>3, <1>4 DEF Comparable

LEMMA TableOfList ==
    ASSUME HalvingIsFraction, StoreIsTyped, NEW list \in Seq(Guests)
    PROVE  Table(TableNow(list), Len(list))
<1>1. DOMAIN TableNow(list) = 1..Len(list) /\ Len(list) \in Nat /\ DOMAIN list = 1..Len(list)
  BY DEF TableNow
<1>2. ASSUME NEW i \in DOMAIN list
      PROVE  Comparable(TableNow(list)[i])
  <2>1. list[i] \in Guests /\ TableNow(list)[i] = RowNow(list[i])
    BY DEF TableNow
  <2> QED BY <2>1, RowsCompare
<1> QED BY <1>1, <1>2 DEF Table

-----------------------------------------------------------------------------
(* The pages, while nothing changes.                                        *)

\* While nothing changes, a request reads the store as it is.
CalmRead ==
    still /\ Reading =>
        /\ listed \in Listings /\ at = today
        /\ began = [open |-> open, file |-> file, day |-> today]
        /\ \A i \in DOMAIN read :
               read[i] = [guest |-> listed[i], reviews |-> file[listed[i]], day |-> today]
        /\ query.kind = "stats" /\ pc # "all" => all = file

Flow ==
    /\ pc = "idle" => still /\ offset = 0 /\ book = <<>>
    /\ pc # "idle" /\ query.kind \notin {"list", "guests"} => offset = 0
    /\ pc \in {"stays", "answered"} => Enough
    /\ pc = "all" => query.kind = "stats"

\* The guests read about, and where the page shown ends in their order.
Asked == [i \in DOMAIN read |-> listed[i]]
End(order) == Min({offset + PageSize, Len(order)})

ShownSoFar(order) ==
    /\ offset <= Len(order)
    /\ Len(rows) = End(order) - offset
    /\ query.kind = "list" => total = Len(order)
    /\ book = [n \in 1..End(order) |-> listed[order[n]]]

PageInv ==
    still /\ Certain /\ pc \in {"stays", "answered"} /\ query.kind # "stats" =>
        \E order \in Orders(TableNow(Asked)) : ShownSoFar(order)

\* The member has been through what comes before the page it has asked for.
NextInv ==
    still /\ Certain /\ pc \in {"list", "all", "read"} =>
        /\ offset = 0 => book = <<>>
        /\ \A list \in Listings : \A order \in Orders(TableNow(list)) :
               /\ offset <= Len(order)
               /\ book = [n \in 1..offset |-> list[order[n]]]

PInv == Flow /\ CalmRead /\ PageInv /\ NextInv

-----------------------------------------------------------------------------
LEMMA SameStore ==
    ASSUME UNCHANGED <<store, query>>
    PROVE  /\ Listings' = Listings /\ Certain' = Certain
           /\ \A list : Orders(TableNow(list))' = Orders(TableNow(list))
<1>1. database' = database /\ open' = open /\ file' = file /\ today' = today /\ query' = query
  BY DEF store
<1>2. Listings' = Listings
  BY <1>1 DEF Listings
<1>3. Certain' = Certain
  BY <1>1 DEF Certain
<1>4. ASSUME NEW list
      PROVE  Orders(TableNow(list))' = Orders(TableNow(list))
  BY <1>1 DEF Orders, TableNow, RowNow
<1> QED BY <1>2, <1>3, <1>4

LEMMA PagesInitially ==
    Init => PInv
BY DEF Init, PInv, Flow, CalmRead, PageInv, NextInv, Reading

\* A store that changes while a member reads is no longer still.
LEMMA StoreMoves ==
    ASSUME PInv, Changed, UNCHANGED <<request, book, began>>
    PROVE  PInv'
<1>1. /\ pc' = pc /\ query' = query /\ offset' = offset /\ read' = read /\ listed' = listed
      /\ book' = book /\ still' = (pc = "idle")
  BY DEF request, Changed
<1>2. Flow'
  BY <1>1 DEF PInv, Flow, Enough
<1>3. CASE pc = "idle"
  BY <1>1, <1>2, <1>3 DEF PInv, CalmRead, PageInv, NextInv, Reading
<1>4. CASE pc # "idle"
  BY <1>1, <1>2, <1>4 DEF PInv, CalmRead, PageInv, NextInv
<1> QED BY <1>3, <1>4

LEMMA PagesStutter ==
    ASSUME PInv, UNCHANGED vars
    PROVE  PInv'
<1>1. /\ database' = database /\ open' = open /\ file' = file /\ today' = today
      /\ pc' = pc /\ query' = query /\ offset' = offset /\ at' = at /\ all' = all
      /\ listed' = listed /\ read' = read /\ rows' = rows /\ total' = total
      /\ book' = book /\ began' = began /\ still' = still
  BY DEF vars, store, request, member
<1>2. /\ Listings' = Listings /\ Certain' = Certain
      /\ \A list : Orders(TableNow(list))' = Orders(TableNow(list))
  BY SameStore DEF vars, request
<1>3. Flow'
  BY <1>1 DEF PInv, Flow, Enough
<1>4. CalmRead'
  BY <1>1, <1>2 DEF PInv, CalmRead, Reading
<1>5. Asked' = Asked
  BY <1>1 DEF Asked
<1>6. Orders(TableNow(Asked))' = Orders(TableNow(Asked))
  BY <1>1 DEF Orders, TableNow, RowNow, Asked
<1>7. PageInv'
  BY <1>1, <1>2, <1>6 DEF PInv, PageInv, ShownSoFar, End
<1>8. NextInv'
  BY <1>1, <1>2 DEF PInv, NextInv
<1> QED BY <1>3, <1>4, <1>7, <1>8 DEF PInv

LEMMA PagesReset ==
    ASSUME Reset
    PROVE  PInv'
BY DEF Reset, PInv, Flow, CalmRead, PageInv, NextInv, Reading

LEMMA ListingTyped ==
    ASSUME StoreIsTyped, NEW list \in Listings
    PROVE  list \in Seq(Guests) /\ Len(list) = Cardinality(Found)
           /\ \A i \in DOMAIN list : list[i] \in Found
<1>1. Found \in SUBSET Guests
  BY DEF StoreIsTyped, Found
<1>2. IsFiniteSet(Found)
  BY <1>1, FS_Subset, DirectoryAssumption
<1>3. Cardinality(Found) \in Nat
  BY <1>2, FS_CardinalityType
<1>4. list \in [1..Cardinality(Found) -> Found]
  BY DEF Listings, Found
<1>5. list \in [1..Cardinality(Found) -> Guests]
  BY <1>1, <1>4
<1> QED BY <1>3, <1>4, <1>5

\* An order of a list of guests, as far as its length and its places go.
LEMMA OrderOfList ==
    ASSUME NEW list \in Seq(Guests), NEW order \in Orders(TableNow(list))
    PROVE  /\ DOMAIN order = 1..Len(order) /\ Len(order) \in Nat /\ Len(order) <= Len(list)
           /\ \A n \in DOMAIN order :
                  order[n] \in 1..Len(list) /\ Passes(query, RowNow(list[order[n]]))
           /\ \A m, n \in DOMAIN order : order[m] = order[n] => m = n
<1>1. DOMAIN TableNow(list) = 1..Len(list) /\ Len(list) \in Nat
  BY DEF TableNow
<1>2. \A i \in 1..Len(list) : TableNow(list)[i] = RowNow(list[i])
  BY DEF TableNow
<1>3. /\ DOMAIN order = 1..Len(order) /\ Len(order) \in Nat /\ Len(order) <= Len(list)
      /\ \A n \in DOMAIN order :
             order[n] \in 1..Len(list) /\ Passes(query, TableNow(list)[order[n]])
      /\ \A m, n \in DOMAIN order : order[m] = order[n] => m = n
  BY <1>1, OrderOfTable
<1> QED BY <1>2, <1>3

LEMMA FirstPage ==
    StoreIsTyped /\ offset = 0 /\ book = <<>> => NextInv
<1> SUFFICES ASSUME StoreIsTyped, offset = 0, book = <<>>,
                    NEW list \in Listings, NEW order \in Orders(TableNow(list))
             PROVE  offset <= Len(order) /\ book = [n \in 1..offset |-> list[order[n]]]
  BY DEF NextInv
<1>1. Len(order) \in Nat
  BY ListingTyped, OrderOfList
<1>2. [n \in 1..0 |-> list[order[n]]] = <<>>
  OBVIOUS
<1> QED BY <1>1, <1>2

LEMMA FirstPageNext ==
    (StoreIsTyped /\ offset = 0 /\ book = <<>> => NextInv)'
BY FirstPage, PTL

LEMMA PagesAsk ==
    ASSUME IInv, PInv, NEW q \in Queries, Ask(q)
    PROVE  PInv'
<1>1. StoreIsTyped'
  BY AskStep DEF IInv
<1>2. /\ pc = "idle" /\ pc' = "list" /\ offset' = offset /\ book' = book /\ still' = still
  BY DEF Ask, member
<1>3. offset = 0 /\ book = <<>>
  BY <1>2 DEF PInv, Flow
<1>4. NextInv'
  BY <1>1, <1>2, <1>3, FirstPageNext
<1> QED BY <1>2, <1>3, <1>4 DEF PInv, Flow, CalmRead, PageInv, Reading

LEMMA PagesListGuests ==
    ASSUME IInv, PInv, ListGuests
    PROVE  PInv'
<1>1. /\ UNCHANGED <<store, query>> /\ pc = "list" /\ query' = query
      /\ pc' = IF query.kind = "stats" THEN "all" ELSE "read"
      /\ listed' \in Listings /\ at' = today /\ read' = read
      /\ began' = [open |-> open, file |-> file, day |-> today]
      /\ offset' = offset /\ book' = book /\ still' = still
      /\ open' = open /\ file' = file /\ today' = today
  BY DEF ListGuests, store
<1>2. /\ Listings' = Listings /\ Certain' = Certain
      /\ \A list : Orders(TableNow(list))' = Orders(TableNow(list))
  BY <1>1, SameStore
<1>3. DOMAIN read' = {}
  <2>1. read \in Seq(Entries) /\ Len(read) = 0
    BY <1>1 DEF IInv, RequestIsTyped, Lengths
  <2> QED BY <1>1, <2>1
<1>4. Flow'
  BY <1>1 DEF PInv, Flow
<1>5. CalmRead'
  BY <1>1, <1>2, <1>3 DEF CalmRead
<1>6. PageInv'
  BY <1>1 DEF PageInv
<1>7. NextInv'
  BY <1>1, <1>2 DEF PInv, NextInv
<1> QED BY <1>4, <1>5, <1>6, <1>7 DEF PInv

LEMMA PagesAllReviews ==
    ASSUME IInv, PInv, AllReviews
    PROVE  PInv'
<1>1. /\ UNCHANGED <<store, query>> /\ pc = "all" /\ pc' = "read" /\ query' = query
      /\ listed' = listed /\ at' = today /\ read' = read /\ began' = began /\ all' = file
      /\ offset' = offset /\ book' = book /\ still' = still
      /\ open' = open /\ file' = file /\ today' = today
  BY DEF AllReviews, store, member
<1>2. /\ Listings' = Listings /\ Certain' = Certain
      /\ \A list : Orders(TableNow(list))' = Orders(TableNow(list))
  BY <1>1, SameStore
<1>3. Flow'
  BY <1>1 DEF PInv, Flow
<1>4. CalmRead'
  BY <1>1, <1>2 DEF PInv, CalmRead, Reading
<1>5. PageInv'
  BY <1>1 DEF PageInv
<1>6. NextInv'
  BY <1>1, <1>2 DEF PInv, NextInv
<1> QED BY <1>3, <1>4, <1>5, <1>6 DEF PInv

LEMMA PagesReviewsForGuest ==
    ASSUME IInv, PInv, ReviewsForGuest
    PROVE  PInv'
<1> DEFINE n   == Len(read) + 1
           day == IF query.kind = "searchGuests" THEN today ELSE at
           new == [guest |-> listed[n], reviews |-> file[listed[n]], day |-> day]
<1>1. /\ UNCHANGED <<store, query>> /\ pc = "read" /\ pc' = pc /\ query' = query
      /\ listed' = listed /\ at' = at /\ began' = began /\ all' = all
      /\ offset' = offset /\ book' = book /\ still' = still
      /\ open' = open /\ file' = file /\ today' = today
      /\ read' = Append(read, new)
  BY DEF ReviewsForGuest, store, member
<1>2. /\ Listings' = Listings /\ Certain' = Certain
      /\ \A list : Orders(TableNow(list))' = Orders(TableNow(list))
  BY <1>1, SameStore
<1>3. Flow'
  BY <1>1 DEF PInv, Flow
<1>4. CalmRead'
  <2> SUFFICES ASSUME still
               PROVE  CalmRead'
    BY <1>1 DEF CalmRead
  <2>1. /\ listed \in Listings /\ at = today
        /\ began = [open |-> open, file |-> file, day |-> today]
        /\ \A i \in DOMAIN read :
               read[i] = [guest |-> listed[i], reviews |-> file[listed[i]], day |-> today]
        /\ query.kind = "stats" => all = file
    BY <1>1 DEF PInv, CalmRead, Reading
  <2>2. day = today
    BY <2>1
  <2>3. read \in Seq(Entries) /\ Len(read) \in Nat
    BY DEF IInv, RequestIsTyped
  <2> HIDE DEF day
  <2>4. \A i \in DOMAIN read' : \/ i \in DOMAIN read /\ read'[i] = read[i]
                                \/ i = n /\ read'[i] = new
    BY <1>1, <2>3
  <2>5. \A i \in DOMAIN read' :
            read'[i] = [guest |-> listed[i], reviews |-> file[listed[i]], day |-> today]
    BY <2>1, <2>2, <2>4
  <2> QED BY <1>1, <1>2, <2>1, <2>5 DEF CalmRead
<1>5. PageInv'
  BY <1>1 DEF PageInv
<1>6. NextInv'
  BY <1>1, <1>2 DEF PInv, NextInv
<1> QED BY <1>3, <1>4, <1>5, <1>6 DEF PInv

\* What a request has read stays what it has read.
LEMMA SameRequest ==
    ASSUME UNCHANGED <<store, query, offset, at, all, listed, read, began, still>>
    PROVE  /\ Listings' = Listings /\ Certain' = Certain /\ (Enough' <=> Enough)
           /\ Orders(TableNow(Asked))' = Orders(TableNow(Asked))
<1>1. database' = database /\ open' = open /\ file' = file /\ today' = today /\ query' = query
  BY DEF store
<1>2. Enough' <=> Enough
  BY <1>1 DEF Enough
<1>3. Orders(TableNow(Asked))' = Orders(TableNow(Asked))
  BY <1>1 DEF Orders, TableNow, RowNow, Asked
<1> QED BY <1>2, <1>3, SameStore

LEMMA PagesResolveStays ==
    ASSUME IInv, PInv, ResolveStays
    PROVE  PInv'
<1>1. /\ UNCHANGED <<store, query, offset, at, all, listed, read, began, still>>
      /\ pc = "stays" /\ pc' \in {"stays", "answered"} /\ query' = query
      /\ listed' = listed /\ at' = at /\ read' = read /\ began' = began /\ all' = all
      /\ offset' = offset /\ book' = book /\ still' = still /\ rows' = rows /\ total' = total
      /\ open' = open /\ file' = file /\ today' = today
  BY DEF ResolveStays, store, member
<1>2. /\ Listings' = Listings /\ Certain' = Certain /\ (Enough' <=> Enough)
      /\ Orders(TableNow(Asked))' = Orders(TableNow(Asked))
  BY <1>1, SameRequest
<1>3. Flow'
  BY <1>1, <1>2 DEF PInv, Flow
<1>4. CalmRead'
  BY <1>1, <1>2 DEF PInv, CalmRead, Reading
<1>5. PageInv'
  <2> SUFFICES ASSUME still, Certain, query.kind # "stats"
               PROVE  \E order \in Orders(TableNow(Asked)) : ShownSoFar(order)'
    BY <1>1, <1>2 DEF PageInv
  <2>1. PICK order \in Orders(TableNow(Asked)) : ShownSoFar(order)
    BY <1>1 DEF PInv, PageInv
  <2>2. ShownSoFar(order)'
    BY <1>1, <2>1 DEF ShownSoFar, End
  <2> QED BY <2>2
<1>6. NextInv'
  BY <1>1 DEF NextInv
<1> QED BY <1>3, <1>4, <1>5, <1>6 DEF PInv

LEMMA PagesFinishStats ==
    ASSUME IInv, PInv, FinishStats
    PROVE  PInv'
<1>1. /\ UNCHANGED <<store, query, offset, at, all, listed, read, began, still>>
      /\ pc = "read" /\ pc' = "answered" /\ query' = query /\ query.kind = "stats" /\ Enough
      /\ listed' = listed /\ at' = at /\ read' = read /\ began' = began /\ all' = all
      /\ offset' = offset /\ book' = book /\ still' = still
      /\ open' = open /\ file' = file /\ today' = today
  BY DEF FinishStats, store, member
<1>2. Listings' = Listings /\ (Enough' <=> Enough)
  BY <1>1, SameRequest
<1>3. Flow'
  BY <1>1, <1>2 DEF PInv, Flow
<1>4. CalmRead'
  BY <1>1, <1>2 DEF PInv, CalmRead, Reading
<1>5. PageInv' /\ NextInv'
  BY <1>1 DEF PageInv, NextInv
<1> QED BY <1>3, <1>4, <1>5 DEF PInv

\* The pages so far and the next one make the pages so far.
LEMMA BookGrows ==
    ASSUME NEW S, NEW seq \in Seq(S), NEW from \in Nat, NEW to \in Nat,
           from <= to, to <= Len(seq),
           NEW part, part = [i \in 1..(to - from) |-> seq[from + i]]
    PROVE  [n \in 1..from |-> seq[n]] \o part = [n \in 1..to |-> seq[n]]
<1> DEFINE a == [n \in 1..from |-> seq[n]]
           c == [n \in 1..to |-> seq[n]]
<1>1. a \in Seq(S) /\ Len(a) = from /\ \A n \in 1..from : a[n] = seq[n]
  OBVIOUS
<1>2. part \in Seq(S) /\ Len(part) = to - from /\ \A i \in 1..(to - from) : part[i] = seq[from + i]
  <2>1. to - from \in Nat
    OBVIOUS
  <2>2. \A i \in 1..(to - from) : seq[from + i] \in S
    OBVIOUS
  <2> QED BY <2>1, <2>2
<1>3. c \in Seq(S) /\ Len(c) = to /\ \A n \in 1..to : c[n] = seq[n]
  OBVIOUS
<1> HIDE DEF a, c
<1>4. a \o part \in Seq(S) /\ Len(a \o part) = to
  BY <1>1, <1>2
<1>5. \A n \in 1..to : (a \o part)[n] = seq[n]
  <2> SUFFICES ASSUME NEW n \in 1..to PROVE (a \o part)[n] = seq[n]
    OBVIOUS
  <2>1. CASE n <= from
    BY <1>1, <1>2, <2>1
  <2>2. CASE n > from
    <3>1. n - from \in 1..(to - from) /\ from + (n - from) = n
      BY <2>2
    <3>2. (a \o part)[n] = part[n - from]
      BY <1>1, <1>2, <2>2
    <3> QED BY <1>2, <3>1, <3>2
  <2>3. n <= from \/ n > from
    OBVIOUS
  <2> QED BY <2>1, <2>2, <2>3
<1>6. a \o part = c
  <2>1. ASSUME NEW s \in Seq(S), Len(s) = to
        PROVE  s = [n \in 1..to |-> s[n]]
    BY <2>1
  <2>2. \A n \in 1..to : (a \o part)[n] = c[n]
    BY <1>3, <1>5
  <2> DEFINE both == a \o part
  <2>3. \A n \in 1..to : both[n] = c[n]
    BY <2>2
  <2>4. both \in Seq(S) /\ Len(both) = to
    BY <1>4
  <2> HIDE DEF both
  <2>5. both = [n \in 1..to |-> both[n]] /\ c = [n \in 1..to |-> c[n]]
    BY <1>3, <2>1, <2>4
  <2>6. both = c
    BY <2>3, <2>5, Zenon
  <2> QED BY <2>6 DEF both
<1> QED BY <1>6 DEF a, c

\* The guests read about are as many as were read, in the order listed.
LEMMA AskedTyped ==
    ASSUME IInv
    PROVE  /\ Asked \in Seq(Guests) /\ Len(Asked) = Len(read) /\ Len(read) \in Nat
           /\ \A i \in 1..Len(read) : Asked[i] = listed[i] /\ listed[i] \in Guests
           /\ Len(read) = Len(listed) => Asked = listed
<1>1. /\ listed \in Seq(Guests) /\ read \in Seq(Entries) /\ Len(read) \in Nat
      /\ Len(listed) \in Nat /\ Len(read) <= Len(listed)
  BY DEF IInv, RequestIsTyped, Lengths
<1>2. DOMAIN read = 1..Len(read) /\ \A i \in 1..Len(read) : listed[i] \in Guests
  BY <1>1
<1>3. Asked = [i \in 1..Len(read) |-> listed[i]]
  BY <1>2 DEF Asked
<1>4. listed = [i \in 1..Len(listed) |-> listed[i]]
  BY <1>1
<1>5. Asked \in Seq(Guests) /\ Len(Asked) = Len(read)
  BY <1>1, <1>2, <1>3
<1>6. \A i \in 1..Len(read) : Asked[i] = listed[i]
  BY <1>3
<1>7. Len(read) = Len(listed) => Asked = listed
  BY <1>3, <1>4
<1> QED BY <1>1, <1>2, <1>5, <1>6, <1>7

\* While nothing changes, the table of the answer is that of the store.
LEMMA CalmTable ==
    ASSUME IInv, PInv, still, pc = "read"
    PROVE  AllRows = TableNow(Asked)
<1>1. /\ today \in Calendar /\ read \in Seq(Entries)
      /\ \A i \in DOMAIN read :
             read[i] = [guest |-> listed[i], reviews |-> file[listed[i]], day |-> today]
  BY DEF IInv, StoreIsTyped, RequestIsTyped, PInv, CalmRead, Reading
<1>2. /\ DOMAIN AllRows = DOMAIN read
      /\ \A i \in DOMAIN read : \E day \in {today, read[i].day} :
             AllRows[i] = Row(read[i].guest, read[i].reviews,
                              Compute(read[i].reviews, day, Model))
  BY <1>1, TableOfRead
<1>3. \A i \in DOMAIN read : AllRows[i] = RowNow(listed[i])
  <2> SUFFICES ASSUME NEW i \in DOMAIN read PROVE AllRows[i] = RowNow(listed[i])
    OBVIOUS
  <2>1. /\ read[i].guest = listed[i] /\ read[i].reviews = file[listed[i]]
        /\ read[i].day = today
    BY <1>1
  <2> QED BY <1>2, <2>1 DEF RowNow
<1>4. AllRows = [i \in DOMAIN read |-> AllRows[i]]
  <2>1. CASE query.kind = "guests"
    BY <1>2, <2>1 DEF AllRows, BatchRows
  <2>2. CASE query.kind # "guests"
    BY <1>2, <2>2 DEF AllRows
  <2> QED BY <2>1, <2>2
<1>5. TableNow(Asked) = [i \in DOMAIN read |-> RowNow(listed[i])]
  <2>1. DOMAIN Asked = DOMAIN read /\ \A i \in DOMAIN read : Asked[i] = listed[i]
    BY DEF Asked
  <2> QED BY <2>1 DEF TableNow
<1> QED BY <1>3, <1>4, <1>5

\* Where the page ends.
LEMMA EndIs ==
    ASSUME offset \in Nat, NEW order, Len(order) \in Nat
    PROVE  /\ End(order) \in Nat /\ End(order) <= Len(order) /\ End(order) <= offset + PageSize
           /\ offset <= Len(order) => offset <= End(order)
           /\ End(order) = offset + PageSize \/ End(order) = Len(order)
<1>1. PageSize \in Nat /\ offset + PageSize \in Int
  BY DirectoryAssumption
<1>2. End(order) = IF offset + PageSize <= Len(order) THEN offset + PageSize ELSE Len(order)
  BY <1>1, LowerOf DEF End
<1> QED BY <1>1, <1>2

-----------------------------------------------------------------------------
(* A page, and the next one.                                                *)

\* The guests in the order of their rows.
Ordered(order) == [n \in DOMAIN order |-> listed[order[n]]]

LEMMA OrderedTyped ==
    ASSUME IInv, NEW order \in Orders(TableNow(Asked))
    PROVE  /\ Ordered(order) \in Seq(Guests) /\ Len(Ordered(order)) = Len(order)
           /\ Len(order) \in Nat /\ DOMAIN order = 1..Len(order) /\ Len(order) <= Len(read)
           /\ \A n \in 1..Len(order) :
                  /\ Ordered(order)[n] = listed[order[n]]
                  /\ order[n] \in 1..Len(read) /\ Asked[order[n]] = listed[order[n]]
                  /\ Passes(query, RowNow(listed[order[n]]))
           /\ \A m, n \in 1..Len(order) : order[m] = order[n] => m = n
<1>1. /\ Asked \in Seq(Guests) /\ Len(Asked) = Len(read)
      /\ \A i \in 1..Len(read) : Asked[i] = listed[i] /\ listed[i] \in Guests
  BY AskedTyped
<1>2. /\ DOMAIN order = 1..Len(order) /\ Len(order) \in Nat /\ Len(order) <= Len(Asked)
      /\ \A n \in DOMAIN order :
             order[n] \in 1..Len(Asked) /\ Passes(query, RowNow(Asked[order[n]]))
      /\ \A m, n \in DOMAIN order : order[m] = order[n] => m = n
  BY <1>1, OrderOfList
<1>3. \A n \in 1..Len(order) : order[n] \in 1..Len(read)
  BY <1>1, <1>2
<1>4. Ordered(order) = [n \in 1..Len(order) |-> listed[order[n]]]
  BY <1>2 DEF Ordered
<1>5. Ordered(order) \in Seq(Guests) /\ Len(Ordered(order)) = Len(order)
  BY <1>1, <1>2, <1>3, <1>4
<1>6. \A n \in 1..Len(order) :
          /\ Ordered(order)[n] = listed[order[n]]
          /\ order[n] \in 1..Len(read) /\ Asked[order[n]] = listed[order[n]]
          /\ Passes(query, RowNow(listed[order[n]]))
  BY <1>1, <1>2, <1>3, <1>4
<1> QED BY <1>1, <1>2, <1>5, <1>6

\* What comes before the page is behind the member.
LEMMA BehindThePage ==
    ASSUME IInv, PInv, still, Certain, pc = "read", Enough,
           NEW order \in Orders(TableNow(Asked))
    PROVE  offset <= Len(order) /\ book = [n \in 1..offset |-> Ordered(order)[n]]
<1>1. Len(order) \in Nat /\ DOMAIN order = 1..Len(order)
      /\ \A n \in 1..Len(order) : Ordered(order)[n] = listed[order[n]]
  BY OrderedTyped
<1>2. query.kind \in {"list", "guests"} => offset \in Nat
  BY DEF IInv, RequestIsTyped
<1>3. CASE query.kind \in {"list", "guests"}
  <2>1. Asked = listed
    BY <1>3, AskedTyped DEF Enough
  <2>2. listed \in Listings
    BY DEF PInv, CalmRead, Reading
  <2>3. offset <= Len(order) /\ book = [n \in 1..offset |-> listed[order[n]]]
    BY <2>1, <2>2 DEF PInv, NextInv
  <2>4. [n \in 1..offset |-> listed[order[n]]] = [n \in 1..offset |-> Ordered(order)[n]]
    <3>1. \A n \in 1..offset : n \in 1..Len(order)
      BY <1>1, <1>2, <1>3, <2>3
    <3>2. \A n \in 1..offset : Ordered(order)[n] = listed[order[n]]
      BY <1>1, <3>1
    <3> QED BY <3>2
  <2> QED BY <2>3, <2>4
<1>4. CASE query.kind \notin {"list", "guests"}
  <2>1. offset = 0 /\ book = <<>>
    BY <1>4 DEF PInv, Flow, NextInv
  <2>2. [n \in 1..0 |-> Ordered(order)[n]] = <<>>
    OBVIOUS
  <2> QED BY <1>1, <2>1, <2>2
<1> QED BY <1>3, <1>4

LEMMA PagesFinish ==
    ASSUME IInv, PInv, Finish
    PROVE  PInv'
<1> DEFINE table == AllRows
<1>1. PICK order \in Orders(table) :
          LET found == [n \in DOMAIN order |-> table[order[n]]]
              page == Window(found, offset)
          IN  /\ rows' = page
              /\ total' = IF query.kind = "list" THEN Len(found) ELSE Len(page)
              /\ book' = book \o [i \in DOMAIN page |-> page[i].guest]
              /\ pc' = IF query.kind \in {"guests", "searchGuests"} /\ page # <<>>
                       THEN "stays" ELSE "answered"
  BY DEF Finish
<1>2. /\ UNCHANGED <<store, query, offset, at, all, listed, read, began, still>>
      /\ pc = "read" /\ pc' \in {"stays", "answered"} /\ query' = query /\ Enough
      /\ query.kind # "stats"
      /\ listed' = listed /\ at' = at /\ read' = read /\ began' = began /\ all' = all
      /\ offset' = offset /\ still' = still
      /\ open' = open /\ file' = file /\ today' = today
  BY <1>1 DEF Finish, store
<1>3. /\ Listings' = Listings /\ Certain' = Certain /\ (Enough' <=> Enough)
      /\ Orders(TableNow(Asked))' = Orders(TableNow(Asked))
  BY <1>2, SameRequest
<1>4. Flow'
  BY <1>2, <1>3 DEF PInv, Flow
<1>5. CalmRead'
  BY <1>2, <1>3 DEF PInv, CalmRead, Reading
<1>6. PageInv'
  <2> SUFFICES ASSUME still, Certain
               PROVE  \E o \in Orders(TableNow(Asked)) : ShownSoFar(o)'
    BY <1>2, <1>3 DEF PageInv
  <2> DEFINE seq   == Ordered(order)
             found == [n \in DOMAIN order |-> RowNow(listed[order[n]])]
             page  == Window(found, offset)
  <2>1. table = TableNow(Asked)
    BY <1>2, CalmTable
  <2>2. /\ order \in Orders(TableNow(Asked)) /\ offset \in Nat
        /\ StoreIsTyped
    BY <1>1, <2>1 DEF IInv, RequestIsTyped
  <2>3. /\ seq \in Seq(Guests) /\ Len(seq) = Len(order) /\ Len(order) \in Nat
        /\ DOMAIN order = 1..Len(order)
        /\ \A n \in 1..Len(order) :
               /\ seq[n] = listed[order[n]]
               /\ order[n] \in 1..Len(read) /\ Asked[order[n]] = listed[order[n]]
    BY <2>2, OrderedTyped
  <2>4. offset <= Len(order) /\ book = [n \in 1..offset |-> seq[n]]
    BY <1>2, <2>2, BehindThePage
  <2>5. [n \in DOMAIN order |-> table[order[n]]] = found
    <3>1. \A n \in DOMAIN order : table[order[n]] = RowNow(listed[order[n]])
      <4> SUFFICES ASSUME NEW n \in DOMAIN order
                   PROVE  TableNow(Asked)[order[n]] = RowNow(listed[order[n]])
        BY <2>1
      <4>1. order[n] \in DOMAIN Asked /\ Asked[order[n]] = listed[order[n]]
        BY <2>3, AskedTyped
      <4> QED BY <4>1 DEF TableNow
    <3> QED BY <3>1
  <2>6. /\ rows' = page
        /\ query.kind = "list" => total' = Len(found)
        /\ book' = book \o [i \in DOMAIN page |-> page[i].guest]
    BY <1>1, <2>5
  <2>7. \A n \in 1..Len(order) : found[n] \in {RowNow(g) : g \in Guests} /\ found[n].guest = seq[n]
    <3> SUFFICES ASSUME NEW n \in 1..Len(order)
                 PROVE  found[n] \in {RowNow(g) : g \in Guests} /\ found[n].guest = seq[n]
      OBVIOUS
    <3>1. found[n] = RowNow(seq[n]) /\ seq[n] \in Guests
      BY <2>3
    <3> QED BY <3>1, RowFields DEF RowNow
  <2>8. found \in Seq({RowNow(g) : g \in Guests}) /\ Len(found) = Len(order)
    BY <2>3, <2>7
  <2> HIDE DEF found
  <2>9. /\ page \in Seq({RowNow(g) : g \in Guests})
        /\ \A i \in DOMAIN page : offset + i \in DOMAIN found /\ page[i] = found[offset + i]
        /\ Len(page) = End(order) - offset
    BY <2>2, <2>4, <2>8, WindowIsCut DEF End
  <2> HIDE DEF page, seq
  <2>10. /\ End(order) \in Nat /\ offset <= End(order) /\ End(order) <= Len(order)
    BY <2>2, <2>3, <2>4, EndIs
  <2>11. DOMAIN page = 1..(End(order) - offset)
    BY <2>9
  <2>12. [i \in DOMAIN page |-> page[i].guest]
             = [i \in 1..(End(order) - offset) |-> seq[offset + i]]
    <3>1. \A i \in 1..(End(order) - offset) : page[i].guest = seq[offset + i]
      <4> SUFFICES ASSUME NEW i \in 1..(End(order) - offset)
                   PROVE  page[i].guest = seq[offset + i]
        OBVIOUS
      <4>1. page[i] = found[offset + i]
        BY <2>9, <2>11
      <4>2. offset + i \in 1..Len(order)
        BY <2>2, <2>3, <2>10
      <4> QED BY <2>7, <4>1, <4>2
    <3> QED BY <2>11, <3>1
  <2>13. book' = [n \in 1..End(order) |-> seq[n]]
    <3> DEFINE part == [i \in 1..(End(order) - offset) |-> seq[offset + i]]
    <3>1. book' = [n \in 1..offset |-> seq[n]] \o part
      BY <2>4, <2>6, <2>12
    <3>2. End(order) <= Len(seq)
      BY <2>3, <2>10
    <3>3. part = [i \in 1..(End(order) - offset) |-> seq[offset + i]]
      OBVIOUS
    <3> HIDE DEF part
    <3>4. [n \in 1..offset |-> seq[n]] \o part = [n \in 1..End(order) |-> seq[n]]
      BY <2>2, <2>3, <2>10, <3>2, <3>3, BookGrows
    <3> QED BY <3>1, <3>4
  <2>14. book' = [n \in 1..End(order) |-> listed[order[n]]]
    <3>1. \A n \in 1..End(order) : seq[n] = listed[order[n]]
      BY <2>3, <2>10
    <3> QED BY <2>13, <3>1
  <2>15. /\ offset <= Len(order) /\ Len(rows') = End(order) - offset
         /\ query.kind = "list" => total' = Len(order)
    BY <2>4, <2>6, <2>8, <2>9
  <2>16. ShownSoFar(order)'
    <3>1. End(order)' = End(order)
      BY <1>2 DEF End
    <3> QED BY <1>2, <2>14, <2>15, <3>1 DEF ShownSoFar
  <2> QED BY <2>2, <2>16
<1>7. NextInv'
  BY <1>2 DEF NextInv
<1> QED BY <1>4, <1>5, <1>6, <1>7 DEF PInv

\* A member goes on when there is more than it has seen, and there only.
LEMMA MoreIsThere ==
    ASSUME IInv, PInv, still, Certain, pc = "answered", query.kind # "stats",
           NEW order \in Orders(TableNow(Asked)), ShownSoFar(order)
    PROVE  /\ More => offset + PageSize <= Len(order) /\ End(order) = offset + PageSize
           /\ ~More /\ query.kind \in {"list", "guests"} => End(order) = Len(order)
<1>1. /\ Len(order) \in Nat /\ offset \in Nat /\ PageSize \in Nat /\ offset + PageSize \in Int
  BY OrderedTyped, DirectoryAssumption DEF IInv, RequestIsTyped
<1>2. End(order) = IF offset + PageSize <= Len(order) THEN offset + PageSize ELSE Len(order)
  BY <1>1, LowerOf DEF End
<1>3. /\ offset <= Len(order) /\ Len(rows) = End(order) - offset
      /\ query.kind = "list" => total = Len(order)
  BY DEF ShownSoFar
<1>4. CASE query.kind = "list"
  BY <1>1, <1>2, <1>3, <1>4 DEF More
<1>5. CASE query.kind = "guests"
  <2>1. More <=> Len(rows) = PageSize
    BY <1>5 DEF More
  <2> QED BY <1>1, <1>2, <1>3, <2>1
<1>6. CASE query.kind \notin {"list", "guests"}
  <2>1. ~More
    BY <1>6 DEF More
  <2> QED BY <1>6, <2>1
<1> QED BY <1>4, <1>5, <1>6

LEMMA PagesNextPage ==
    ASSUME HalvingIsFraction, IInv, PInv, NextPage
    PROVE  PInv'
<1>1. /\ UNCHANGED <<store, query>> /\ pc = "answered" /\ More /\ pc' = "list" /\ query' = query
      /\ offset' = offset + PageSize /\ book' = book /\ still' = still
  BY DEF NextPage, member
<1>2. query.kind \in {"list", "guests"}
  BY <1>1 DEF More
<1>3. /\ Listings' = Listings /\ Certain' = Certain
      /\ \A list : Orders(TableNow(list))' = Orders(TableNow(list))
  BY <1>1, SameStore
<1>4. Flow'
  BY <1>1, <1>2 DEF Flow
<1>5. CalmRead' /\ PageInv'
  BY <1>1 DEF CalmRead, PageInv, Reading
<1>6. NextInv'
  <2>1. offset' # 0
    <3>1. offset \in Nat /\ PageSize \in Nat \ {0}
      BY DirectoryAssumption DEF IInv, RequestIsTyped
    <3> QED BY <1>1, <3>1
  <2> SUFFICES ASSUME still, Certain, NEW list \in Listings,
                      NEW order \in Orders(TableNow(list))
               PROVE  /\ offset' <= Len(order)
                      /\ book' = [n \in 1..offset' |-> list[order[n]]]
    BY <1>1, <1>3, <2>1 DEF NextInv
  <2>2. PICK other \in Orders(TableNow(Asked)) : ShownSoFar(other)
    BY <1>1, <1>2 DEF PInv, PageInv
  <2>3. Asked = listed
    <3>1. Len(read) = Len(listed)
      BY <1>1, <1>2 DEF PInv, Flow, Enough
    <3> QED BY <3>1, AskedTyped
  <2>4. StoreIsTyped /\ list = listed
    <3>1. StoreIsTyped /\ listed \in Listings
      BY <1>1 DEF IInv, PInv, CalmRead, Reading
    <3> QED BY <3>1, OneListing
  <2>5. order = other
    <3>1. Table(TableNow(list), Len(list))
      BY <2>4, ListingTyped, TableOfList
    <3>2. query.sort \in Sorts
      BY <1>1, DirectoryAssumption DEF IInv, RequestIsTyped
    <3>3. other \in Orders(TableNow(list))
      BY <2>2, <2>3, <2>4
    <3> QED BY <3>1, <3>2, <3>3, OneOrderOfTable
  <2>6. offset + PageSize <= Len(order) /\ End(order) = offset + PageSize
    BY <1>1, <1>2, <2>2, <2>5, MoreIsThere
  <2>7. book = [n \in 1..End(order) |-> listed[order[n]]]
    BY <2>2, <2>5 DEF ShownSoFar
  <2> QED BY <1>1, <2>4, <2>6, <2>7
<1> QED BY <1>4, <1>5, <1>6 DEF PInv

\* The inductive invariant of a member that turns pages: while nothing changes,
\* what is behind it is the beginning of the one order the rows have
\* (sortSummaries sorts stably what the store lists in one order).
THEOREM PagesInvariance ==
    ASSUME HalvingIsFraction
    PROVE  Spec => []PInv
<1>1. Init => PInv
  BY PagesInitially
<1>2. IInv /\ PInv /\ [Next]_vars => PInv'
  <2> SUFFICES ASSUME IInv, PInv, [Next]_vars
               PROVE  PInv'
    OBVIOUS
  <2>1. CASE \E g \in Guests : OpenFile(g)
    BY <2>1, StoreMoves DEF OpenFile
  <2>2. CASE \E g \in Guests, lag \in Lags : \E s \in Samples[g] : File(g, s, lag)
    BY <2>2, StoreMoves DEF File
  <2>3. CASE Tick
    BY <2>3, StoreMoves DEF Tick
  <2>4. CASE \E q \in Queries : Ask(q)
    BY <2>4, PagesAsk
  <2>5. CASE ListGuests
    BY <2>5, PagesListGuests
  <2>6. CASE AllReviews
    BY <2>6, PagesAllReviews
  <2>7. CASE ReviewsForGuest
    BY <2>7, PagesReviewsForGuest
  <2>8. CASE Finish
    BY <2>8, PagesFinish
  <2>9. CASE ResolveStays
    BY <2>9, PagesResolveStays
  <2>10. CASE FinishStats
    BY <2>10, PagesFinishStats
  <2>11. CASE NextPage
    BY <2>11, PagesNextPage
  <2>12. CASE Leave \/ Fail
    BY <2>12, PagesReset DEF Leave, Fail
  <2>13. CASE UNCHANGED vars
    BY <2>13, PagesStutter
  <2> QED BY <2>1, <2>2, <2>3, <2>4, <2>5, <2>6, <2>7, <2>8, <2>9, <2>10, <2>11, <2>12,
             <2>13 DEF Next
<1> QED BY <1>1, <1>2, Invariance, PTL DEF Spec

-----------------------------------------------------------------------------
(* The last page.                                                           *)

\* Whom the listing is to show.
Kept == {g \in Found : Passes(query, RowNow(g))}

LEMMA WantedIs ==
    /\ {row.guest : row \in Wanted} = Kept
    /\ \A g \in Kept : (CHOOSE row \in Wanted : row.guest = g) = RowNow(g)
<1>1. Wanted = {row \in {RowNow(g) : g \in Found} : Passes(query, row)}
  BY DEF Wanted, RowNow, Found
<1>2. \A g : RowNow(g).guest = g
  BY RowFields DEF RowNow
<1>3. \A g \in Kept : RowNow(g) \in Wanted
  BY <1>1 DEF Kept
<1>4. \A row \in Wanted : row = RowNow(row.guest) /\ row.guest \in Kept
  BY <1>1, <1>2 DEF Kept
<1>5. {row.guest : row \in Wanted} = Kept
  BY <1>2, <1>3, <1>4
<1>6. ASSUME NEW g \in Kept
      PROVE  (CHOOSE row \in Wanted : row.guest = g) = RowNow(g)
  <2> DEFINE chosen == CHOOSE row \in Wanted : row.guest = g
  <2>1. RowNow(g) \in Wanted /\ RowNow(g).guest = g
    BY <1>2, <1>3
  <2>2. chosen \in Wanted /\ chosen.guest = g
    BY <2>1
  <2> HIDE DEF chosen
  <2>3. chosen = RowNow(g)
    BY <1>4, <2>2
  <2> QED BY <2>3 DEF chosen
<1> QED BY <1>5, <1>6

\* As many places as values.
LEMMA NoneTwice ==
    ASSUME NEW S, NEW b \in Seq(S), \A i, j \in DOMAIN b : b[i] = b[j] => i = j
    PROVE  IsFiniteSet(Range(b)) /\ Cardinality(Range(b)) = Len(b)
<1> DEFINE I == 1..Len(b)
           R == Range(b)
<1>1. Len(b) \in Nat /\ DOMAIN b = I
  OBVIOUS
<1>2. IsFiniteSet(I) /\ Cardinality(I) = Len(b)
  <2> DEFINE n == Len(b)
  <2>1. n \in Nat
    BY <1>1
  <2> HIDE DEF n
  <2>2. IsFiniteSet(1..n) /\ Cardinality(1..n) = n
    BY <2>1, FS_Interval
  <2> QED BY <2>2 DEF n
<1>3. b \in Bijection(I, R)
  <2>1. b \in [I -> R] /\ \A x \in R : \E i \in I : b[i] = x
    BY <1>1 DEF Range
  <2> QED BY <1>1, <2>1 DEF Bijection, Injection, IsInjective, Surjection
<1> HIDE DEF I, R
<1>4. IsFiniteSet(R) /\ Cardinality(R) = Cardinality(I)
  BY <1>2, <1>3, FS_Bijection DEF ExistsBijection
<1> QED BY <1>2, <1>4 DEF R

\* What comes first, as PagesTile reads the query.
Less(g, h) ==
    IF query.kind = "searchGuests" THEN Name[g] < Name[h]
                                   ELSE Before(query.sort, RowNow(g), RowNow(h))

LEMMA ListedByName ==
    ASSUME StoreIsTyped, NEW list \in Listings,
           NEW i \in DOMAIN list, NEW j \in DOMAIN list, i < j
    PROVE  ~(Name[list[j]] < Name[list[i]])
<1>1. list[i] \in Guests /\ list[j] \in Guests
  BY ListingTyped
<1>2. Name[list[i]] \in Nat /\ Name[list[j]] \in Nat
  BY <1>1, DirectoryAssumption
<1>3. Name[list[i]] <= Name[list[j]]
  BY DEF Listings
<1> QED BY <1>2, <1>3

LEMMA OrderedByLess ==
    ASSUME HalvingIsFraction, IInv, query \in Queries, listed \in Listings,
           NEW order \in Orders(TableNow(Asked)),
           NEW i \in 1..Len(order), NEW j \in 1..Len(order), i < j
    PROVE  ~Less(listed[order[j]], listed[order[i]])
<1> DEFINE table == TableNow(Asked)
           a == order[i]
           b == order[j]
<1>1. /\ StoreIsTyped /\ query.sort \in Sorts
      /\ query.kind = "searchGuests" => query.sort = "none"
  BY DirectoryAssumption DEF IInv
<1>2. /\ DOMAIN order = 1..Len(order)
      /\ a \in 1..Len(read) /\ b \in 1..Len(read) /\ a # b
  <2>1. i # j
    OBVIOUS
  <2> QED BY <2>1, OrderedTyped
<1>3. /\ Asked \in Seq(Guests) /\ Len(Asked) = Len(read) /\ Len(read) \in Nat
      /\ \A k \in 1..Len(read) : Asked[k] = listed[k] /\ listed[k] \in Guests
      /\ DOMAIN Asked = 1..Len(read)
  BY AskedTyped
<1>4. \A k \in 1..Len(read) : table[k] = RowNow(listed[k])
  BY <1>3 DEF TableNow
<1>5. \/ Before(query.sort, table[a], table[b])
      \/ ~Before(query.sort, table[b], table[a]) /\ a < b
  BY <1>2 DEF Orders
<1>6. a \in DOMAIN listed /\ b \in DOMAIN listed
  BY <1>2 DEF IInv, RequestIsTyped, Lengths
<1> HIDE DEF table, a, b
<1>7. CASE query.kind = "searchGuests"
  <2>1. a < b
    BY <1>1, <1>5, <1>7 DEF Before
  <2>2. ~(Name[listed[b]] < Name[listed[a]])
    BY <1>1, <1>6, <2>1, ListedByName
  <2> QED BY <1>7, <2>2 DEF Less, a, b
<1>8. CASE query.kind # "searchGuests"
  <2>1. Comparable(table[a]) /\ Comparable(table[b])
    BY <1>1, <1>2, <1>3, <1>4, RowsCompare
  <2>2. ~Before(query.sort, table[b], table[a])
    BY <1>1, <1>5, <2>1, BeforeOneWay
  <2> QED BY <1>2, <1>4, <1>8, <2>2 DEF Less, a, b
<1> QED BY <1>7, <1>8

\* Whoever passes and has been read about is in the order.
LEMMA OrderIsComplete ==
    ASSUME HalvingIsFraction, IInv, NEW order \in Orders(TableNow(Asked)),
           NEW k \in 1..Len(read), Passes(query, RowNow(listed[k]))
    PROVE  \E m \in 1..Len(order) : order[m] = k
<1>1. /\ Asked \in Seq(Guests) /\ Len(Asked) = Len(read) /\ Len(read) \in Nat
      /\ Asked[k] = listed[k] /\ DOMAIN Asked = 1..Len(read)
  BY AskedTyped
<1>2. Table(TableNow(Asked), Len(Asked))
  BY <1>1, TableOfList DEF IInv
<1>3. k \in Passing(TableNow(Asked))
  BY <1>1 DEF Passing, TableNow
<1>4. Placed(order, Passing(TableNow(Asked)))
  BY <1>2, OrderEnumerates, RunsThrough
<1>5. DOMAIN order = 1..Len(order)
  BY OrderedTyped
<1> QED BY <1>3, <1>4, <1>5 DEF Placed

\* What a search that stopped early has found.
LEMMA StoppedFull ==
    ASSUME HalvingIsFraction, IInv, PInv, still, pc = "answered", query.kind # "stats",
           Len(read) # Len(listed), NEW order \in Orders(TableNow(Asked))
    PROVE  query.kind = "searchGuests" /\ Len(order) = PageSize
<1>1. /\ query.kind = "searchGuests"
      /\ Cardinality({i \in DOMAIN read : Passes(query, RowOf(read[i]))}) = PageSize
  BY DEF PInv, Flow, Enough
<1>2. /\ Asked \in Seq(Guests) /\ Len(Asked) = Len(read) /\ Len(read) \in Nat
      /\ DOMAIN Asked = DOMAIN read /\ \A i \in DOMAIN read : Asked[i] = listed[i]
  BY AskedTyped DEF Asked
<1>3. \A i \in DOMAIN read : RowOf(read[i]) = RowNow(listed[i])
  <2> SUFFICES ASSUME NEW i \in DOMAIN read PROVE RowOf(read[i]) = RowNow(listed[i])
    OBVIOUS
  <2>1. read[i] = [guest |-> listed[i], reviews |-> file[listed[i]], day |-> today]
    BY DEF PInv, CalmRead, Reading
  <2>2. /\ read[i].guest = listed[i] /\ read[i].reviews = file[listed[i]]
        /\ read[i].day = today
    BY <2>1
  <2> QED BY <2>2 DEF RowOf, Scored, RowNow
<1>4. Passing(TableNow(Asked)) = {i \in DOMAIN read : Passes(query, RowOf(read[i]))}
  BY <1>2, <1>3 DEF Passing, TableNow
<1>5. Placed(order, Passing(TableNow(Asked)))
  <2>1. Table(TableNow(Asked), Len(Asked))
    BY <1>2, TableOfList DEF IInv
  <2> QED BY <2>1, OrderEnumerates, RunsThrough
<1>6. DOMAIN order = 1..Len(order) /\ Len(order) \in Nat
  BY OrderedTyped
<1>7. Cardinality(Passing(TableNow(Asked))) = PageSize /\ PageSize \in Nat
  BY <1>1, <1>4, DirectoryAssumption
<1>8. 1..Len(order) = 1..PageSize
  BY <1>5, <1>6, <1>7 DEF Placed
<1>9. \A m, n \in Nat : 1..m = 1..n => m = n
  <2> SUFFICES ASSUME NEW m \in Nat, NEW n \in Nat, 1..m = 1..n, m < n PROVE FALSE
    OBVIOUS
  <2>1. n \in 1..n /\ n \notin 1..m
    OBVIOUS
  <2> QED BY <2>1
<1> QED BY <1>1, <1>6, <1>7, <1>8, <1>9

\* The pages a member has been through, at its last one.
LEMMA PagesHaveTiled ==
    ASSUME HalvingIsFraction, IInv, PInv, still, Certain, pc = "answered",
           query.kind # "stats", ~More
    PROVE  /\ Range(book) \subseteq Kept
           /\ Len(book) = Cardinality(Range(book))
           /\ \A i, j \in DOMAIN book : i < j => ~Less(book[j], book[i])
           /\ query.kind \in {"list", "guests"} => Range(book) = Kept
           /\ query.kind = "list" => total = Cardinality(Kept)
           /\ \A g \in Kept \ Range(book) :
                  Len(book) = PageSize /\ \A i \in DOMAIN book : ~Less(g, book[i])
<1>1. PICK order \in Orders(TableNow(Asked)) : ShownSoFar(order)
  BY DEF PInv, PageInv
<1> DEFINE end == End(order)
<1>2. /\ StoreIsTyped /\ listed \in Listings /\ query \in Queries /\ offset \in Nat
      /\ PageSize \in Nat /\ Len(read) \in Nat /\ Len(listed) \in Nat /\ listed \in Seq(Guests)
      /\ Len(read) <= Len(listed) /\ DOMAIN listed = 1..Len(listed)
  BY DirectoryAssumption DEF IInv, PInv, CalmRead, Reading, RequestIsTyped, Lengths
<1>3. /\ Len(order) \in Nat /\ Len(order) <= Len(read)
      /\ \A n \in 1..Len(order) :
             order[n] \in 1..Len(read) /\ Passes(query, RowNow(listed[order[n]]))
      /\ \A m, n \in 1..Len(order) : order[m] = order[n] => m = n
  BY OrderedTyped
<1>4. /\ end \in Nat /\ end <= Len(order) /\ (end = offset + PageSize \/ end = Len(order))
  BY <1>2, <1>3, EndIs
<1>5. /\ query.kind = "list" => total = Len(order)
      /\ book = [n \in 1..end |-> listed[order[n]]]
  BY <1>1 DEF ShownSoFar
<1>6. query.kind \in {"list", "guests"} => end = Len(order)
  BY <1>1, MoreIsThere
<1>7. query.kind \notin {"list", "guests"} => offset = 0
  BY DEF PInv, Flow
<1>8. \A k \in 1..Len(listed) : listed[k] \in Found
  BY <1>2, ListingTyped
<1>9. \A k, m \in 1..Len(listed) : listed[k] = listed[m] => k = m
  BY <1>2 DEF IInv, ReadingInv, Reading, ListedAreAsked
<1> HIDE DEF end
<1>10. /\ DOMAIN book = 1..end /\ book \in Seq(Guests) /\ Len(book) = end
       /\ \A n \in 1..end : /\ book[n] = listed[order[n]] /\ n \in 1..Len(order)
                            /\ order[n] \in 1..Len(listed)
  <2>1. \A n \in 1..end : n \in 1..Len(order)
    BY <1>3, <1>4
  <2>2. \A n \in 1..end : order[n] \in 1..Len(listed)
    BY <1>2, <1>3, <2>1
  <2>3. \A n \in 1..end : listed[order[n]] \in Guests
    BY <1>2, <2>2
  <2> QED BY <1>4, <1>5, <2>1, <2>2, <2>3
<1>11. Range(book) \subseteq Kept
  <2> SUFFICES ASSUME NEW n \in 1..end PROVE book[n] \in Kept
    BY <1>10 DEF Range
  <2> QED BY <1>3, <1>8, <1>10 DEF Kept
<1>12. Len(book) = Cardinality(Range(book))
  <2>1. ASSUME NEW m \in 1..end, NEW n \in 1..end, book[m] = book[n]
        PROVE  m = n
    <3>1. order[m] = order[n]
      BY <1>9, <1>10, <2>1
    <3> QED BY <1>3, <1>10, <3>1
  <2> QED BY <1>10, <2>1, NoneTwice
<1>13. \A i, j \in DOMAIN book : i < j => ~Less(book[j], book[i])
  BY <1>1, <1>2, <1>10, OrderedByLess
<1>14. ASSUME NEW k \in 1..Len(read), Passes(query, RowNow(listed[k])), listed[k] \notin Range(book)
       PROVE  \E m \in 1..Len(order) : order[m] = k /\ end < m
  <2>1. PICK m \in 1..Len(order) : order[m] = k
    BY <1>14, OrderIsComplete
  <2>2. m \notin 1..end
    BY <1>10, <1>14, <2>1 DEF Range
  <2> QED BY <1>3, <1>4, <2>1, <2>2
<1>15. ASSUME NEW g \in Kept
       PROVE  /\ \E k \in 1..Len(listed) : listed[k] = g
              /\ Passes(query, RowNow(g))
  <2>1. IsFiniteSet(Found) /\ Enumerates(listed, Found, Precedes)
    BY <1>2, ListingEnumerates
  <2>2. Placed(listed, Found)
    BY <2>1, RunsThrough
  <2> QED BY <1>2, <2>2 DEF Placed, Kept
<1>16. ASSUME query.kind \in {"list", "guests"}
       PROVE  Range(book) = Kept
  <2> SUFFICES ASSUME NEW g \in Kept, g \notin Range(book)
               PROVE  FALSE
    BY <1>11
  <2>1. PICK k \in 1..Len(listed) : listed[k] = g
    BY <1>15
  <2>2. Passes(query, RowNow(g)) /\ Len(read) = Len(listed)
    BY <1>15, <1>16 DEF PInv, Flow, Enough
  <2>3. PICK m \in 1..Len(order) : end < m
    BY <1>14, <2>1, <2>2
  <2> QED BY <1>3, <1>4, <1>6, <1>16, <2>3
<1>17. query.kind = "list" => total = Cardinality(Kept)
  BY <1>5, <1>6, <1>10, <1>12, <1>16
<1>18. ASSUME NEW g \in Kept, g \notin Range(book)
       PROVE  Len(book) = PageSize /\ \A i \in DOMAIN book : ~Less(g, book[i])
  <2>1. PICK k \in 1..Len(listed) : listed[k] = g
    BY <1>15
  <2>2. query.kind \notin {"list", "guests"} /\ offset = 0
    BY <1>7, <1>16, <1>18
  <2>3. CASE k \in 1..Len(read)
    <3>1. PICK m \in 1..Len(order) : order[m] = k /\ end < m
      BY <1>14, <1>15, <1>18, <2>1, <2>3
    <3>2. end = PageSize
      BY <1>2, <1>3, <1>4, <2>2, <3>1
    <3>3. ASSUME NEW i \in 1..end
          PROVE  ~Less(listed[order[m]], listed[order[i]])
      <4>1. i \in 1..Len(order) /\ i < m
        BY <1>3, <1>4, <1>10, <3>1
      <4> QED BY <1>2, <4>1, OrderedByLess
    <3> QED BY <1>10, <2>1, <3>1, <3>2, <3>3
  <2>4. CASE k \notin 1..Len(read)
    <3>1. Len(read) < k
      BY <1>2, <2>4
    <3>2. query.kind = "searchGuests" /\ Len(order) = PageSize
      <4>1. Len(read) # Len(listed)
        BY <1>2, <3>1
      <4> QED BY <4>1, StoppedFull
    <3>3. end = PageSize
      BY <1>2, <1>4, <2>2, <3>2
    <3>4. ASSUME NEW i \in 1..end
          PROVE  ~(Name[g] < Name[listed[order[i]]])
      <4>1. order[i] \in 1..Len(listed) /\ order[i] < k
        BY <1>2, <1>3, <1>10, <3>1
      <4> QED BY <1>2, <2>1, <4>1, ListedByName
    <3> QED BY <1>10, <3>2, <3>3, <3>4 DEF Less
  <2> QED BY <2>3, <2>4
<1> QED BY <1>11, <1>12, <1>13, <1>16, <1>17, <1>18

\* Whatever is asked for, in whatever order and however many rows at a time: a
\* member who goes through a listing to its end while nothing changes has seen
\* every guest it asked for, once and in order; the REST API has told how many
\* they are, and a search that stops has found the first of them
\* (handleListGuests, resolveDirectory, resolveSearch, sortSummaries).
THEOREM PagesTileTheStore ==
    ASSUME HalvingIsFraction
    PROVE  Spec => []PagesTile
<1>1. ASSUME IInv, PInv
      PROVE  PagesTile
  <2> DEFINE rowOf(g) == CHOOSE row \in Wanted : row.guest = g
             wanted == {row.guest : row \in Wanted}
             certain == \/ database = "postgres"
                        \/ \A g, h \in open : Name[g] = Name[h] => g = h
             less(g, h) ==
                 IF query.kind = "searchGuests"
                 THEN Name[g] < Name[h] ELSE Before(query.sort, rowOf(g), rowOf(h))
  <2> SUFFICES ASSUME Answered(Kinds \ {"stats"}), ~More, still, certain
               PROVE  /\ Range(book) \subseteq wanted
                      /\ Len(book) = Cardinality(Range(book))
                      /\ \A i, j \in DOMAIN book : i < j => ~less(book[j], book[i])
                      /\ query.kind \in {"list", "guests"} => Range(book) = wanted
                      /\ query.kind = "list" => total = Cardinality(wanted)
                      /\ \A g \in wanted \ Range(book) :
                             Len(book) = PageSize /\ \A i \in DOMAIN book : ~less(g, book[i])
    BY Zenon DEF PagesTile
  <2>1. wanted = Kept /\ \A g \in Kept : rowOf(g) = RowNow(g)
    BY WantedIs
  <2>2. \A g, h \in Kept : less(g, h) <=> Less(g, h)
    BY <2>1 DEF Less
  <2>3. pc = "answered" /\ query.kind # "stats" /\ Certain
    BY DEF Answered, Certain
  <2>4. /\ Range(book) \subseteq Kept
        /\ Len(book) = Cardinality(Range(book))
        /\ \A i, j \in DOMAIN book : i < j => ~Less(book[j], book[i])
        /\ query.kind \in {"list", "guests"} => Range(book) = Kept
        /\ query.kind = "list" => total = Cardinality(Kept)
        /\ \A g \in Kept \ Range(book) :
               Len(book) = PageSize /\ \A i \in DOMAIN book : ~Less(g, book[i])
    BY <1>1, <2>3, PagesHaveTiled
  <2>5. \A i \in DOMAIN book : book[i] \in Kept
    BY <2>4 DEF Range
  <2> HIDE DEF wanted, less, rowOf
  <2> QED BY <2>1, <2>2, <2>4, <2>5
<1>2. IInv /\ PInv => PagesTile
  BY <1>1
<1> QED BY <1>2, Invariance, PagesInvariance, PTL

-----------------------------------------------------------------------------
(* Counts and sums.                                                         *)

\* What is worth nothing can be left out of a sum.
LEMMA ZerosLeftOut ==
    ASSUME NEW S, IsFiniteSet(S), NEW F \in [S -> Nat], NEW T \in SUBSET S,
           \A x \in S \ T : F[x] = 0
    PROVE  SumFunction([x \in T |-> F[x]]) = SumFunction(F)
<1> DEFINE Part(s) == [x \in T \cup s |-> F[x]]
           C == {s \in SUBSET (S \ T) : SumFunction(Part(s)) = SumFunction(Part({}))}
<1>1. {} \in C
  OBVIOUS
<1>2. ASSUME NEW s \in SUBSET (S \ T), NEW x \in (S \ T) \ s, s \in C
      PROVE  s \cup {x} \in C
  <2> DEFINE big == T \cup (s \cup {x})
             P   == Part(s \cup {x})
  <2>1. Numbers(P, big) /\ x \in big /\ P[x] = 0
    <3>1. big \in SUBSET S
      OBVIOUS
    <3>2. IsFiniteSet(big)
      <4> HIDE DEF big
      <4> QED BY <3>1, FS_Subset
    <3>3. P \in [big -> Nat] /\ x \in big /\ P[x] = 0
      OBVIOUS
    <3> QED BY <3>2, <3>3 DEF Numbers
  <2>2. RestOf(P, big, x) = Part(s)
    <3>1. big \ {x} = T \cup s
      OBVIOUS
    <3> QED BY <3>1 DEF RestOf
  <2>3. Numbers(Part(s), T \cup s)
    <3>1. T \cup s \in SUBSET S
      OBVIOUS
    <3>2. IsFiniteSet(T \cup s)
      BY <3>1, FS_Subset
    <3> QED BY <3>1, <3>2 DEF Numbers
  <2> HIDE DEF P, big, Part
  <2>4. SumFunction(P) = P[x] + SumFunction(Part(s))
    BY <2>1, <2>2, TakeOutOf
  <2>5. SumFunction(Part(s)) \in Nat
    BY <2>3, SumTyped DEF Numbers
  <2>6. SumFunction(P) = SumFunction(Part(s))
    BY <2>1, <2>4, <2>5
  <2>7. SumFunction(P) = SumFunction(Part({}))
    BY <1>2, <2>6
  <2> QED BY <2>7 DEF P
<1>3. S \ T \in C
  <2>1. IsFiniteSet(S \ T)
    BY FS_Subset
  <2> HIDE DEF C
  <2> QED BY <1>1, <1>2, <2>1, BuiltUp
<1>4. SumFunction(Part(S \ T)) = SumFunction(Part({}))
  BY <1>3
<1>5. Part({}) = [x \in T |-> F[x]]
  OBVIOUS
<1>6. Part(S \ T) = F
  <2>1. T \cup (S \ T) = S /\ F = [x \in S |-> F[x]]
    OBVIOUS
  <2> QED BY <2>1
<1> QED BY <1>4, <1>5, <1>6

\* A sum of values that differ from zero is at least their number.
LEMMA SumCounts ==
    ASSUME NEW S, IsFiniteSet(S), NEW F \in [S -> Nat]
    PROVE  Cardinality({x \in S : F[x] > 0}) <= SumFunction(F)
<1> DEFINE Part(s) == [x \in s |-> F[x]]
           Above(s) == {x \in s : F[x] > 0}
           C == {s \in SUBSET S : Cardinality(Above(s)) <= SumFunction(Part(s))}
<1>0. \A s \in SUBSET S : /\ Numbers(Part(s), s) /\ SumFunction(Part(s)) \in Nat
                          /\ IsFiniteSet(Above(s)) /\ Cardinality(Above(s)) \in Nat
  <2> SUFFICES ASSUME NEW s \in SUBSET S
               PROVE  /\ Numbers(Part(s), s) /\ SumFunction(Part(s)) \in Nat
                      /\ IsFiniteSet(Above(s)) /\ Cardinality(Above(s)) \in Nat
    OBVIOUS
  <2>1. IsFiniteSet(s) /\ Part(s) \in [s -> Nat]
    BY FS_Subset
  <2>2. Above(s) \in SUBSET s
    OBVIOUS
  <2> HIDE DEF Part, Above
  <2>3. IsFiniteSet(Above(s)) /\ Cardinality(Above(s)) \in Nat
    BY <2>1, <2>2, FS_Subset, FS_CardinalityType
  <2> QED BY <2>1, <2>3, SumTyped DEF Numbers
<1>1. {} \in C
  <2>1. Above({}) = {} /\ {} \in SUBSET S
    OBVIOUS
  <2>2. Cardinality(Above({})) = 0
    BY <2>1, FS_EmptySet
  <2> HIDE DEF Part, Above
  <2>3. SumFunction(Part({})) \in Nat
    BY <1>0, <2>1
  <2> QED BY <2>1, <2>2, <2>3
<1>2. ASSUME NEW s \in SUBSET S, NEW x \in S \ s, s \in C
      PROVE  s \cup {x} \in C
  <2> DEFINE t == s \cup {x}
  <2>1. t \in SUBSET S /\ x \in t /\ Part(t)[x] = F[x] /\ F[x] \in Nat
        /\ RestOf(Part(t), t, x) = Part(s)
    <3>1. t \ {x} = s
      OBVIOUS
    <3> QED BY <3>1 DEF RestOf
  <2>2. Above(t) = IF F[x] > 0 THEN Above(s) \cup {x} ELSE Above(s)
    OBVIOUS
  <2>3. x \notin Above(s)
    OBVIOUS
  <2> HIDE DEF t, Part, Above
  <2>4. SumFunction(Part(t)) = F[x] + SumFunction(Part(s))
    BY <1>0, <2>1, TakeOutOf
  <2>5. Cardinality(Above(t)) <= Cardinality(Above(s)) + (IF F[x] > 0 THEN 1 ELSE 0)
    <3>1. IsFiniteSet(Above(s)) /\ Cardinality(Above(s)) \in Nat
      BY <1>0
    <3>2. Cardinality(Above(s) \cup {x}) = Cardinality(Above(s)) + 1
      BY <2>3, <3>1, FS_AddElement
    <3> QED BY <2>2, <3>1, <3>2
  <2>6. /\ Cardinality(Above(s)) <= SumFunction(Part(s))
        /\ Cardinality(Above(s)) \in Nat /\ SumFunction(Part(s)) \in Nat
        /\ Cardinality(Above(t)) \in Nat
    BY <1>0, <1>2, <2>1
  <2>7. Cardinality(Above(t)) <= SumFunction(Part(t))
    BY <2>1, <2>4, <2>5, <2>6
  <2> QED BY <2>1, <2>7 DEF t
<1>3. S \in C
  <2> HIDE DEF C
  <2> QED BY <1>1, <1>2, BuiltUp
<1>4. Part(S) = F
  OBVIOUS
<1> QED BY <1>3, <1>4

\* Counting places counts elements.
LEMMA CountByPlace ==
    ASSUME NEW S, IsFiniteSet(S), NEW s, Placed(s, S), NEW A \in SUBSET S
    PROVE  /\ IsFiniteSet(A)
           /\ Cardinality({i \in DOMAIN s : s[i] \in A}) = Cardinality(A)
<1> DEFINE I == {i \in DOMAIN s : s[i] \in A}
           f == [i \in I |-> s[i]]
<1>1. /\ \A i, j \in DOMAIN s : s[i] = s[j] => i = j
      /\ \A x \in S : \E i \in DOMAIN s : s[i] = x
  BY DEF Placed
<1>2. f \in Bijection(I, A)
  <2>1. f \in [I -> A] /\ \A i, j \in I : f[i] = f[j] => i = j
    BY <1>1
  <2>2. \A x \in A : \E i \in I : f[i] = x
    BY <1>1
  <2> HIDE DEF f, I
  <2> QED BY <2>1, <2>2 DEF Bijection, Injection, IsInjective, Surjection
<1>3. IsFiniteSet(A)
  BY FS_Subset
<1>4. IsFiniteSet(I)
  <2>1. /\ Cardinality(S) \in Nat /\ DOMAIN s = 1..Cardinality(S) /\ I \in SUBSET DOMAIN s
    BY DEF Placed
  <2> HIDE DEF I
  <2>2. IsFiniteSet(DOMAIN s)
    BY <2>1, FS_Interval
  <2> QED BY <2>1, <2>2, FS_Subset
<1> HIDE DEF f, I
<1>5. Cardinality(A) = Cardinality(I)
  BY <1>2, <1>4, FS_Bijection DEF ExistsBijection
<1> QED BY <1>3, <1>5 DEF I

\* Summing by place sums by element.
LEMMA SumByPlace ==
    ASSUME NEW S, IsFiniteSet(S), NEW s, Placed(s, S), NEW F \in [S -> Nat]
    PROVE  SumFunction([i \in DOMAIN s |-> F[s[i]]]) = SumFunction(F)
<1> DEFINE I == DOMAIN s
           At(t) == {s[i] : i \in t}
           Places(t) == [i \in t |-> F[s[i]]]
           Values(t) == [x \in At(t) |-> F[x]]
           C == {t \in SUBSET I : SumFunction(Places(t)) = SumFunction(Values(t))}
<1>1. /\ I = 1..Cardinality(S) /\ Cardinality(S) \in Nat /\ s \in [I -> S]
      /\ \A i, j \in I : s[i] = s[j] => i = j
      /\ \A x \in S : \E i \in I : s[i] = x
  BY DEF Placed
<1>2. IsFiniteSet(I)
  <2> HIDE DEF I
  <2> QED BY <1>1, FS_Interval
<1>3. {} \in C
  <2>1. At({}) = {} /\ Places({}) = Values({})
    OBVIOUS
  <2> QED BY <2>1
<1>4. ASSUME NEW t \in SUBSET I, NEW i \in I \ t, t \in C
      PROVE  t \cup {i} \in C
  <2> DEFINE u == t \cup {i}
             x == s[i]
  <2>1. /\ u \in SUBSET I /\ i \in u /\ u \ {i} = t /\ x \in S
        /\ At(u) \in SUBSET S /\ At(u) = At(t) \cup {x}
    BY <1>1
  <2>2. x \notin At(t) /\ x \in At(u) /\ At(u) \ {x} = At(t)
    BY <1>1, <2>1
  <2>3. Places(u)[i] = F[x] /\ RestOf(Places(u), u, i) = Places(t)
    BY <2>1 DEF RestOf
  <2>4. Values(u)[x] = F[x] /\ RestOf(Values(u), At(u), x) = Values(t)
    BY <2>1, <2>2 DEF RestOf
  <2>5. Numbers(Places(u), u)
    <3>1. IsFiniteSet(u)
      <4> HIDE DEF u, I
      <4> QED BY <1>2, <2>1, FS_Subset
    <3>2. Places(u) \in [u -> Nat]
      BY <1>1
    <3> QED BY <3>1, <3>2 DEF Numbers
  <2>6. Numbers(Values(u), At(u))
    <3>1. IsFiniteSet(At(u))
      <4> HIDE DEF At
      <4> QED BY <2>1, FS_Subset
    <3>2. Values(u) \in [At(u) -> Nat]
      BY <2>1
    <3> QED BY <3>1, <3>2 DEF Numbers
  <2>7. SumFunction(Places(t)) = SumFunction(Values(t))
    BY <1>4
  <2> HIDE DEF u, x, Places, Values, At, I
  <2>8. SumFunction(Places(u)) = F[x] + SumFunction(Places(t))
    BY <2>1, <2>3, <2>5, TakeOutOf
  <2>9. SumFunction(Values(u)) = F[x] + SumFunction(Values(t))
    BY <2>2, <2>4, <2>6, TakeOutOf
  <2>10. SumFunction(Places(u)) = SumFunction(Values(u))
    BY <2>7, <2>8, <2>9
  <2> QED BY <2>1, <2>10 DEF u
<1>5. I \in C
  <2> HIDE DEF C, I
  <2> QED BY <1>2, <1>3, <1>4, BuiltUp
<1>6. SumFunction(Places(I)) = SumFunction(Values(I))
  BY <1>5
<1>7. Values(I) = F
  <2>1. At(I) = S
    BY <1>1
  <2>2. F = [x \in S |-> F[x]]
    OBVIOUS
  <2> QED BY <2>1, <2>2
<1> QED BY <1>6, <1>7

\* A set is as large as its parts together.
Block(f, S, t) == {x \in S : f[x] = t}

LEMMA PartsAddUp ==
    ASSUME NEW S, IsFiniteSet(S), NEW T, IsFiniteSet(T), NEW f \in [S -> T]
    PROVE  SumFunction([t \in T |-> Cardinality(Block(f, S, t))]) = Cardinality(S)
<1> DEFINE Of(t)   == {x \in S : f[x] = t}
           In(u)   == {x \in S : f[x] \in u}
           Sizes(u) == [t \in u |-> Cardinality(Of(t))]
           C == {u \in SUBSET T : SumFunction(Sizes(u)) = Cardinality(In(u))}
<1>1. /\ \A t : IsFiniteSet(Of(t)) /\ Cardinality(Of(t)) \in Nat
      /\ \A u : IsFiniteSet(In(u)) /\ Cardinality(In(u)) \in Nat
  <2>1. \A t : Of(t) \in SUBSET S
    OBVIOUS
  <2>2. \A u : In(u) \in SUBSET S
    OBVIOUS
  <2> HIDE DEF Of, In
  <2> QED BY <2>1, <2>2, FS_Subset, FS_CardinalityType
<1>2. \A u \in SUBSET T : Numbers(Sizes(u), u)
  <2> SUFFICES ASSUME NEW u \in SUBSET T PROVE Numbers(Sizes(u), u)
    OBVIOUS
  <2> HIDE DEF Of
  <2>1. Sizes(u) \in [u -> Nat]
    BY <1>1
  <2> HIDE DEF Sizes
  <2> QED BY <2>1, FS_Subset DEF Numbers
<1>3. {} \in C
  <2>1. In({}) = {} /\ {} \in SUBSET T
    OBVIOUS
  <2>2. Cardinality(In({})) = 0
    BY <2>1, FS_EmptySet
  <2>3. SumFunction(Sizes({})) = 0
    <3>1. \A t \in {} : Sizes({})[t] = 0
      OBVIOUS
    <3> HIDE DEF Sizes
    <3> QED BY <1>2, <2>1, <3>1, SumOfZeros DEF Numbers
  <2> QED BY <2>1, <2>2, <2>3
<1>4. ASSUME NEW u \in SUBSET T, NEW t \in T \ u, u \in C
      PROVE  u \cup {t} \in C
  <2> DEFINE v == u \cup {t}
  <2>1. v \in SUBSET T /\ t \in v /\ v \ {t} = u
    OBVIOUS
  <2>2. Sizes(v)[t] = Cardinality(Of(t)) /\ RestOf(Sizes(v), v, t) = Sizes(u)
    BY <2>1 DEF RestOf
  <2>3. In(v) = In(u) \cup Of(t) /\ In(u) \cap Of(t) = {}
    OBVIOUS
  <2>4. SumFunction(Sizes(u)) = Cardinality(In(u))
    BY <1>4
  <2> HIDE DEF v, Sizes, In, Of
  <2>5. SumFunction(Sizes(v)) = Cardinality(Of(t)) + SumFunction(Sizes(u))
    BY <1>2, <2>1, <2>2, TakeOutOf
  <2>6. Cardinality(In(v)) = Cardinality(In(u)) + Cardinality(Of(t))
    <3>1. Cardinality(In(u) \cup Of(t))
              = Cardinality(In(u)) + Cardinality(Of(t)) - Cardinality(In(u) \cap Of(t))
      BY <1>1, FS_Union
    <3>2. Cardinality(In(u) \cap Of(t)) = 0
      BY <2>3, FS_EmptySet
    <3> QED BY <1>1, <2>3, <3>1, <3>2
  <2>7. SumFunction(Sizes(v)) = Cardinality(In(v))
    BY <1>1, <2>4, <2>5, <2>6
  <2> QED BY <2>1, <2>7 DEF v
<1>5. T \in C
  <2> HIDE DEF C
  <2> QED BY <1>3, <1>4, BuiltUp
<1>6. SumFunction(Sizes(T)) = Cardinality(In(T))
  BY <1>5
<1>7. In(T) = S
  OBVIOUS
<1>8. \A t : Block(f, S, t) = Of(t)
  BY DEF Block
<1> QED
  <2> HIDE DEF Of
  <2>1. [t \in T |-> Cardinality(Block(f, S, t))] = Sizes(T)
    BY <1>8
  <2> QED BY <1>6, <1>7, <2>1

-----------------------------------------------------------------------------
(* Months.                                                                  *)

LEMMA MonthStarts ==
    /\ DaysBefore[1] = 0 /\ DaysBefore[2] = 31 /\ DaysBefore[3] = 59 /\ DaysBefore[4] = 90
    /\ DaysBefore[5] = 120 /\ DaysBefore[6] = 151 /\ DaysBefore[7] = 181
    /\ DaysBefore[8] = 212 /\ DaysBefore[9] = 243 /\ DaysBefore[10] = 273
    /\ DaysBefore[11] = 304 /\ DaysBefore[12] = 334
BY DEF DaysBefore

\* A day that every month has is of the month it is counted in.
LEMMA DayOfItsMonth ==
    ASSUME NEW m \in Int, NEW d \in 1..28
    PROVE  /\ FirstOf(m) + d - 1 \in Int
           /\ MonthOf(FirstOf(m) + d - 1) = m
           /\ DayOfMonth(FirstOf(m) + d - 1) = d
<1> DEFINE year  == m \div 12
           k     == (m % 12) + 1
           in    == DaysBefore[k] + d - 1
           day   == FirstOf(m) + d - 1
           reached == {j \in 1..12 : DaysBefore[j] <= day % 365}
<1>1. year \in Int /\ k \in 1..12 /\ m = 12 * year + k - 1
  OBVIOUS
<1>2. FirstOf(m) = 365 * year + DaysBefore[k]
  BY DEF FirstOf
<1> HIDE DEF year, k
<1>3. /\ DaysBefore[k] \in Int /\ in >= DaysBefore[k] /\ 0 <= in /\ in < 365
      /\ \A j \in 1..12 : DaysBefore[j] \in Int /\ (j > k => in < DaysBefore[j])
  BY <1>1, MonthStarts
<1>4. day = 365 * year + in /\ day \in Int /\ FirstOf(m) \in Int
  BY <1>1, <1>2, <1>3
<1> HIDE DEF in
<1>5. in \in Int
  BY <1>3 DEF in
<1>6. day \div 365 = year /\ day % 365 = in
  BY <1>1, <1>3, <1>4, <1>5
<1>7. MonthOf(day) = 12 * (day \div 365) + Max(reached) - 1
  BY DEF MonthOf
<1>8. k \in reached /\ \A j \in reached : j <= k
  <2>1. k \in reached
    BY <1>1, <1>3, <1>6
  <2> SUFFICES ASSUME NEW j \in reached PROVE j <= k
    BY <2>1
  <2>2. j \in 1..12 /\ DaysBefore[j] <= in
    BY <1>6
  <2>3. ~(j > k)
    BY <1>3, <1>5, <2>2
  <2> QED BY <1>1, <2>2, <2>3
<1>9. Max(reached) = k
  <2>1. reached \in SUBSET Int
    OBVIOUS
  <2> HIDE DEF reached
  <2> QED BY <1>8, <2>1, HighestIn
<1>10. MonthOf(day) = m
  BY <1>1, <1>6, <1>7, <1>9
<1>11. DayOfMonth(day) = day - FirstOf(m) + 1
  BY <1>10 DEF DayOfMonth
<1> QED BY <1>4, <1>10, <1>11

LEMMA UpToIsFinite ==
    ASSUME NEW n \in Int
    PROVE  IsFiniteSet(1..n)
BY FS_Interval

LEMMA MonthTyped ==
    ASSUME NEW day \in Int
    PROVE  /\ MonthOf(day) \in Int /\ FirstOf(MonthOf(day)) \in Int
           /\ DayOfMonth(day) \in Int /\ DayOfMonth(day) >= 1
           /\ day = FirstOf(MonthOf(day)) + DayOfMonth(day) - 1
<1> DEFINE reached == {j \in 1..12 : DaysBefore[j] <= day % 365}
           year    == day \div 365
<1>1. 1 \in reached /\ reached \in SUBSET Int
  BY MonthStarts
<1>2. IsFiniteSet(reached)
  <2> DEFINE last   == 12
             months == 1..last
  <2>1. reached \in SUBSET months /\ last \in Int
    OBVIOUS
  <2> HIDE DEF reached, last
  <2>2. IsFiniteSet(months)
    BY <2>1, UpToIsFinite
  <2> HIDE DEF months
  <2> QED BY <2>1, <2>2, FS_Subset
<1>3. MonthOf(day) = 12 * year + Max(reached) - 1
  BY DEF MonthOf
<1>4. year \in Int /\ day % 365 \in Int /\ day = 365 * year + (day % 365)
  <2>1. /\ day \div 365 \in Int /\ day % 365 \in Int
        /\ day = 365 * (day \div 365) + (day % 365)
    OBVIOUS
  <2> QED BY <2>1 DEF year
<1>5. PICK k \in reached : \A j \in reached : j <= k
  <2> HIDE DEF reached
  <2> QED BY <1>1, <1>2, HasGreatest
<1>6. k \in 1..12 /\ DaysBefore[k] <= day % 365
  BY <1>5
<1>7. Max(reached) = k
  <2> HIDE DEF reached
  <2> QED BY <1>1, <1>5, HighestIn
<1> HIDE DEF year, reached
<1> DEFINE m == MonthOf(day)
<1>8. m = 12 * year + k - 1 /\ m \in Int
  BY <1>3, <1>4, <1>6, <1>7
<1> HIDE DEF m
<1>9. m \div 12 = year /\ (m % 12) + 1 = k
  BY <1>4, <1>6, <1>8
<1>10. FirstOf(m) = 365 * year + DaysBefore[k]
  BY <1>9 DEF FirstOf
<1>11. DaysBefore[k] \in Int
  BY <1>6, MonthStarts
<1>12. FirstOf(m) \in Int /\ FirstOf(m) <= day
  BY <1>4, <1>6, <1>10, <1>11
<1>13. DayOfMonth(day) = day - FirstOf(m) + 1
  BY DEF DayOfMonth, m
<1> QED BY <1>8, <1>12, <1>13 DEF m

\* Through day 28, so many months later it is the same day of the month.
LEMMA AddMonthsKeepsDay ==
    ASSUME NEW m \in Int, NEW d \in 1..28, NEW k \in Int
    PROVE  AddMonths(FirstOf(m) + d - 1, k) = FirstOf(m + k) + d - 1
<1> DEFINE day == FirstOf(m) + d - 1
<1>1. MonthOf(day) = m /\ DayOfMonth(day) = d
  BY DayOfItsMonth
<1> HIDE DEF day
<1>2. AddMonths(day, k) = FirstOf(m + k) + d - 1
  BY <1>1 DEF AddMonths
<1> QED BY <1>2 DEF day

\* What a guest was written about in a month.
Volume(f, g, month) == Cardinality({r \in f[g] : MonthOf(r.submittedAt) = month})

\* Through day 28, each bucket of the timeline is a month further.
LEMMA TimelineMonths ==
    ASSUME NEW now \in Int, DayOfMonth(now) <= 28, NEW i \in 1..12
    PROVE  /\ Timeline(now)[i].month = MonthOf(now) - 12 + i
           /\ Timeline(now)[i].count =
                  SumFunction([g \in Guests |-> Volume(all, g, MonthOf(now) - 12 + i)])
<1> DEFINE m == MonthOf(now)
           d == DayOfMonth(now)
           day(k) == FirstOf(m - 12 + k) + d - 1
           cursor == CHOOSE c : c = [k \in 1..12 |-> IF k = 1 THEN AddMonths(now, -11)
                                                     ELSE AddMonths(c[k - 1], 1)]
           written(month) == SumFunction([g \in Guests |-> Volume(all, g, month)])
<1>1. Timeline(now) = [k \in 1..12 |-> [month |-> MonthOf(cursor[k]),
                                        count |-> written(MonthOf(cursor[k]))]]
  BY Zenon DEF Timeline, Volume
<1>2. m \in Int /\ d \in 1..28 /\ now = FirstOf(m) + d - 1
  <2>1. /\ m \in Int /\ d \in Int /\ d >= 1 /\ d <= 28
        /\ now = FirstOf(m) + d - 1
    BY MonthTyped
  <2> HIDE DEF m, d
  <2> QED BY <2>1
<1> HIDE DEF m, d
<1>3. AddMonths(now, -11) = day(1)
  <2>1. m + (-11) = m - 12 + 1 /\ -11 \in Int
    BY <1>2
  <2>2. AddMonths(FirstOf(m) + d - 1, -11) = FirstOf(m + (-11)) + d - 1
    <3> DEFINE back == -11
    <3>1. back \in Int
      BY <2>1
    <3> HIDE DEF back
    <3>2. AddMonths(FirstOf(m) + d - 1, back) = FirstOf(m + back) + d - 1
      BY <1>2, <3>1, AddMonthsKeepsDay
    <3> QED BY <3>2 DEF back
  <2> QED BY <1>2, <2>1, <2>2
<1>4. ASSUME NEW k \in 1..12, k # 1
      PROVE  AddMonths(day(k - 1), 1) = day(k)
  <2> DEFINE before == m - 12 + (k - 1)
  <2>1. before \in Int /\ before + 1 = m - 12 + k
    BY <1>2
  <2>2. AddMonths(FirstOf(before) + d - 1, 1) = FirstOf(before + 1) + d - 1
    <3> DEFINE one == 1
    <3>1. one \in Int
      OBVIOUS
    <3> HIDE DEF before, one
    <3>2. AddMonths(FirstOf(before) + d - 1, one) = FirstOf(before + one) + d - 1
      BY <1>2, <2>1, <3>1, AddMonthsKeepsDay
    <3> QED BY <3>2 DEF one
  <2> QED
    <3> HIDE DEF before
    <3>1. AddMonths(FirstOf(before) + d - 1, 1) = FirstOf(m - 12 + k) + d - 1
      BY <2>1, <2>2
    <3> QED BY <3>1 DEF before
<1>5. cursor = [k \in 1..12 |-> IF k = 1 THEN AddMonths(now, -11)
                                ELSE AddMonths(cursor[k - 1], 1)]
  <2> DEFINE c == [k \in 1..12 |-> day(k)]
  <2>1. ASSUME NEW k \in 1..12
        PROVE  c[k] = IF k = 1 THEN AddMonths(now, -11) ELSE AddMonths(c[k - 1], 1)
    <3> HIDE DEF day
    <3>1. CASE k = 1
      BY <1>3, <3>1
    <3>2. CASE k # 1
      <4>1. k - 1 \in 1..12
        BY <3>2
      <4>2. c[k - 1] = day(k - 1) /\ c[k] = day(k)
        BY <4>1
      <4> HIDE DEF c
      <4> QED BY <1>4, <3>2, <4>2
    <3> QED BY <3>1, <3>2
  <2>2. c = [k \in 1..12 |-> c[k]]
    OBVIOUS
  <2> HIDE DEF c
  <2>3. c = [k \in 1..12 |-> IF k = 1 THEN AddMonths(now, -11) ELSE AddMonths(c[k - 1], 1)]
    BY <2>1, <2>2
  <2> QED BY <2>3
<1> HIDE DEF cursor, day
<1>6. \A k \in 1..12 : cursor[k] = day(k)
  <2> DEFINE bad == {k \in 1..12 : cursor[k] # day(k)}
  <2> SUFFICES ASSUME bad # {} PROVE FALSE
    OBVIOUS
  <2> DEFINE k == Min(bad)
  <2>1. k \in bad /\ \A j \in bad : k <= j
    <3>1. bad \in SUBSET Nat
      OBVIOUS
    <3> HIDE DEF bad
    <3> QED BY <3>1, HasLeast
  <2> HIDE DEF k
  <2>2. k \in 1..12 /\ cursor[k] # day(k)
    BY <2>1
  <2>3. k # 1
    <3>1. cursor[1] = AddMonths(now, -11)
      BY <1>5
    <3> QED BY <1>3, <2>2, <3>1
  <2>4. k - 1 \in 1..12 /\ k - 1 \notin bad
    BY <2>1, <2>2, <2>3
  <2>5. cursor[k - 1] = day(k - 1)
    BY <2>4
  <2>6. cursor[k] = AddMonths(cursor[k - 1], 1)
    BY <1>5, <2>2, <2>3
  <2> QED BY <1>4, <2>2, <2>3, <2>5, <2>6
<1>7. MonthOf(cursor[i]) = m - 12 + i
  <2>1. m - 12 + i \in Int
    BY <1>2
  <2>2. MonthOf(day(i)) = m - 12 + i
    BY <1>2, <2>1, DayOfItsMonth DEF day
  <2> QED BY <1>6, <2>2
<1>8. /\ Timeline(now)[i].month = MonthOf(cursor[i])
      /\ Timeline(now)[i].count = written(MonthOf(cursor[i]))
  <2> HIDE DEF written
  <2> QED BY <1>1
<1>9. /\ Timeline(now)[i].month = m - 12 + i
      /\ Timeline(now)[i].count = written(m - 12 + i)
  BY <1>7, <1>8
<1> QED BY <1>9 DEF m

-----------------------------------------------------------------------------
(* The statistics.                                                          *)

\* The statistics are of everybody, and answer with what was counted.
StatsInv ==
    /\ Reading /\ query.kind = "stats" =>
           began.open \subseteq Guests /\ Placed(listed, began.open)
    /\ pc = "stays" => query.kind # "stats"
    /\ pc = "answered" /\ query.kind = "stats" => stat = Statistics

LEMMA StatsListGuests ==
    ASSUME IInv, ListGuests
    PROVE  StatsInv'
<1>1. /\ pc = "list" /\ pc' \in {"all", "read"} /\ query' = query
      /\ listed' \in Listings /\ open' = open /\ database' = database
      /\ began' = [open |-> open, file |-> file, day |-> today]
  BY DEF ListGuests, store
<1> SUFFICES ASSUME query.kind = "stats"
             PROVE  open \subseteq Guests /\ Placed(listed', open)
  BY <1>1 DEF StatsInv, Placed
<1>2. StoreIsTyped /\ open \subseteq Guests
  BY DEF IInv, StoreIsTyped
<1>3. Found = open
  BY DEF Found, Matches
<1>4. IsFiniteSet(open)
  BY <1>2, DirectoryAssumption, FS_Subset
<1> DEFINE list == listed'
<1>5. list \in Listings
  BY <1>1
<1> HIDE DEF list
<1>6. /\ list \in [1..Cardinality(open) -> open]
      /\ \A i, j \in DOMAIN list : i < j => list[i] # list[j]
  BY <1>3, <1>5 DEF Listings, Found
<1>7. Enumerates(list, open, open \X open)
  BY <1>6 DEF Enumerates
<1>8. Placed(list, open)
  BY <1>4, <1>7, RunsThrough
<1> QED BY <1>2, <1>8 DEF list

LEMMA StatisticsStay ==
    ASSUME at' = at, all' = all, listed' = listed, read' = read
    PROVE  Statistics' = Statistics
BY DEF Statistics, RowOf, Scored, Timeline

LEMMA StatsSame ==
    ASSUME StatsInv, UNCHANGED <<request, began>>
    PROVE  StatsInv'
<1>1. /\ pc' = pc /\ query' = query /\ at' = at /\ all' = all
      /\ listed' = listed /\ read' = read /\ stat' = stat /\ began' = began
  BY DEF request
<1>2. Statistics' = Statistics
  BY <1>1, StatisticsStay
<1> QED BY <1>1, <1>2 DEF StatsInv, Placed, Reading

LEMMA StatsFinish ==
    ASSUME StatsInv, FinishStats
    PROVE  StatsInv'
<1>1. /\ pc = "read" /\ pc' = "answered" /\ query' = query /\ listed' = listed
      /\ began' = began /\ at' = at /\ all' = all /\ read' = read
  BY DEF FinishStats, member
<1>2. stat' = Statistics
  BY DEF FinishStats
<1>3. Statistics' = Statistics
  BY <1>1, StatisticsStay
<1> QED BY <1>1, <1>2, <1>3 DEF StatsInv, Placed, Reading

\* The inductive invariant of the statistics.
THEOREM StatsInvariance == Spec => []StatsInv
<1>1. Init => StatsInv
  BY DEF Init, StatsInv, Reading
<1>2. IInv /\ StatsInv /\ [Next]_vars => StatsInv'
  <2> SUFFICES ASSUME IInv, StatsInv, [Next]_vars
               PROVE  StatsInv'
    OBVIOUS
  <2>1. CASE \E g \in Guests : OpenFile(g)
    BY <2>1, StatsSame DEF OpenFile
  <2>2. CASE \E g \in Guests, lag \in Lags : \E s \in Samples[g] : File(g, s, lag)
    BY <2>2, StatsSame DEF File
  <2>3. CASE Tick
    BY <2>3, StatsSame DEF Tick
  <2>4. CASE \E q \in Queries : Ask(q)
    BY <2>4 DEF Ask, StatsInv, Reading
  <2>5. CASE ListGuests
    BY <2>5, StatsListGuests
  <2>6. CASE AllReviews
    BY <2>6 DEF AllReviews, member, StatsInv, Placed, Reading
  <2>7. CASE ReviewsForGuest
    BY <2>7 DEF ReviewsForGuest, member, StatsInv, Placed, Reading
  <2>8. CASE Finish
    BY <2>8 DEF Finish, StatsInv
  <2>9. CASE ResolveStays
    BY <2>9 DEF ResolveStays, member, StatsInv, Placed, Reading
  <2>10. CASE FinishStats
    BY <2>10, StatsFinish
  <2>11. CASE NextPage
    BY <2>11 DEF NextPage, StatsInv, Reading
  <2>12. CASE Leave \/ Fail
    BY <2>12 DEF Leave, Fail, Reset, StatsInv, Reading
  <2>13. CASE UNCHANGED vars
    BY <2>13, StatsSame DEF vars, member
  <2> QED BY <2>1, <2>2, <2>3, <2>4, <2>5, <2>6, <2>7, <2>8, <2>9, <2>10, <2>11, <2>12,
             <2>13 DEF Next
<1> QED BY <1>1, <1>2, Invariance, PTL DEF Spec

\* Incidents are counted, and none without a review that counts.
LEMMA IncidentsTyped ==
    ASSUME NEW rs \in SUBSET Records, IsFiniteSet(rs)
    PROVE  IncidentCount(rs) \in Nat /\ (Counted(rs) = {} => IncidentCount(rs) = 0)
<1> DEFINE F == [r \in Counted(rs) |-> Len(r.incidents)]
<1>1. IsFiniteSet(Counted(rs))
  BY FS_Subset DEF Counted
<1>2. F \in [Counted(rs) -> Nat]
  <2>1. \A r \in Counted(rs) : r.incidents \in Seq(Incidents)
    BY DEF Counted, Records
  <2> QED BY <2>1
<1>3. IncidentCount(rs) = SumFunction(F)
  BY DEF IncidentCount, Counted
<1> HIDE DEF F
<1>4. SumFunction(F) \in Nat
  BY <1>1, <1>2, SumTyped
<1>5. Counted(rs) = {} => SumFunction(F) = 0
  BY <1>1, <1>2, SumOfZeros
<1> QED BY <1>3, <1>4, <1>5

LEMMA TierNamesAre ==
    TierNames = {"Excellent", "Good", "Fair", "Poor"} /\ IsFiniteSet(TierNames)
<1>1. TierNames = {DefaultTiers[i].name : i \in 1..4}
  BY FourTiers DEF TierNames, Model, DefaultModel
<1>2. TierNames = {"Excellent", "Good", "Fair", "Poor"}
  <2>1. 1 \in 1..4 /\ 2 \in 1..4 /\ 3 \in 1..4 /\ 4 \in 1..4
        /\ \A i \in 1..4 : i = 1 \/ i = 2 \/ i = 3 \/ i = 4
    OBVIOUS
  <2>2. \A x : x \in TierNames <=>
            \/ x = DefaultTiers[1].name \/ x = DefaultTiers[2].name
            \/ x = DefaultTiers[3].name \/ x = DefaultTiers[4].name
    BY <1>1, <2>1
  <2> QED BY <2>2, FourTiers
<1>3. IsFiniteSet(TierNames)
  <2> DEFINE a == {"Excellent", "Good"}
             b == {"Fair", "Poor"}
  <2>1. IsFiniteSet({"Excellent"}) /\ IsFiniteSet({"Fair"})
    BY FS_Singleton
  <2>2. a = {"Excellent"} \cup {"Good"} /\ b = {"Fair"} \cup {"Poor"}
    OBVIOUS
  <2>3. IsFiniteSet(a) /\ IsFiniteSet(b)
    BY <2>1, <2>2, FS_AddElement
  <2>4. TierNames = a \cup b
    BY <1>2
  <2> HIDE DEF a, b
  <2> QED BY <2>3, <2>4, FS_Union
<1> QED BY <1>2, <1>3

\* Whatever the score, it is in one of the four tiers, and the last is flagged.
LEMMA TierIsOne ==
    ASSUME NEW score
    PROVE  /\ tierFor(score, Model).name \in TierNames
           /\ tierFor(score, Model).flagged <=> tierFor(score, Model).name = "Poor"
<1> DEFINE reached == {i \in 1..4 : score >= DefaultTiers[i].min}
           i == IF reached = {} THEN 4 ELSE Min(reached)
<1>1. tierFor(score, Model) = DefaultTiers[i]
  <2>1. DefaultModel.tiers = DefaultTiers /\ DOMAIN DefaultTiers = 1..4 /\ Len(DefaultTiers) = 4
    BY FourTiers DEF DefaultModel
  <2> QED BY <2>1, Zenon DEF tierFor, Model
<1>2. i \in 1..4
  <2>1. reached \in SUBSET 1..4 /\ reached \in SUBSET Nat
    OBVIOUS
  <2> HIDE DEF reached
  <2>2. reached # {} => Min(reached) \in reached
    BY <2>1, HasLeast
  <2>3. CASE reached = {}
    BY <2>3
  <2>4. CASE reached # {}
    BY <2>1, <2>2, <2>4
  <2> QED BY <2>3, <2>4
<1> HIDE DEF i
<1>3. DefaultTiers[i].name \in TierNames
  BY <1>2, FourTiers DEF TierNames, Model, DefaultModel
<1>4. DefaultTiers[i].flagged <=> DefaultTiers[i].name = "Poor"
  <2>1. i = 1 \/ i = 2 \/ i = 3 \/ i = 4
    BY <1>2
  <2>2. DefaultTiers[i].flagged <=> i = 4
    BY <1>2, FourTiers
  <2> QED BY <2>1, <2>2, FourTiers
<1> QED BY <1>1, <1>3, <1>4

\* Rated by what counts, on whatever day.
LEMMA ScoreTells ==
    ASSUME NEW rs, NEW day
    PROVE  LET score == Compute(rs, day, Model)
           IN  /\ score.rated <=> Counted(rs) # {}
               /\ Counted(rs) # {} => /\ score.tier \in TierNames
                                      /\ score.flagged <=> score.tier = "Poor"
<1> DEFINE score == Compute(rs, day, Model)
<1>1. PICK n : score = IF Counted(rs) = {} THEN Opening(n, Model)
                       ELSE Earned(Counted(rs), n, day, Model)
  BY ComputeIs
<1> HIDE DEF score
<1>2. CASE Counted(rs) = {}
  <2>1. ~score.rated
    BY <1>1, <1>2, OpeningFields
  <2> QED BY <1>2, <2>1 DEF score
<1>3. CASE Counted(rs) # {}
  <2>1. /\ score.rated
        /\ score.tier = tierFor(score.composite, Model).name
        /\ score.flagged = tierFor(score.composite, Model).flagged
    BY <1>1, <1>3, EarnedFields
  <2>2. /\ tierFor(score.composite, Model).name \in TierNames
        /\ tierFor(score.composite, Model).flagged
               <=> tierFor(score.composite, Model).name = "Poor"
    BY TierIsOne
  <2> QED BY <1>3, <2>1, <2>2 DEF score
<1> QED BY <1>2, <1>3

\* The places of the read guests that a tier, or any, counts.
Told == [i \in DOMAIN read |-> RowOf(read[i])]
RatedPlaces == {i \in DOMAIN read : Told[i].score.rated}
PlacesIn(t) == {i \in DOMAIN read : Told[i].score.rated /\ Told[i].score.tier = t}

LEMMA StatFields ==
    /\ Statistics.guests = Len(listed)
    /\ Statistics.reviews = SumFunction([g \in Guests |-> Cardinality(all[g])])
    /\ Statistics.rated = Cardinality(RatedPlaces)
    /\ Statistics.unrated = Cardinality({i \in DOMAIN read : ~Told[i].score.rated})
    /\ Statistics.tiers = [t \in TierNames |-> Cardinality(PlacesIn(t))]
    /\ Statistics.discounted = Cardinality({i \in RatedPlaces : Discount(Told[i].score.tier) > 0})
    /\ Statistics.flagged = Cardinality({i \in RatedPlaces : Told[i].score.flagged})
    /\ Statistics.withIncidents = Cardinality({i \in RatedPlaces : Told[i].incidents > 0})
    /\ Statistics.incidents = SumFunction([i \in RatedPlaces |-> Told[i].incidents])
    /\ Statistics.timeline = Timeline(at)
<1>1. DOMAIN Told = DOMAIN read
  BY DEF Told
<1>2. Statistics =
        [guests     |-> Len(listed),
         reviews    |-> SumFunction([g \in Guests |-> Cardinality(all[g])]),
         rated      |-> Cardinality(RatedPlaces),
         unrated    |-> Cardinality({i \in DOMAIN read : ~Told[i].score.rated}),
         tiers      |-> [t \in TierNames |-> Cardinality(PlacesIn(t))],
         discounted |-> Cardinality({i \in RatedPlaces : Discount(Told[i].score.tier) > 0}),
         flagged    |-> Cardinality({i \in RatedPlaces : Told[i].score.flagged}),
         withIncidents |-> Cardinality({i \in RatedPlaces : Told[i].incidents > 0}),
         incidents  |-> SumFunction([i \in RatedPlaces |-> Told[i].incidents]),
         timeline   |-> Timeline(at)]
  BY <1>1, Zenon DEF Statistics, Told, RatedPlaces, PlacesIn, Tiers
<1> QED BY <1>2

StatsGiven == IInv /\ PInv /\ StatsInv /\ Answered({"stats"})

\* When the statistics answer, everybody's reviews have been read.
LEMMA AllAreRead ==
    ASSUME StatsGiven
    PROVE  /\ stat = Statistics /\ Reading
           /\ began.open \in SUBSET Guests /\ IsFiniteSet(began.open)
           /\ Placed(listed, began.open) /\ Len(listed) = Cardinality(began.open)
           /\ DOMAIN read = DOMAIN listed /\ IsFiniteSet(DOMAIN read)
           /\ \A i \in DOMAIN read :
                  /\ listed[i] \in began.open
                  /\ read[i].reviews \in SUBSET Records /\ IsFiniteSet(read[i].reviews)
                  /\ Seen(listed[i], read[i].reviews)
<1>1. pc = "answered" /\ query.kind = "stats" /\ Reading
  BY DEF StatsGiven, Answered, Reading
<1>2. /\ stat = Statistics /\ began.open \in SUBSET Guests /\ Placed(listed, began.open)
  BY <1>1 DEF StatsGiven, StatsInv
<1>3. IsFiniteSet(began.open)
  BY <1>2, DirectoryAssumption, FS_Subset
<1>4. listed \in Seq(Guests) /\ read \in Seq(Entries)
  BY DEF StatsGiven, IInv, RequestIsTyped
<1>5. Len(read) = Len(listed)
  BY <1>1 DEF StatsGiven, PInv, Flow, Enough
<1>6. DOMAIN listed = 1..Len(listed) /\ DOMAIN read = 1..Len(listed) /\ Len(listed) \in Nat
  BY <1>4, <1>5
<1>7. /\ DOMAIN listed = 1..Cardinality(began.open) /\ Cardinality(began.open) \in Nat
      /\ \A i \in DOMAIN listed : listed[i] \in began.open
  BY <1>2 DEF Placed
<1>8. Len(listed) = Cardinality(began.open)
  BY <1>6, <1>7
<1>9. IsFiniteSet(DOMAIN read)
  BY <1>6, UpToIsFinite
<1>10. ASSUME NEW i \in DOMAIN read
       PROVE  /\ read[i].reviews \in SUBSET Records /\ IsFiniteSet(read[i].reviews)
              /\ Seen(listed[i], read[i].reviews)
  <2>1. Seen(listed[i], read[i].reviews)
    BY <1>1 DEF StatsGiven, IInv, ReadingInv, ReadAreSeen
  <2>2. listed[i] \in Guests
    BY <1>2, <1>6, <1>7
  <2>3. IsFiniteSet(file[listed[i]])
    BY <2>2 DEF StatsGiven, IInv, StoreIsTyped
  <2>4. file[listed[i]] \in SUBSET Records
    BY <2>2 DEF StatsGiven, IInv, StoreIsTyped
  <2>5. read[i].reviews \in SUBSET file[listed[i]]
    BY <2>1 DEF Seen
  <2> QED BY <2>1, <2>3, <2>4, <2>5, FS_Subset
<1> QED BY <1>1, <1>2, <1>3, <1>6, <1>7, <1>8, <1>9, <1>10

LEMMA ToldIs ==
    ASSUME StatsGiven, NEW i \in DOMAIN read
    PROVE  /\ Told[i].score = Compute(read[i].reviews, read[i].day, Model)
           /\ Told[i].incidents = IncidentCount(read[i].reviews) /\ Told[i].incidents \in Nat
           /\ Told[i].score.rated <=> Counted(read[i].reviews) # {}
           /\ Told[i].score.rated => /\ Told[i].score.tier \in TierNames
                                     /\ Told[i].score.flagged <=> Told[i].score.tier = "Poor"
           /\ ~Told[i].score.rated => Told[i].incidents = 0
<1> DEFINE rs  == read[i].reviews
           day == read[i].day
<1>1. Told[i] = Row(read[i].guest, rs, Compute(rs, day, Model))
  BY DEF Told, RowOf, Scored
<1>2. rs \in SUBSET Records /\ IsFiniteSet(rs)
  BY AllAreRead
<1> HIDE DEF rs, day
<1>3. Told[i].score = Compute(rs, day, Model) /\ Told[i].incidents = IncidentCount(rs)
  BY <1>1, RowFields
<1>4. IncidentCount(rs) \in Nat /\ (Counted(rs) = {} => IncidentCount(rs) = 0)
  BY <1>2, IncidentsTyped
<1>5. LET score == Compute(rs, day, Model)
      IN  /\ score.rated <=> Counted(rs) # {}
          /\ Counted(rs) # {} => /\ score.tier \in TierNames
                                 /\ score.flagged <=> score.tier = "Poor"
  BY ScoreTells
<1> QED BY <1>3, <1>4, <1>5 DEF rs, day

\* Everybody is counted once, in one tier or as unrated.
LEMMA CountedOnce ==
    ASSUME StatsGiven
    PROVE  /\ stat.rated + stat.unrated = stat.guests
           /\ stat.guests = Cardinality(began.open)
           /\ SumFunction(stat.tiers) = stat.rated
           /\ stat.flagged = stat.tiers["Poor"]
           /\ stat.discounted = stat.tiers["Excellent"] + stat.tiers["Good"]
           /\ stat.withIncidents <= stat.incidents
<1>1. /\ stat = Statistics /\ Placed(listed, began.open) /\ Len(listed) = Cardinality(began.open)
      /\ IsFiniteSet(began.open) /\ DOMAIN read = DOMAIN listed /\ IsFiniteSet(DOMAIN read)
  BY AllAreRead
<1>2. RatedPlaces \in SUBSET DOMAIN read /\ IsFiniteSet(RatedPlaces)
  <2>1. RatedPlaces \in SUBSET DOMAIN read
    BY DEF RatedPlaces
  <2> QED BY <1>1, <2>1, FS_Subset
<1>3. stat.guests = Cardinality(began.open)
  BY <1>1, StatFields
<1>4. stat.tiers = [t \in TierNames |-> Cardinality(PlacesIn(t))]
  BY <1>1, StatFields
<1>5. stat.rated + stat.unrated = stat.guests
  <2> DEFINE un == {i \in DOMAIN read : ~Told[i].score.rated}
  <2>1. un = DOMAIN read \ RatedPlaces /\ DOMAIN read \cap RatedPlaces = RatedPlaces
    BY DEF RatedPlaces
  <2>2. Cardinality(un) = Cardinality(DOMAIN read) - Cardinality(RatedPlaces)
    <3> DEFINE D == DOMAIN read
               R == RatedPlaces
    <3>1. IsFiniteSet(D) /\ un = D \ R /\ D \cap R = R
      BY <1>1, <2>1
    <3> HIDE DEF D, R, un
    <3>2. Cardinality(D \ R) = Cardinality(D) - Cardinality(D \cap R)
      BY <3>1, FS_Difference
    <3>3. Cardinality(un) = Cardinality(D) - Cardinality(R)
      BY <3>1, <3>2
    <3> QED BY <3>3 DEF D, R
  <2>3. Cardinality(DOMAIN read) = Cardinality(began.open)
    <3>1. DOMAIN read = 1..Cardinality(began.open) /\ Cardinality(began.open) \in Nat
      BY <1>1 DEF Placed
    <3> DEFINE n == Cardinality(began.open)
    <3> HIDE DEF n
    <3>2. n \in Nat => Cardinality(1..n) = n
      BY FS_Interval
    <3> QED BY <3>1, <3>2 DEF n
  <2>4. Cardinality(RatedPlaces) \in Nat /\ Cardinality(DOMAIN read) \in Nat
    BY <1>1, <1>2, FS_CardinalityType
  <2>5. stat.rated = Cardinality(RatedPlaces) /\ stat.unrated = Cardinality(un)
    BY <1>1, StatFields
  <2> HIDE DEF un
  <2> QED BY <1>3, <2>2, <2>3, <2>4, <2>5
<1>6. SumFunction(stat.tiers) = stat.rated
  <2> DEFINE f == [i \in RatedPlaces |-> Told[i].score.tier]
  <2>1. f \in [RatedPlaces -> TierNames]
    <3>1. \A i \in RatedPlaces : Told[i].score.tier \in TierNames
      BY ToldIs DEF RatedPlaces
    <3> QED BY <3>1
  <2>2. \A t : PlacesIn(t) = Block(f, RatedPlaces, t)
    BY DEF RatedPlaces, PlacesIn, Block
  <2> HIDE DEF f
  <2>3. SumFunction([t \in TierNames |-> Cardinality(Block(f, RatedPlaces, t))])
            = Cardinality(RatedPlaces)
    BY <1>2, <2>1, TierNamesAre, PartsAddUp
  <2>4. stat.tiers = [t \in TierNames |-> Cardinality(Block(f, RatedPlaces, t))]
    BY <1>4, <2>2
  <2>5. stat.rated = Cardinality(RatedPlaces)
    BY <1>1, StatFields
  <2> QED BY <2>3, <2>4, <2>5
<1>7. stat.flagged = stat.tiers["Poor"]
  <2>1. {i \in RatedPlaces : Told[i].score.flagged} = PlacesIn("Poor")
    BY ToldIs DEF RatedPlaces, PlacesIn
  <2>2. stat.flagged = Cardinality(PlacesIn("Poor"))
    BY <1>1, <2>1, StatFields
  <2>3. "Poor" \in TierNames
    BY TierNamesAre
  <2> QED BY <1>4, <2>2, <2>3
<1>8. stat.discounted = stat.tiers["Excellent"] + stat.tiers["Good"]
  <2> DEFINE some == {i \in RatedPlaces : Discount(Told[i].score.tier) > 0}
  <2>1. \A t : Discount(t) > 0 <=> t = "Excellent" \/ t = "Good"
    <3>1. \A t : Discount(t) = IF t = "Excellent" THEN 20 ELSE IF t = "Good" THEN 10 ELSE 0
      BY DEF Discount
    <3> QED BY <3>1
  <2>2. /\ some = PlacesIn("Excellent") \cup PlacesIn("Good")
        /\ PlacesIn("Excellent") \cap PlacesIn("Good") = {}
    BY <2>1 DEF RatedPlaces, PlacesIn
  <2>3. IsFiniteSet(PlacesIn("Excellent")) /\ IsFiniteSet(PlacesIn("Good"))
    <3>1. PlacesIn("Excellent") \in SUBSET RatedPlaces /\ PlacesIn("Good") \in SUBSET RatedPlaces
      BY DEF RatedPlaces, PlacesIn
    <3> QED BY <1>2, <3>1, FS_Subset
  <2>4. stat.discounted = Cardinality(some)
    BY <1>1, StatFields
  <2> HIDE DEF some
  <2>5. /\ Cardinality(some) = Cardinality(PlacesIn("Excellent")) + Cardinality(PlacesIn("Good"))
                               - Cardinality(PlacesIn("Excellent") \cap PlacesIn("Good"))
        /\ Cardinality(PlacesIn("Excellent")) \in Nat /\ Cardinality(PlacesIn("Good")) \in Nat
    BY <2>2, <2>3, FS_Union, FS_CardinalityType
  <2>6. Cardinality(PlacesIn("Excellent") \cap PlacesIn("Good")) = 0
    BY <2>2, FS_EmptySet
  <2>7. stat.tiers["Excellent"] = Cardinality(PlacesIn("Excellent"))
        /\ stat.tiers["Good"] = Cardinality(PlacesIn("Good"))
    BY <1>4, TierNamesAre
  <2> QED BY <2>4, <2>5, <2>6, <2>7
<1>9. stat.withIncidents <= stat.incidents
  <2> DEFINE F == [i \in RatedPlaces |-> Told[i].incidents]
  <2>1. F \in [RatedPlaces -> Nat]
    BY ToldIs DEF RatedPlaces
  <2>2. {i \in RatedPlaces : F[i] > 0} = {i \in RatedPlaces : Told[i].incidents > 0}
    OBVIOUS
  <2>3. stat.withIncidents = Cardinality({i \in RatedPlaces : F[i] > 0})
        /\ stat.incidents = SumFunction(F)
    BY <1>1, <2>2, StatFields
  <2> HIDE DEF F
  <2> QED BY <1>2, <2>1, <2>3, SumCounts
<1> QED BY <1>3, <1>5, <1>6, <1>7, <1>8, <1>9

RatedAt(f, day) == {g \in began.open : Compute(f[g], day, Model).rated}

\* Files that change meanwhile shift the figures no more than they changed.
LEMMA RatedBetween ==
    ASSUME StatsGiven
    PROVE  /\ Cardinality(RatedAt(began.file, began.day)) <= stat.rated
           /\ stat.rated <= Cardinality(RatedAt(file, today))
<1> DEFINE S  == began.open
           A  == RatedAt(began.file, began.day)
           B  == RatedAt(file, today)
           PlacesOf(T) == {i \in DOMAIN listed : listed[i] \in T}
<1>1. /\ stat = Statistics /\ Placed(listed, S) /\ IsFiniteSet(S)
      /\ DOMAIN read = DOMAIN listed /\ IsFiniteSet(DOMAIN listed)
      /\ \A i \in DOMAIN listed : listed[i] \in S /\ Seen(listed[i], read[i].reviews)
  BY AllAreRead
<1>2. stat.rated = Cardinality(RatedPlaces)
  BY <1>1, StatFields
<1>3. A \in SUBSET S /\ B \in SUBSET S
  BY DEF RatedAt
<1>4. /\ \A g \in S : g \in A <=> Counted(began.file[g]) # {}
      /\ \A g \in S : g \in B <=> Counted(file[g]) # {}
  BY ScoreTells DEF RatedAt
<1>5. \A i \in DOMAIN read : i \in RatedPlaces <=> Counted(read[i].reviews) # {}
  BY ToldIs DEF RatedPlaces
<1>6. \A r, s : r \subseteq s /\ Counted(r) # {} => Counted(s) # {}
  BY DEF Counted
<1>7. RatedPlaces \in SUBSET DOMAIN listed
  BY <1>1 DEF RatedPlaces
<1> HIDE DEF A, B, S
<1>8. PlacesOf(A) \in SUBSET RatedPlaces
  <2> SUFFICES ASSUME NEW i \in DOMAIN listed, listed[i] \in A PROVE i \in RatedPlaces
    OBVIOUS
  <2>1. listed[i] \in S /\ began.file[listed[i]] \subseteq read[i].reviews
    BY <1>1 DEF Seen
  <2>2. Counted(began.file[listed[i]]) # {}
    BY <1>4, <2>1
  <2>3. Counted(read[i].reviews) # {}
    BY <1>6, <2>1, <2>2
  <2> QED BY <1>1, <1>5, <2>3
<1>9. RatedPlaces \in SUBSET PlacesOf(B)
  <2> SUFFICES ASSUME NEW i \in RatedPlaces PROVE i \in DOMAIN listed /\ listed[i] \in B
    OBVIOUS
  <2>1. i \in DOMAIN listed
    BY <1>7
  <2>2. listed[i] \in S /\ read[i].reviews \subseteq file[listed[i]]
    BY <1>1, <2>1 DEF Seen
  <2>3. Counted(read[i].reviews) # {}
    BY <1>1, <1>5, <2>1
  <2>4. Counted(file[listed[i]]) # {}
    BY <1>6, <2>2, <2>3
  <2> QED BY <1>4, <2>1, <2>2, <2>4
<1>10. Cardinality(PlacesOf(A)) = Cardinality(A) /\ Cardinality(PlacesOf(B)) = Cardinality(B)
  <2>1. Cardinality(PlacesOf(A)) = Cardinality(A)
    BY <1>1, <1>3, CountByPlace
  <2>2. Cardinality(PlacesOf(B)) = Cardinality(B)
    BY <1>1, <1>3, CountByPlace
  <2> QED BY <2>1, <2>2
<1>11. IsFiniteSet(RatedPlaces) /\ IsFiniteSet(PlacesOf(B))
  <2>1. PlacesOf(B) \in SUBSET DOMAIN listed
    OBVIOUS
  <2> HIDE DEF PlacesOf
  <2> QED BY <1>1, <1>7, <2>1, FS_Subset
<1> HIDE DEF PlacesOf
<1>12. /\ Cardinality(PlacesOf(A)) <= Cardinality(RatedPlaces)
       /\ Cardinality(RatedPlaces) <= Cardinality(PlacesOf(B))
  BY <1>8, <1>9, <1>11, FS_Subset
<1> QED BY <1>2, <1>10, <1>12 DEF A, B

InTierNow(t) == {g \in open : LET s == Compute(file[g], today, Model)
                              IN  s.rated /\ s.tier = t}

\* What is read while nothing changes is the store.
LEMMA StillIsNow ==
    ASSUME StatsGiven, still
    PROVE  /\ began.open = open /\ at = today /\ all = file
           /\ \A i \in DOMAIN read :
                  read[i].reviews = file[listed[i]] /\ read[i].day = today
<1>1. Reading /\ pc = "answered" /\ query.kind = "stats"
  BY AllAreRead DEF StatsGiven, Answered
<1>2. /\ at = today /\ began = [open |-> open, file |-> file, day |-> today]
      /\ \A i \in DOMAIN read :
             read[i] = [guest |-> listed[i], reviews |-> file[listed[i]], day |-> today]
      /\ all = file
  BY <1>1 DEF StatsGiven, PInv, CalmRead
<1> QED BY <1>2

LEMMA TiersNow ==
    ASSUME StatsGiven, still, NEW t \in TierNames
    PROVE  stat.tiers[t] = Cardinality(InTierNow(t))
<1> DEFINE N == InTierNow(t)
           PlacesOf(T) == {i \in DOMAIN listed : listed[i] \in T}
<1>1. /\ stat = Statistics /\ Placed(listed, open) /\ IsFiniteSet(open)
      /\ DOMAIN read = DOMAIN listed
      /\ \A i \in DOMAIN listed : listed[i] \in open
  BY AllAreRead, StillIsNow
<1>2. \A i \in DOMAIN read : Told[i].score = Compute(file[listed[i]], today, Model)
  BY ToldIs, StillIsNow
<1>3. PlacesIn(t) = PlacesOf(N)
  BY <1>1, <1>2 DEF PlacesIn, InTierNow
<1>4. N \in SUBSET open
  BY DEF InTierNow
<1>5. stat.tiers[t] = Cardinality(PlacesIn(t))
  BY <1>1, StatFields
<1> HIDE DEF N
<1>6. Cardinality(PlacesOf(N)) = Cardinality(N)
  BY <1>1, <1>4, CountByPlace
<1> QED BY <1>3, <1>5, <1>6 DEF N

LEMMA IncidentsNow ==
    ASSUME StatsGiven, still
    PROVE  stat.incidents = SumFunction([g \in open |-> IncidentCount(file[g])])
<1> DEFINE F == [g \in open |-> IncidentCount(file[g])]
           G == [i \in DOMAIN listed |-> Told[i].incidents]
<1>1. /\ stat = Statistics /\ Placed(listed, open) /\ IsFiniteSet(open)
      /\ DOMAIN read = DOMAIN listed /\ IsFiniteSet(DOMAIN listed)
      /\ open \in SUBSET Guests
      /\ \A i \in DOMAIN listed : listed[i] \in open
  BY AllAreRead, StillIsNow
<1>2. F \in [open -> Nat]
  <2>1. ASSUME NEW g \in open PROVE IncidentCount(file[g]) \in Nat
    <3>1. g \in Guests
      BY <1>1
    <3>2. file[g] \in SUBSET Records /\ IsFiniteSet(file[g])
      BY <3>1 DEF StatsGiven, IInv, StoreIsTyped
    <3> QED BY <3>2, IncidentsTyped
  <2> QED BY <2>1
<1>3. ASSUME NEW i \in DOMAIN listed
      PROVE  Told[i].incidents = F[listed[i]]
  BY <1>1, ToldIs, StillIsNow
<1>4. /\ G \in [DOMAIN listed -> Nat] /\ RatedPlaces \in SUBSET DOMAIN listed
      /\ \A i \in DOMAIN listed \ RatedPlaces : G[i] = 0
  <2>1. \A i \in DOMAIN listed : Told[i].incidents \in Nat
    BY <1>1, ToldIs
  <2>2. RatedPlaces \in SUBSET DOMAIN listed
    BY <1>1 DEF RatedPlaces
  <2>3. ASSUME NEW i \in DOMAIN listed \ RatedPlaces PROVE Told[i].incidents = 0
    BY <1>1, ToldIs DEF RatedPlaces
  <2> QED BY <2>1, <2>2, <2>3
<1>5. stat.incidents = SumFunction([i \in RatedPlaces |-> G[i]])
  <2>1. stat.incidents = SumFunction([i \in RatedPlaces |-> Told[i].incidents])
    BY <1>1, StatFields
  <2>2. [i \in RatedPlaces |-> Told[i].incidents] = [i \in RatedPlaces |-> G[i]]
    BY <1>4
  <2> QED BY <2>1, <2>2
<1>6. G = [i \in DOMAIN listed |-> F[listed[i]]]
  <2> HIDE DEF F
  <2> QED BY <1>3
<1> HIDE DEF F, G
<1>7. SumFunction([i \in RatedPlaces |-> G[i]]) = SumFunction(G)
  BY <1>1, <1>4, ZerosLeftOut
<1>8. SumFunction([i \in DOMAIN listed |-> F[listed[i]]]) = SumFunction(F)
  BY <1>1, <1>2, SumByPlace
<1> QED BY <1>5, <1>6, <1>7, <1>8 DEF F

\* Guests without a file have no reviews.
LEMMA OpenFilesOnly ==
    ASSUME StoreIsTyped, NEW F \in [Guests -> Nat],
           \A g \in Guests : file[g] = {} => F[g] = 0
    PROVE  SumFunction([g \in open |-> F[g]]) = SumFunction(F)
<1>1. /\ open \in SUBSET Guests /\ IsFiniteSet(Guests)
      /\ \A g \in Guests \ open : F[g] = 0
  BY DirectoryAssumption DEF StoreIsTyped
<1> QED BY <1>1, ZerosLeftOut

LEMMA ReviewsNow ==
    ASSUME StatsGiven, still
    PROVE  stat.reviews = SumFunction([g \in open |-> Cardinality(file[g])])
<1> DEFINE F == [g \in Guests |-> Cardinality(file[g])]
<1>1. StoreIsTyped /\ open \in SUBSET Guests
  BY DEF StatsGiven, IInv, StoreIsTyped
<1>2. F \in [Guests -> Nat] /\ \A g \in Guests : file[g] = {} => F[g] = 0
  <2>1. \A g \in Guests : IsFiniteSet(file[g])
    BY <1>1 DEF StoreIsTyped
  <2> QED BY <2>1, FS_CardinalityType, FS_EmptySet
<1>3. stat.reviews = SumFunction(F)
  BY AllAreRead, StillIsNow, StatFields
<1>4. [g \in open |-> F[g]] = [g \in open |-> Cardinality(file[g])]
  BY <1>1
<1> HIDE DEF F
<1>5. SumFunction([g \in open |-> F[g]]) = SumFunction(F)
  BY <1>1, <1>2, OpenFilesOnly
<1> QED BY <1>3, <1>4, <1>5

LEMMA TimelineNow ==
    ASSUME StatsGiven, DayOfMonth(at) <= 28, NEW i \in 1..12
    PROVE  /\ stat.timeline[i].month = MonthOf(at) - 12 + i
           /\ still => stat.timeline[i].count
                           = SumFunction([g \in open |-> Volume(file, g, MonthOf(at) - 12 + i)])
<1> DEFINE month == MonthOf(at) - 12 + i
           F == [g \in Guests |-> Volume(file, g, month)]
<1>1. stat.timeline = Timeline(at)
  BY AllAreRead, StatFields
<1>2. at \in Int
  <2>1. Reading
    BY AllAreRead
  <2>2. ReadingInv
    BY DEF StatsGiven, IInv
  <2>3. at \in Calendar
    BY <2>1, <2>2 DEF ReadingInv, Lived
  <2> QED BY <2>3, DirectoryAssumption
<1>3. /\ Timeline(at)[i].month = month
      /\ Timeline(at)[i].count = SumFunction([g \in Guests |-> Volume(all, g, month)])
  BY <1>2, TimelineMonths
<1> HIDE DEF month
<1>4. ASSUME still
      PROVE  stat.timeline[i].count = SumFunction([g \in open |-> Volume(file, g, month)])
  <2>1. stat.timeline[i].count = SumFunction(F)
    BY <1>1, <1>3, <1>4, StillIsNow
  <2>2. StoreIsTyped /\ open \in SUBSET Guests
    BY DEF StatsGiven, IInv, StoreIsTyped
  <2>3. ASSUME NEW g \in Guests
        PROVE  Volume(file, g, month) \in Nat
               /\ (file[g] = {} => Volume(file, g, month) = 0)
    <3> DEFINE written == {r \in file[g] : MonthOf(r.submittedAt) = month}
    <3>1. IsFiniteSet(file[g]) /\ written \in SUBSET file[g]
      BY <2>2 DEF StoreIsTyped
    <3>2. Volume(file, g, month) = Cardinality(written)
      BY DEF Volume
    <3>3. file[g] = {} => written = {}
      OBVIOUS
    <3> HIDE DEF written
    <3> QED BY <3>1, <3>2, <3>3, FS_Subset, FS_CardinalityType, FS_EmptySet
  <2>4. F \in [Guests -> Nat] /\ \A g \in Guests : file[g] = {} => F[g] = 0
    BY <2>3
  <2>5. [g \in open |-> F[g]] = [g \in open |-> Volume(file, g, month)]
    BY <2>2
  <2> HIDE DEF F
  <2>6. SumFunction([g \in open |-> F[g]]) = SumFunction(F)
    BY <2>2, <2>4, OpenFilesOnly
  <2> QED BY <2>1, <2>5, <2>6
<1> QED BY <1>1, <1>3, <1>4 DEF month

\* However the store changes meanwhile, every guest listed is counted once, in
\* one tier or as unrated, and files that change shift no more than they
\* changed; with nothing changing the figures are those of the store, and
\* through day 28 the timeline is that of the last twelve months
\* (handleStats).
THEOREM StatisticsAreRight ==
    ASSUME HalvingIsFraction
    PROVE  Spec => []StatsAreRight
<1>1. ASSUME IInv, PInv, StatsInv
      PROVE  StatsAreRight
  <2> DEFINE ratedAt(f, day) == {g \in began.open : Compute(f[g], day, Model).rated}
             tierNow(t) == {g \in open : LET s == Compute(file[g], today, Model)
                                         IN  s.rated /\ s.tier = t}
             month(i) == MonthOf(at) - 12 + i
             written(g, m) == Cardinality({r \in file[g] : MonthOf(r.submittedAt) = m})
  <2> SUFFICES ASSUME Answered({"stats"})
               PROVE  /\ stat.rated + stat.unrated = stat.guests
                      /\ stat.guests = Cardinality(began.open)
                      /\ SumFunction(stat.tiers) = stat.rated
                      /\ stat.flagged = stat.tiers["Poor"]
                      /\ stat.discounted = stat.tiers["Excellent"] + stat.tiers["Good"]
                      /\ stat.withIncidents <= stat.incidents
                      /\ Cardinality(ratedAt(began.file, began.day)) <= stat.rated
                      /\ stat.rated <= Cardinality(ratedAt(file, today))
                      /\ still =>
                             /\ \A t \in TierNames : stat.tiers[t] = Cardinality(tierNow(t))
                             /\ stat.incidents
                                    = SumFunction([g \in open |-> IncidentCount(file[g])])
                             /\ stat.reviews = SumFunction([g \in open |-> Cardinality(file[g])])
                      /\ DayOfMonth(at) <= 28 =>
                             \A i \in 1..12 :
                                 /\ stat.timeline[i].month = month(i)
                                 /\ still =>
                                        stat.timeline[i].count
                                            = SumFunction([g \in open |-> written(g, month(i))])
    BY Zenon DEF StatsAreRight
  <2>1. StatsGiven
    BY <1>1 DEF StatsGiven
  <2>2. /\ Cardinality(ratedAt(began.file, began.day)) <= stat.rated
        /\ stat.rated <= Cardinality(ratedAt(file, today))
    BY <2>1, RatedBetween, Zenon DEF RatedAt
  <2>3. still => \A t \in TierNames : stat.tiers[t] = Cardinality(tierNow(t))
    BY <2>1, TiersNow, Zenon DEF InTierNow
  <2>4. ASSUME DayOfMonth(at) <= 28, NEW i \in 1..12
        PROVE  /\ stat.timeline[i].month = month(i)
               /\ still => stat.timeline[i].count
                               = SumFunction([g \in open |-> written(g, month(i))])
    BY <2>1, <2>4, TimelineNow, Zenon DEF Volume
  <2> HIDE DEF ratedAt, tierNow, month, written
  <2> QED BY <2>1, <2>2, <2>3, <2>4, CountedOnce, IncidentsNow, ReviewsNow
<1>2. IInv /\ PInv /\ StatsInv => StatsAreRight
  BY <1>1
<1> QED BY <1>2, Invariance, PagesInvariance, StatsInvariance, PTL
=============================================================================
