--------------------------- MODULE ReadModelsProofs ---------------------------
(***************************************************************************)
(* The safety of ReadModels for any requests, guests and batches, proved   *)
(* from one inductive invariant.                                           *)
(***************************************************************************)
EXTENDS ReadModels, TLAPS

\* What a request is doing when it is at one of its calls, and about whom.
Shape(p) ==
    /\ pc[p] = "idle" =>
           /\ kind[p] = None /\ about[p] = {} /\ got[p] = Nothing
           /\ own[p] = None /\ after[p] = None
    /\ pc[p] \in {"get", "read", "set"} => kind[p] = "show"
    /\ pc[p] \in {"before", "store", "invalidate", "after"} => kind[p] = "review"
    /\ pc[p] = "create" => kind[p] = "open"
    /\ pc[p] \in {"reread", "put"} => kind[p] \in {"review", "open"}
    /\ pc[p] \in {"list", "scan", "bulk"} => kind[p] = "reindex"
    /\ kind[p] \in {"show", "review", "open"} => \E g \in Guests : about[p] = {g}
    /\ pc[p] \notin {"create", "list"} => about[p] \subseteq Opened
    /\ pc[p] = "list" => got[p] = Nothing /\ about[p] = Guests
    /\ pc[p] = "bulk" => \A g \in about[p] : got[p][g] # None

\* A review that is stored has a version, which the file has not fallen behind,
\* and the answer reports none below it.
Counts(p) ==
    /\ pc[p] \in {"invalidate", "after"} => own[p] # None
    /\ own[p] # None =>
           /\ pc[p] \in {"invalidate", "after", "reread", "put"}
           /\ \A g \in about[p] : own[p] <= file[g]
    /\ after[p] # None =>
           pc[p] \in {"reread", "put"} /\ own[p] # None /\ after[p] >= own[p]

\* Without doubt, a score on its way to the cache is the current one: no review
\* of the guest is under way.
FillsAreFresh(g) ==
    \A p \in Busy(g, {"show"}) :
        /\ Busy(g, {"review"}) = {}
        /\ pc[p] = "set" => got[p][g] = file[g]

\* Without doubt, an outdated score is about to be invalidated.
StaleIsInvalidated(g) ==
    cache[g] # None =>
        cache[g] = file[g] \/ \E p \in Busy(g, {"review"}) : pc[p] = "invalidate"

\* Unless index writers race, there is at most one, and what it has read for
\* the document is the current file.
WritersAreAlone(g) == \A p, q \in Busy(g, Indexers) : p = q

DocumentsAreFresh(g) ==
    \A p \in Busy(g, Indexers) :
        pc[p] = "put" \/ (pc[p] \in {"scan", "bulk"} /\ got[p][g] # None) =>
            got[p][g] = file[g]

\* A document that should be in step is, or is about to be written.
StaleIsIndexed(g) ==
    file[g] # None /\ indexState[g] = "inStep" =>
        \/ index[g] = file[g]
        \/ \E p \in Busy(g, Indexers) : pc[p] \in {"invalidate", "after", "reread", "put"}

CacheInv(g) == g \notin cacheDoubt => FillsAreFresh(g) /\ StaleIsInvalidated(g)
IndexInv(g) ==
    indexState[g] # "racing" =>
        WritersAreAlone(g) /\ DocumentsAreFresh(g) /\ StaleIsIndexed(g)

IInv ==
    /\ TypeOK
    /\ \A p \in Requests : Shape(p) /\ Counts(p)
    /\ \A g \in Guests : CacheInv(g) /\ IndexInv(g)
-----------------------------------------------------------------------------
(* One request moves at a time.                                             *)

RequestsOK ==
    /\ pc \in [Requests -> Pcs]
    /\ kind \in [Requests -> Kinds \cup {None}]
    /\ about \in [Requests -> SUBSET Guests]
    /\ got \in [Requests -> [Guests -> Known]]
    /\ own \in [Requests -> Known]
    /\ after \in [Requests -> Known]

StoresOK ==
    /\ file \in [Guests -> Known]
    /\ cache \in [Guests -> Known]
    /\ index \in [Guests -> Known]

HistoryOK ==
    /\ cacheDoubt \subseteq Guests
    /\ indexState \in [Guests -> {"inStep", "drifted", "racing"}]

LEMMA Types == TypeOK <=> StoresOK /\ RequestsOK /\ HistoryOK
BY DEF TypeOK, StoresOK, RequestsOK, HistoryOK

\* What the steps of one request leave alone.
Others(p) ==
    \A q \in Requests \ {p} :
        /\ pc'[q] = pc[q] /\ kind'[q] = kind[q] /\ about'[q] = about[q]
        /\ got'[q] = got[q] /\ own'[q] = own[q] /\ after'[q] = after[q]

LEMMA TheOnly ==
    ASSUME NEW p, NEW g, about[p] = {g}
    PROVE  The(p) = g
BY DEF The

LEMMA NothingKnown == Nothing \in [Guests -> Known]
BY DEF Nothing, Known

LEMMA NumbersKnown == \A v \in Known : v # None => v \in Nat
BY BoundAssumption DEF Known, Versions

LEMMA EndStep ==
    ASSUME RequestsOK, NEW p \in Requests, End(p)
    PROVE  /\ Others(p) /\ RequestsOK'
           /\ pc'[p] = "idle" /\ kind'[p] = None /\ about'[p] = {}
           /\ got'[p] = Nothing /\ own'[p] = None /\ after'[p] = None
           /\ Shape(p)' /\ Counts(p)'
<1>1. /\ Others(p)
      /\ pc'[p] = "idle" /\ kind'[p] = None /\ about'[p] = {}
      /\ got'[p] = Nothing /\ own'[p] = None /\ after'[p] = None
  BY DEF RequestsOK, Others, End, Goto
<1>2. None \in Known
  BY DEF Known
<1>3. pc' \in [Requests -> Pcs] /\ kind' \in [Requests -> Kinds \cup {None}]
  BY DEF RequestsOK, End, Goto, Pcs
<1>4. about' \in [Requests -> SUBSET Guests]
  BY DEF RequestsOK, End
<1>5. /\ got' \in [Requests -> [Guests -> Known]]
      /\ own' \in [Requests -> Known] /\ after' \in [Requests -> Known]
  BY <1>2, NothingKnown DEF RequestsOK, End
<1>6. Shape(p)' /\ Counts(p)'
  BY <1>1, NoneAssumption DEF Shape, Counts, Kinds, Nothing
<1> QED BY <1>1, <1>3, <1>4, <1>5, <1>6 DEF RequestsOK

\* A file is never closed and never loses a review.
FileGrows == \A g \in Guests : file[g] # None => file'[g] # None /\ file'[g] >= file[g]

LEMMA OthersKeep ==
    ASSUME NEW p, Others(p), FileGrows, RequestsOK, StoresOK, StoresOK',
           \A q \in Requests : Shape(q) /\ Counts(q)
    PROVE  \A q \in Requests \ {p} : Shape(q)' /\ Counts(q)'
<1> SUFFICES ASSUME NEW q \in Requests \ {p} PROVE Shape(q)' /\ Counts(q)'
  OBVIOUS
<1>1. /\ pc'[q] = pc[q] /\ kind'[q] = kind[q] /\ about'[q] = about[q]
      /\ got'[q] = got[q] /\ own'[q] = own[q] /\ after'[q] = after[q]
  BY DEF Others
<1>2. Opened \subseteq Opened'
  BY DEF FileGrows, Opened
<1>3. Shape(q)'
  BY <1>1, <1>2 DEF Shape, Nothing
<1>4. own[q] # None => \A g \in about[q] : own[q] <= file'[g]
  <2> SUFFICES ASSUME own[q] # None, NEW g \in about[q] PROVE own[q] <= file'[g]
    OBVIOUS
  <2>1. g \in Guests /\ own[q] <= file[g] /\ file[g] # None
    BY DEF RequestsOK, Counts, Shape, Opened
  <2>2. own[q] \in Nat /\ file[g] \in Nat /\ file'[g] \in Nat /\ file[g] <= file'[g]
    BY <2>1, NumbersKnown DEF FileGrows, RequestsOK, StoresOK
  <2> QED BY <2>1, <2>2
<1>5. Counts(q)'
  BY <1>1, <1>4 DEF Counts
<1> QED BY <1>3, <1>5

-----------------------------------------------------------------------------
(* What a step of p may do to a guest.                                      *)

\* The cached score is deleted or brought up to date, and p starts no request
\* that would leave it behind.
CacheKept(p, g) ==
    /\ g \notin cacheDoubt /\ file'[g] = file[g]
    /\ cache'[g] \in {None, cache[g], file[g]}
    /\ p \in Busy(g, {"show"})' =>
           p \in Busy(g, {"show"}) /\ (pc'[p] = "set" => got'[p][g] = file[g])
    /\ p \in Busy(g, {"review"})' => p \in Busy(g, {"review"})
    /\ p \in Busy(g, {"review"}) /\ pc[p] = "invalidate" =>
           cache'[g] \in {None, file[g]}

\* The document is left alone or brought up to date.
IndexKept(p, g) ==
    /\ indexState[g] # "racing" /\ file'[g] = file[g]
    /\ index'[g] = file[g] \/ (index'[g] = index[g] /\ indexState'[g] = indexState[g])
    /\ p \in Busy(g, Indexers)' =>
           /\ p \in Busy(g, Indexers)
           /\ pc'[p] = "put" \/ (pc'[p] \in {"scan", "bulk"} /\ got'[p][g] # None) =>
                  got'[p][g] = file[g]
    /\ p \in Busy(g, Indexers) /\ pc[p] \in {"invalidate", "after", "reread", "put"} =>
           \/ index'[g] = file[g]
           \/ p \in Busy(g, Indexers)' /\ pc'[p] \in {"invalidate", "after", "reread", "put"}

LEMMA OthersBusy ==
    ASSUME NEW p, Others(p), NEW g, NEW ks, NEW q, q # p
    PROVE  q \in Busy(g, ks)' <=> q \in Busy(g, ks)
BY DEF Others, Busy

LEMMA CacheIsKept ==
    ASSUME NEW p, Others(p), NEW g \in Guests, CacheInv(g), CacheKept(p, g)
    PROVE  CacheInv(g)'
<1>1. FillsAreFresh(g) /\ StaleIsInvalidated(g)
  BY DEF CacheInv, CacheKept
<1>2. \A q \in Requests \ {p} : pc'[q] = pc[q] /\ got'[q] = got[q]
  BY DEF Others
<1>3. /\ Busy(g, {"show"})' \subseteq Busy(g, {"show"})
      /\ Busy(g, {"review"})' \subseteq Busy(g, {"review"})
  BY OthersBusy DEF CacheKept
<1>4. FillsAreFresh(g)'
  <2> SUFFICES ASSUME NEW q \in Busy(g, {"show"})'
               PROVE  Busy(g, {"review"})' = {} /\ (pc'[q] = "set" => got'[q][g] = file'[g])
    BY DEF FillsAreFresh
  <2>1. q \in Busy(g, {"show"}) /\ q \in Requests
    BY <1>3 DEF Busy
  <2>2. Busy(g, {"review"})' = {}
    BY <1>1, <1>3, <2>1 DEF FillsAreFresh
  <2>3. pc'[q] = "set" => got'[q][g] = file'[g]
    BY <1>1, <1>2, <2>1 DEF FillsAreFresh, CacheKept
  <2> QED BY <2>2, <2>3
<1>5. StaleIsInvalidated(g)'
  <2>1. ASSUME NEW q \in Busy(g, {"review"}), pc[q] = "invalidate",
               cache'[g] \notin {None, file[g]}
        PROVE  q \in Busy(g, {"review"})' /\ pc'[q] = "invalidate"
    <3>1. q # p /\ q \in Requests
      BY <2>1 DEF CacheKept, Busy
    <3> QED BY <1>2, <2>1, <3>1, OthersBusy
  <2> QED BY <1>1, <2>1 DEF StaleIsInvalidated, CacheKept
<1> QED BY <1>4, <1>5 DEF CacheInv

LEMMA IndexIsKept ==
    ASSUME NEW p, Others(p), NEW g \in Guests, IndexInv(g), IndexKept(p, g)
    PROVE  IndexInv(g)'
<1>1. WritersAreAlone(g) /\ DocumentsAreFresh(g) /\ StaleIsIndexed(g)
  BY DEF IndexInv, IndexKept
<1>2. \A q \in Requests \ {p} : pc'[q] = pc[q] /\ got'[q] = got[q]
  BY DEF Others
<1>3. Busy(g, Indexers)' \subseteq Busy(g, Indexers)
  BY OthersBusy DEF IndexKept
<1>4. WritersAreAlone(g)'
  BY <1>1, <1>3 DEF WritersAreAlone
<1>5. DocumentsAreFresh(g)'
  <2> SUFFICES ASSUME NEW q \in Busy(g, Indexers)',
                      pc'[q] = "put" \/ (pc'[q] \in {"scan", "bulk"} /\ got'[q][g] # None)
               PROVE  got'[q][g] = file'[g]
    BY DEF DocumentsAreFresh
  <2>1. q \in Busy(g, Indexers) /\ q \in Requests
    BY <1>3 DEF Busy
  <2> QED BY <1>1, <1>2, <2>1 DEF DocumentsAreFresh, IndexKept
<1>6. StaleIsIndexed(g)'
  <2> DEFINE Owes == {"invalidate", "after", "reread", "put"}
  <2> SUFFICES ASSUME index'[g] # file[g], file[g] # None, indexState'[g] = "inStep"
               PROVE  \E q \in Busy(g, Indexers)' : pc'[q] \in Owes
    BY DEF StaleIsIndexed, IndexKept
  <2>1. PICK q \in Busy(g, Indexers) : pc[q] \in Owes
    BY <1>1 DEF StaleIsIndexed, IndexKept
  <2>2. CASE q = p
    BY <2>1, <2>2 DEF IndexKept
  <2>3. CASE q # p
    BY <1>2, <2>1, <2>3, OthersBusy DEF Busy
  <2> QED BY <2>2, <2>3
<1> QED BY <1>4, <1>5, <1>6 DEF IndexInv

\* The invariant after a step of p, guest by guest.
LEMMA StepInv ==
    ASSUME IInv, NEW p, Others(p), FileGrows, StoresOK', RequestsOK', HistoryOK',
           p \in Requests => Shape(p)' /\ Counts(p)',
           \A g \in Guests :
               /\ g \in cacheDoubt' \/ CacheKept(p, g) \/ CacheInv(g)'
               /\ indexState'[g] = "racing" \/ IndexKept(p, g) \/ IndexInv(g)'
    PROVE  IInv'
<1>1. StoresOK /\ RequestsOK
  BY Types DEF IInv
<1>2. \A q \in Requests : Shape(q)' /\ Counts(q)'
  BY <1>1, OthersKeep DEF IInv
<1>3. \A g \in Guests : CacheInv(g)'
  BY CacheIsKept DEF IInv, CacheInv
<1>4. \A g \in Guests : IndexInv(g)'
  BY IndexIsKept DEF IInv, IndexInv
<1>5. TypeOK'
  BY DEF TypeOK, StoresOK, RequestsOK, HistoryOK
<1> QED BY <1>2, <1>3, <1>4, <1>5 DEF IInv

\* A step that only reads, or ends a request that owes nothing.
Quiet(p) ==
    /\ UNCHANGED <<stores, history>> /\ Others(p)
    /\ \/ kind'[p] = None
       \/ kind'[p] = kind[p] /\ about'[p] \subseteq about[p]
    /\ pc[p] # "invalidate"
    /\ pc[p] \in {"after", "reread", "put"} =>
           pc'[p] \in {"reread", "put"} /\ kind'[p] = kind[p] /\ about'[p] = about[p]
    /\ pc'[p] \in {"set", "put"} => \A g \in about'[p] : got'[p][g] = file[g]
    /\ pc'[p] \in {"scan", "bulk"} => \A g \in about'[p] :
           \/ got'[p][g] \in {None, file[g]}
           \/ pc[p] \in {"scan", "bulk"} /\ got'[p][g] = got[p][g]

LEMMA QuietInv ==
    ASSUME IInv, NEW p \in Requests, Quiet(p), RequestsOK', Shape(p)', Counts(p)'
    PROVE  IInv'
<1>1. StoresOK /\ RequestsOK /\ HistoryOK
  BY Types DEF IInv
<1>2. /\ file' = file /\ cache' = cache /\ index' = index
      /\ cacheDoubt' = cacheDoubt /\ indexState' = indexState
  BY DEF Quiet, stores, history
<1>3. StoresOK' /\ HistoryOK'
  BY <1>1, <1>2 DEF StoresOK, HistoryOK
<1>4. FileGrows
  BY <1>1, <1>2, NumbersKnown DEF FileGrows, StoresOK
<1>5. ASSUME NEW g \in Guests, g \notin cacheDoubt PROVE CacheKept(p, g)
  BY <1>2, <1>5, NoneAssumption DEF CacheKept, Quiet, Busy, Kinds
<1>6. ASSUME NEW g \in Guests, indexState[g] # "racing" PROVE IndexKept(p, g)
  <2>1. DocumentsAreFresh(g)
    BY <1>6 DEF IInv, IndexInv
  <2>2. p \in Busy(g, Indexers)' => p \in Busy(g, Indexers)
    BY NoneAssumption DEF Quiet, Busy, Indexers, Kinds
  <2>3. p \in Busy(g, Indexers)'
            /\ (pc'[p] = "put" \/ (pc'[p] \in {"scan", "bulk"} /\ got'[p][g] # None))
            => got'[p][g] = file[g]
    BY <2>1, <2>2 DEF DocumentsAreFresh, Quiet, Busy
  <2>4. p \in Busy(g, Indexers) /\ pc[p] \in {"invalidate", "after", "reread", "put"} =>
            p \in Busy(g, Indexers)' /\ pc'[p] \in {"reread", "put"}
    BY DEF Quiet, Busy
  <2> QED BY <1>2, <1>6, <2>2, <2>3, <2>4 DEF IndexKept
<1> QED BY <1>1, <1>2, <1>3, <1>4, <1>5, <1>6, StepInv DEF Quiet

-----------------------------------------------------------------------------
(* The requests that read.                                                  *)

LEMMA OneGuest ==
    ASSUME IInv, NEW p \in Requests, kind[p] \in {"show", "review", "open"}
    PROVE  The(p) \in Guests /\ about[p] = {The(p)}
<1>1. PICK g \in Guests : about[p] = {g}
  BY DEF IInv, Shape
<1> QED BY <1>1, TheOnly

LEMMA ReadStep ==
    ASSUME IInv, NEW p \in Requests, NEW h \in Guests, Read(p, h)
    PROVE  /\ got' \in [Requests -> [Guests -> Known]]
           /\ \A q \in Requests \ {p} : got'[q] = got[q]
           /\ got'[p][h] = file[h]
           /\ \A g \in Guests \ {h} : got'[p][g] = got[p][g]
<1>1. RequestsOK /\ StoresOK
  BY Types DEF IInv
<1>2. got[p] \in [Guests -> Known] /\ file[h] \in Known
  BY <1>1 DEF RequestsOK, StoresOK
<1>3. [got[p] EXCEPT ![h] = file[h]] \in [Guests -> Known]
  BY <1>2
<1>4. got' = [got EXCEPT ![p] = [got[p] EXCEPT ![h] = file[h]]]
  BY DEF Read
<1> QED BY <1>1, <1>2, <1>3, <1>4 DEF RequestsOK

LEMMA Request ==
    ASSUME IInv, NEW p \in Requests
    PROVE  RequestsOK /\ Shape(p) /\ Counts(p) /\ kind[p] \in Kinds \cup {None}
BY Types DEF IInv, RequestsOK

\* A request ends without owing the cache or the index anything.
LEMMA EndQuietly ==
    ASSUME IInv, NEW p \in Requests, End(p), UNCHANGED <<stores, history>>,
           pc[p] \notin {"invalidate", "after", "reread", "put"}
    PROVE  IInv'
<1>1. RequestsOK
  BY Request
<1>2. Quiet(p)
  BY <1>1, EndStep DEF Quiet
<1> QED BY <1>1, <1>2, EndStep, QuietInv

LEMMA GetInv ==
    ASSUME IInv, NEW p \in Requests, Get(p)
    PROVE  IInv'
<1>1. CASE End(p)
  BY <1>1, EndQuietly DEF Get
<1>2. CASE Goto(p, "read") /\ UNCHANGED <<kind, about, got, own, after>>
  <2>1. RequestsOK /\ Shape(p) /\ Counts(p)
    BY Request
  <2>2. /\ Others(p) /\ RequestsOK'
        /\ pc'[p] = "read" /\ kind'[p] = kind[p] /\ about'[p] = about[p]
        /\ own'[p] = own[p] /\ after'[p] = after[p]
    BY <1>2, <2>1 DEF Goto, Others, RequestsOK, Pcs
  <2>3. Shape(p)' /\ Counts(p)'
    BY <2>1, <2>2 DEF Get, Shape, Counts, stores, Opened
  <2>4. Quiet(p)
    BY <2>2 DEF Get, Quiet
  <2> QED BY <2>2, <2>3, <2>4, QuietInv
<1> QED BY <1>1, <1>2 DEF Get

LEMMA ReadReviewsInv ==
    ASSUME IInv, NEW p \in Requests, ReadReviews(p)
    PROVE  IInv'
<1>1. RequestsOK /\ Shape(p) /\ Counts(p)
  BY Request
<1>2. The(p) \in Guests /\ about[p] = {The(p)}
  BY <1>1, OneGuest DEF ReadReviews, Shape
<1>3. RequestsOK'
  BY <1>1, <1>2, ReadStep DEF ReadReviews, Goto, RequestsOK, Pcs
<1>4. /\ Others(p)
      /\ pc'[p] = "set" /\ kind'[p] = kind[p] /\ about'[p] = about[p]
      /\ own'[p] = own[p] /\ after'[p] = after[p]
      /\ got'[p][The(p)] = file[The(p)]
  BY <1>1, <1>2, ReadStep DEF ReadReviews, Goto, Others, RequestsOK
<1>5. Shape(p)' /\ Counts(p)'
  BY <1>1, <1>4 DEF ReadReviews, Shape, Counts, stores, Opened
<1>6. Quiet(p)
  BY <1>2, <1>4 DEF ReadReviews, Quiet
<1> QED BY <1>3, <1>4, <1>5, <1>6, QuietInv

LEMMA ReadBeforeInv ==
    ASSUME IInv, NEW p \in Requests, ReadBefore(p)
    PROVE  IInv'
<1>1. RequestsOK /\ Shape(p) /\ Counts(p)
  BY Request
<1>2. The(p) \in Guests /\ about[p] = {The(p)}
  BY <1>1, OneGuest DEF ReadBefore, Shape
<1>3. RequestsOK'
  BY <1>1, <1>2, ReadStep DEF ReadBefore, Goto, RequestsOK, Pcs
<1>4. /\ Others(p)
      /\ pc'[p] = "store" /\ kind'[p] = kind[p] /\ about'[p] = about[p]
      /\ own'[p] = own[p] /\ after'[p] = after[p]
      /\ got'[p][The(p)] = file[The(p)]
  BY <1>1, <1>2, ReadStep DEF ReadBefore, Goto, Others, RequestsOK
<1>5. Shape(p)' /\ Counts(p)'
  BY <1>1, <1>4 DEF ReadBefore, Shape, Counts, stores, Opened
<1>6. Quiet(p)
  BY <1>2, <1>4 DEF ReadBefore, Quiet
<1> QED BY <1>3, <1>4, <1>5, <1>6, QuietInv

LEMMA RereadInv ==
    ASSUME IInv, NEW p \in Requests, Reread(p)
    PROVE  IInv'
<1>1. RequestsOK /\ Shape(p) /\ Counts(p)
  BY Request
<1>2. The(p) \in Guests /\ about[p] = {The(p)}
  BY <1>1, OneGuest DEF Reread, Shape
<1>3. RequestsOK'
  BY <1>1, <1>2, ReadStep DEF Reread, Goto, RequestsOK, Pcs
<1>4. /\ Others(p)
      /\ pc'[p] = "put" /\ kind'[p] = kind[p] /\ about'[p] = about[p]
      /\ own'[p] = own[p] /\ after'[p] = after[p]
      /\ got'[p][The(p)] = file[The(p)]
  BY <1>1, <1>2, ReadStep DEF Reread, Goto, Others, RequestsOK
<1>5. Shape(p)' /\ Counts(p)'
  BY <1>1, <1>4 DEF Reread, Shape, Counts, stores, Opened
<1>6. Quiet(p)
  BY <1>2, <1>4 DEF Reread, Quiet
<1> QED BY <1>3, <1>4, <1>5, <1>6, QuietInv

LEMMA ReadAfterInv ==
    ASSUME IInv, NEW p \in Requests, ReadAfter(p)
    PROVE  IInv'
<1>1. RequestsOK /\ Shape(p) /\ Counts(p)
  BY Request
<1>2. The(p) \in Guests /\ about[p] = {The(p)}
  BY <1>1, OneGuest DEF ReadAfter, Shape
<1>3. file[The(p)] \in Known
  BY <1>2, Types DEF IInv, StoresOK
<1>4. RequestsOK'
  BY <1>1, <1>3 DEF ReadAfter, Goto, RequestsOK, Pcs
<1>5. /\ Others(p)
      /\ pc'[p] = "reread" /\ kind'[p] = kind[p] /\ about'[p] = about[p]
      /\ own'[p] = own[p] /\ after'[p] = file[The(p)]
  BY <1>1, <1>3 DEF ReadAfter, Goto, Others, RequestsOK
<1>6. Shape(p)'
  BY <1>1, <1>5 DEF ReadAfter, Shape, stores, Opened
<1>7. Counts(p)'
  <2>1. own[p] # None /\ own[p] <= file[The(p)]
    BY <1>1, <1>2 DEF ReadAfter, Counts
  <2>2. own[p] \in Nat /\ file[The(p)] \in Nat
    BY <1>1, <1>2, <1>3, <2>1, NumbersKnown DEF ReadAfter, Shape, Opened, RequestsOK
  <2> QED BY <1>1, <1>2, <1>5, <2>1, <2>2 DEF ReadAfter, Counts, stores
<1>8. Quiet(p)
  BY <1>5 DEF ReadAfter, Quiet
<1> QED BY <1>4, <1>5, <1>6, <1>7, <1>8, QuietInv

LEMMA ListGuestsInv ==
    ASSUME IInv, NEW p \in Requests, ListGuests(p)
    PROVE  IInv'
<1>1. RequestsOK /\ Shape(p) /\ Counts(p)
  BY Request
<1>2. /\ Others(p)
      /\ pc'[p] = "scan" /\ kind'[p] = kind[p] /\ about'[p] = Opened
      /\ got' = got /\ own'[p] = own[p] /\ after'[p] = after[p]
  BY <1>1 DEF ListGuests, Goto, Others, RequestsOK
<1>3. RequestsOK'
  BY <1>1 DEF ListGuests, Goto, RequestsOK, Pcs, Opened
<1>4. about'[p] = Opened' /\ Opened \subseteq about[p] /\ got[p] = Nothing
  BY <1>1, <1>2 DEF ListGuests, Shape, stores, Opened
<1>5. kind[p] = "reindex" /\ own[p] = None /\ after[p] = None
  BY <1>1 DEF ListGuests, Shape, Counts
<1>6. Shape(p)' /\ Counts(p)'
  BY <1>2, <1>4, <1>5 DEF Shape, Counts
<1>7. Quiet(p)
  BY <1>2, <1>4 DEF ListGuests, Quiet, Nothing, Opened
<1> QED BY <1>2, <1>3, <1>6, <1>7, QuietInv

LEMMA ScanInv ==
    ASSUME IInv, NEW p \in Requests, NEW h \in Guests, Scan(p, h)
    PROVE  IInv'
<1>1. RequestsOK /\ Shape(p) /\ Counts(p)
  BY Request
<1>2. RequestsOK'
  BY <1>1, ReadStep DEF Scan, RequestsOK
<1>3. /\ Others(p)
      /\ pc'[p] = "scan" /\ kind'[p] = kind[p] /\ about'[p] = about[p]
      /\ own'[p] = own[p] /\ after'[p] = after[p]
  BY <1>1, ReadStep DEF Scan, Others
<1>4. \A g \in Guests : got'[p][g] = file[g] \/ got'[p][g] = got[p][g]
  BY ReadStep DEF Scan
<1>5. Shape(p)' /\ Counts(p)'
  BY <1>1, <1>3 DEF Scan, Shape, Counts, stores, Opened
<1>6. Quiet(p)
  BY <1>1, <1>3, <1>4 DEF Scan, Quiet, RequestsOK
<1> QED BY <1>2, <1>3, <1>5, <1>6, QuietInv

LEMMA ScanEndsInv ==
    ASSUME IInv, NEW p \in Requests, ScanEnds(p)
    PROVE  IInv'
<1>1. RequestsOK /\ Shape(p) /\ Counts(p)
  BY Request
<1>2. /\ Others(p) /\ RequestsOK'
      /\ pc'[p] = "bulk" /\ kind'[p] = kind[p] /\ about'[p] = about[p]
      /\ got' = got /\ own'[p] = own[p] /\ after'[p] = after[p]
  BY <1>1 DEF ScanEnds, Goto, Others, RequestsOK, Pcs
<1>3. \A g \in about[p] : got[p][g] # None
  BY DEF ScanEnds, Scanned
<1>4. Shape(p)' /\ Counts(p)'
  BY <1>1, <1>2, <1>3 DEF ScanEnds, Shape, Counts, stores, Opened
<1>5. Quiet(p)
  BY <1>2 DEF ScanEnds, Quiet
<1> QED BY <1>2, <1>4, <1>5, QuietInv

-----------------------------------------------------------------------------
(* The requests that end: nothing they were doing is owed any more.         *)

LEMMA StoresKeep ==
    ASSUME IInv, UNCHANGED file
    PROVE  StoresOK /\ HistoryOK /\ FileGrows
BY Types, NumbersKnown DEF IInv, StoresOK, FileGrows

LEMMA Ended ==
    ASSUME IInv, NEW p \in Requests, End(p)
    PROVE  \A g, ks : p \notin Busy(g, ks)'
BY Request, EndStep DEF Busy

LEMMA DropInv ==
    ASSUME IInv, NEW p \in Requests, Drop(p)
    PROVE  IInv'
<1> DEFINE Owes == {"invalidate", "after", "reread", "put"}
<1>1. CASE pc[p] \notin Owes
  BY <1>1, EndQuietly DEF Drop, history
<1>2. CASE pc[p] \in Owes
  <2>1. RequestsOK /\ StoresOK /\ HistoryOK /\ FileGrows
    BY Request, StoresKeep DEF Drop, stores
  <2>2. Others(p) /\ RequestsOK' /\ Shape(p)' /\ Counts(p)'
    BY <2>1, EndStep DEF Drop
  <2>3. /\ file' = file /\ cache' = cache /\ index' = index
        /\ indexState' = Racing(about[p]) /\ about[p] \subseteq Guests
    BY <1>2, <2>1 DEF Drop, stores, RequestsOK
  <2>4. StoresOK' /\ HistoryOK'
    BY <2>1, <2>3 DEF Drop, StoresOK, HistoryOK, Racing
  <2>5. ASSUME NEW g \in Guests
        PROVE  g \in cacheDoubt' \/ CacheKept(p, g)
    <3>1. CASE g \in cacheDoubt \/ (pc[p] = "invalidate" /\ g \in about[p])
      BY <3>1 DEF Drop
    <3>2. CASE g \notin cacheDoubt /\ ~(pc[p] = "invalidate" /\ g \in about[p])
      BY <2>3, <3>2, Ended DEF Drop, CacheKept, Busy
    <3> QED BY <3>1, <3>2
  <2>6. ASSUME NEW g \in Guests
        PROVE  indexState'[g] = "racing" \/ IndexKept(p, g)
    <3>1. CASE g \in about[p]
      BY <2>3, <3>1 DEF Racing
    <3>2. CASE g \notin about[p]
      BY <2>3, <3>2, Ended DEF Drop, IndexKept, Busy, Racing
    <3> QED BY <3>1, <3>2
  <2> QED BY <2>1, <2>2, <2>4, <2>5, <2>6, StepInv
<1> QED BY <1>1, <1>2

LEMMA SetInv ==
    ASSUME IInv, NEW p \in Requests, Set(p)
    PROVE  IInv'
<1>1. RequestsOK /\ StoresOK /\ HistoryOK /\ FileGrows /\ Shape(p)
  BY Request, StoresKeep DEF Set
<1>2. Others(p) /\ RequestsOK' /\ Shape(p)' /\ Counts(p)'
  BY <1>1, EndStep DEF Set
<1>3. The(p) \in Guests /\ about[p] = {The(p)} /\ kind[p] = "show"
  BY <1>1, OneGuest DEF Set, Shape
<1>4. /\ file' = file /\ index' = index
      /\ cacheDoubt' = cacheDoubt /\ indexState' = indexState
      /\ \A g \in Guests \ {The(p)} : cache'[g] = cache[g]
      /\ cache'[The(p)] \in {cache[The(p)], got[p][The(p)]}
  BY <1>1, <1>3 DEF Set, SetKey, history, StoresOK
<1>5. StoresOK' /\ HistoryOK'
  <2>1. got[p][The(p)] \in Known
    BY <1>1, <1>3 DEF RequestsOK
  <2> QED BY <1>1, <1>3, <1>4, <2>1 DEF Set, SetKey, StoresOK, HistoryOK
<1>6. ASSUME NEW g \in Guests, g \notin cacheDoubt
      PROVE  CacheKept(p, g)
  <2>1. g = The(p) => got[p][g] = file[g]
    BY <1>3, <1>6 DEF IInv, CacheInv, FillsAreFresh, Busy, Set
  <2>2. cache'[g] \in {cache[g], file[g]}
    BY <1>4, <2>1
  <2> QED BY <1>4, <1>6, <2>2, Ended DEF Set, CacheKept
<1>7. ASSUME NEW g \in Guests, indexState[g] # "racing"
      PROVE  IndexKept(p, g)
  BY <1>3, <1>4, <1>7, Ended DEF Set, IndexKept, Busy, Indexers
<1> QED BY <1>1, <1>2, <1>4, <1>5, <1>6, <1>7, StepInv

-----------------------------------------------------------------------------
(* A request that begins.                                                   *)

LEMMA BeginInv ==
    ASSUME IInv, NEW p \in Requests, NEW k \in Kinds, NEW gs \in SUBSET Guests,
           NEW l \in Pcs, Begin(p, k, gs, l),
           \/ k = "show" /\ l = "get"
           \/ k = "review" /\ l = "before"
           \/ k = "open" /\ l = "create"
           \/ k = "reindex" /\ l = "list" /\ gs = Guests,
           l # "list" => \E g \in Guests : gs = {g},
           l \notin {"create", "list"} => gs \subseteq Opened
    PROVE  IInv'
<1>1. RequestsOK /\ Shape(p) /\ Counts(p)
  BY Request
<1>2. file' = file /\ cache' = cache /\ index' = index
  BY DEF Begin, stores
<1>3. StoresOK /\ HistoryOK /\ FileGrows
  BY <1>2, StoresKeep
<1>4. /\ Others(p) /\ RequestsOK'
      /\ pc'[p] = l /\ kind'[p] = k /\ about'[p] = gs
      /\ got'[p] = Nothing /\ own'[p] = None /\ after'[p] = None
  BY <1>1 DEF Begin, Goto, Others, RequestsOK, Shape
<1>5. StoresOK' /\ HistoryOK'
  BY <1>2, <1>3 DEF Begin, StoresOK, HistoryOK
<1>6. Shape(p)' /\ Counts(p)'
  <2>1. Opened' = Opened
    BY <1>2 DEF Opened
  <2> QED BY <1>4, <2>1, NoneAssumption DEF Shape, Counts, Kinds, Nothing
<1>7. \A g, ks : p \notin Busy(g, ks)
  BY <1>1 DEF Begin, Shape, Busy
<1>8. ASSUME NEW g \in Guests, g \notin cacheDoubt'
      PROVE  CacheKept(p, g) \/ CacheInv(g)'
  <2>1. g \notin cacheDoubt
    BY <1>8 DEF Begin
  <2>2. FillsAreFresh(g) /\ StaleIsInvalidated(g)
    BY <2>1 DEF IInv, CacheInv
  <2>3. CASE g \notin gs \/ k \notin {"show", "review"}
    BY <1>2, <1>4, <1>7, <2>1, <2>3 DEF CacheKept, Busy
  <2>4. CASE g \in gs /\ k = "show"
    <3>1. Busy(g, {"review"}) = {} /\ cache[g] \in {None, file[g]}
      BY <1>8, <2>2, <2>4 DEF Begin, StaleIsInvalidated
    <3>2. Busy(g, {"review"})' = {}
      BY <1>4, <2>4, <3>1 DEF Busy, Others
    <3>3. ASSUME NEW q \in Busy(g, {"show"})'
          PROVE  pc'[q] = "set" => got'[q][g] = file[g]
      <4>1. CASE q = p
        BY <1>4, <2>4, <4>1
      <4>2. CASE q # p
        <5>1. q \in Busy(g, {"show"}) /\ q \in Requests
          BY <1>4, <4>2 DEF Busy, Others
        <5> QED BY <1>4, <2>2, <4>2, <5>1 DEF FillsAreFresh, Others
      <4> QED BY <4>1, <4>2
    <3>4. FillsAreFresh(g)'
      BY <1>2, <3>2, <3>3 DEF FillsAreFresh
    <3> QED BY <1>2, <3>1, <3>4 DEF CacheInv, StaleIsInvalidated
  <2>5. CASE g \in gs /\ k = "review"
    <3>1. Busy(g, {"show"})' = {}
      BY <1>4, <1>8, <2>5, OthersBusy DEF Begin, Busy
    <3>2. ASSUME NEW q \in Busy(g, {"review"})
          PROVE  q \in Busy(g, {"review"})' /\ pc'[q] = pc[q]
      <4>1. q # p /\ q \in Requests
        BY <1>7 DEF Busy
      <4> QED BY <1>4, <4>1, OthersBusy DEF Others
    <3> QED BY <1>2, <2>2, <3>1, <3>2 DEF CacheInv, FillsAreFresh, StaleIsInvalidated
  <2> QED BY <2>3, <2>4, <2>5
<1>9. ASSUME NEW g \in Guests, indexState'[g] # "racing"
      PROVE  IndexKept(p, g) \/ IndexInv(g)'
  <2>1. CASE g \notin gs \/ k = "show"
    <3>1. indexState'[g] = indexState[g]
      BY <1>3, <2>1 DEF Begin, HistoryOK
    <3> QED BY <1>2, <1>4, <1>7, <1>9, <2>1, <3>1 DEF IndexKept, Busy, Indexers
  <2>2. CASE g \in gs /\ k # "show"
    <3>1. /\ Busy(g, Indexers) = {}
          /\ indexState'[g] = "inStep" => indexState[g] = "inStep"
      BY <1>9, <2>2 DEF Begin
    <3>2. Busy(g, Indexers)' \subseteq {p}
      BY <1>4, <3>1, OthersBusy
    <3>3. WritersAreAlone(g)' /\ DocumentsAreFresh(g)'
      BY <1>4, <3>2 DEF WritersAreAlone, DocumentsAreFresh
    <3>4. StaleIsIndexed(g)'
      BY <1>2, <3>1 DEF IInv, IndexInv, StaleIsIndexed
    <3> QED BY <3>3, <3>4 DEF IndexInv
  <2> QED BY <2>1, <2>2
<1> QED BY <1>3, <1>4, <1>5, <1>6, <1>8, <1>9, StepInv

LEMMA ArriveInv ==
    ASSUME IInv, NEW p \in Requests, Arrive(p)
    PROVE  IInv'
<1>1. {"show", "review", "open", "reindex"} = Kinds
      /\ {"get", "before", "create", "list"} \subseteq Pcs
  BY DEF Kinds, Pcs
<1>2. ASSUME NEW g \in Guests, BeginShow(p, g) PROVE IInv'
  <2>1. {g} \in SUBSET Guests /\ {g} \subseteq Opened
    BY <1>2 DEF BeginShow
  <2> QED BY <1>1, <1>2, <2>1, BeginInv DEF BeginShow
<1>3. ASSUME NEW g \in Guests, BeginReview(p, g) PROVE IInv'
  <2>1. {g} \in SUBSET Guests /\ {g} \subseteq Opened
    BY <1>3 DEF BeginReview
  <2> QED BY <1>1, <1>3, <2>1, BeginInv DEF BeginReview
<1>4. ASSUME NEW g \in Guests, BeginOpen(p, g) PROVE IInv'
  <2>1. {g} \in SUBSET Guests
    OBVIOUS
  <2> QED BY <1>1, <1>4, <2>1, BeginInv DEF BeginOpen
<1>5. ASSUME BeginReindex(p) PROVE IInv'
  BY <1>1, <1>5, BeginInv DEF BeginReindex
<1> QED BY <1>2, <1>3, <1>4, <1>5 DEF Arrive

-----------------------------------------------------------------------------
(* Writes to the store.                                                     *)

LEMMA OneMore ==
    ASSUME IInv, NEW h \in Guests, h \in Opened, file[h] < MaxReviews[h],
           file' = [file EXCEPT ![h] = @ + 1], UNCHANGED <<cache, index>>
    PROVE  /\ StoresOK' /\ FileGrows
           /\ file[h] \in Nat /\ file'[h] = file[h] + 1 /\ file'[h] \in Known
           /\ \A g \in Guests \ {h} : file'[g] = file[g]
           /\ cache' = cache /\ index' = index
<1>1. StoresOK /\ HistoryOK
  BY Types DEF IInv
<1>2. file[h] \in Nat /\ MaxReviews[h] \in Nat
  BY <1>1, NumbersKnown, BoundAssumption DEF StoresOK, Opened
<1>3. file[h] + 1 \in 0..MaxReviews[h]
  BY <1>2
<1>4. file[h] + 1 \in Known
  BY <1>3 DEF Known, Versions
<1>5. file'[h] = file[h] + 1 /\ \A g \in Guests \ {h} : file'[g] = file[g]
  BY <1>1 DEF StoresOK
<1>6. StoresOK'
  BY <1>1, <1>4 DEF StoresOK
<1>7. FileGrows
  <2> SUFFICES ASSUME NEW g \in Guests, file[g] # None
               PROVE  file'[g] # None /\ file'[g] >= file[g]
    BY DEF FileGrows
  <2>1. file[g] \in Nat
    BY <1>1, NumbersKnown DEF StoresOK
  <2>2. file'[g] \in {file[g], file[g] + 1}
    BY <1>5
  <2> QED BY <2>1, <2>2, NoneAssumption
<1> QED BY <1>2, <1>4, <1>5, <1>6, <1>7

LEMMA Opens ==
    ASSUME IInv, NEW h \in Guests, h \notin Opened,
           file' = [file EXCEPT ![h] = 0], UNCHANGED <<cache, index>>
    PROVE  /\ StoresOK' /\ FileGrows
           /\ file[h] = None /\ file'[h] = 0
           /\ \A g \in Guests \ {h} : file'[g] = file[g]
           /\ cache' = cache /\ index' = index
<1>1. StoresOK
  BY Types DEF IInv
<1>2. 0 \in 0..MaxReviews[h]
  BY BoundAssumption
<1>3. 0 \in Known
  BY <1>2 DEF Known, Versions
<1>4. /\ file[h] = None /\ file'[h] = 0
      /\ \A g \in Guests \ {h} : file'[g] = file[g]
  BY <1>1 DEF StoresOK, Opened
<1>5. StoresOK'
  BY <1>1, <1>3 DEF StoresOK
<1>6. FileGrows
  <2> SUFFICES ASSUME NEW g \in Guests, file[g] # None
               PROVE  file'[g] # None /\ file'[g] >= file[g]
    BY DEF FileGrows
  <2>1. file[g] \in Nat /\ file'[g] = file[g]
    BY <1>1, <1>4, NumbersKnown DEF StoresOK
  <2> QED BY <2>1
<1> QED BY <1>4, <1>5, <1>6

\* A guest that has no file has no cached score, and nobody is at it but the
\* requests that open it and the reindex that has not listed the guests yet.
LEMMA Unopened ==
    ASSUME IInv, NEW g \in Guests \ Opened
    PROVE  /\ Busy(g, {"show"}) = {} /\ Busy(g, {"review"}) = {}
           /\ g \notin cacheDoubt => cache[g] = None
<1>1. ASSUME NEW q \in Requests, g \in about[q], kind[q] \in {"show", "review"}
      PROVE  FALSE
  <2>1. Shape(q)
    BY Request
  <2>2. pc[q] \in {"create", "list"}
    BY <1>1, <2>1 DEF Shape
  <2> QED BY <1>1, <2>1, <2>2 DEF Shape
<1>2. Busy(g, {"show"}) = {} /\ Busy(g, {"review"}) = {}
  BY <1>1 DEF Busy
<1>3. g \notin cacheDoubt => cache[g] = None
  BY <1>2 DEF IInv, CacheInv, StaleIsInvalidated, Opened
<1> QED BY <1>2, <1>3

LEMMA CreateReviewInv ==
    ASSUME IInv, NEW p \in Requests, CreateReview(p)
    PROVE  IInv'
<1> DEFINE h == The(p)
<1>1. RequestsOK /\ Shape(p) /\ Counts(p) /\ HistoryOK
  BY Request, Types DEF IInv
<1>2. h \in Guests /\ about[p] = {h} /\ h \in Opened /\ kind[p] = "review"
  BY <1>1, OneGuest DEF CreateReview, Shape
<1>3. /\ StoresOK' /\ FileGrows
      /\ file[h] \in Nat /\ file'[h] = file[h] + 1 /\ file'[h] \in Known
      /\ \A g \in Guests \ {h} : file'[g] = file[g]
      /\ cache' = cache /\ index' = index
  BY <1>2, OneMore DEF CreateReview
<1>4. /\ Others(p)
      /\ pc'[p] = "invalidate" /\ kind'[p] = kind[p] /\ about'[p] = about[p]
      /\ got'[p] = got[p] /\ own'[p] = file'[h] /\ after'[p] = after[p]
  BY <1>1, <1>2 DEF CreateReview, Goto, Others, RequestsOK
<1>5. RequestsOK'
  BY <1>1, <1>3 DEF CreateReview, Goto, RequestsOK, Pcs
<1>6. HistoryOK' /\ cacheDoubt' = cacheDoubt /\ indexState' = indexState
  BY <1>1 DEF CreateReview, HistoryOK, history
<1>7. Shape(p)' /\ Counts(p)'
  <2>1. Opened \subseteq Opened'
    BY <1>3 DEF FileGrows, Opened
  <2>2. file'[h] # None /\ file'[h] <= file'[h]
    BY <1>3, NoneAssumption
  <2> QED BY <1>1, <1>2, <1>4, <2>1, <2>2 DEF CreateReview, Shape, Counts
<1>8. ASSUME NEW g \in Guests, g \notin cacheDoubt
      PROVE  CacheKept(p, g) \/ CacheInv(g)'
  <2>1. CASE g # h
    BY <1>2, <1>3, <1>4, <1>8, <2>1 DEF CreateReview, CacheKept, Busy
  <2>2. CASE g = h
    <3>1. p \in Busy(g, {"review"}) /\ p \in Busy(g, {"review"})'
      BY <1>2, <1>4, <2>2 DEF Busy
    <3>2. Busy(g, {"show"}) = {}
      BY <1>8, <3>1 DEF IInv, CacheInv, FillsAreFresh
    <3>3. Busy(g, {"show"})' = {}
      BY <1>2, <1>4, <3>2 DEF Busy, Others
    <3> QED BY <1>4, <3>1, <3>3 DEF CacheInv, FillsAreFresh, StaleIsInvalidated
  <2> QED BY <2>1, <2>2
<1>9. ASSUME NEW g \in Guests, indexState[g] # "racing"
      PROVE  IndexKept(p, g) \/ IndexInv(g)'
  <2>1. CASE g # h
    BY <1>2, <1>3, <1>4, <1>6, <1>9, <2>1 DEF CreateReview, IndexKept, Busy
  <2>2. CASE g = h
    <3>1. p \in Busy(g, Indexers) /\ p \in Busy(g, Indexers)'
      BY <1>2, <1>4, <2>2 DEF Busy, Indexers
    <3>2. \A q \in Busy(g, Indexers) : q = p
      BY <1>9, <3>1 DEF IInv, IndexInv, WritersAreAlone
    <3>3. \A q \in Busy(g, Indexers)' : q = p
      BY <1>4, <3>2, OthersBusy
    <3> QED BY <1>4, <3>1, <3>3
            DEF IndexInv, WritersAreAlone, DocumentsAreFresh, StaleIsIndexed
  <2> QED BY <2>1, <2>2
<1> QED BY <1>3, <1>4, <1>5, <1>6, <1>7, <1>8, <1>9, StepInv

LEMMA CreateReviewUnheardInv ==
    ASSUME IInv, NEW p \in Requests, CreateReviewUnheard(p)
    PROVE  IInv'
<1> DEFINE h == The(p)
<1>1. RequestsOK /\ Shape(p) /\ HistoryOK
  BY Request, Types DEF IInv
<1>2. h \in Guests /\ about[p] = {h} /\ h \in Opened
  BY <1>1, OneGuest DEF CreateReviewUnheard, Shape
<1>3. /\ StoresOK' /\ FileGrows
      /\ \A g \in Guests \ {h} : file'[g] = file[g]
      /\ cache' = cache /\ index' = index
  BY <1>2, OneMore DEF CreateReviewUnheard
<1>4. Others(p) /\ RequestsOK' /\ Shape(p)' /\ Counts(p)'
  BY <1>1, EndStep DEF CreateReviewUnheard
<1>5. HistoryOK'
  BY <1>1, <1>2 DEF CreateReviewUnheard, HistoryOK, Racing
<1>6. ASSUME NEW g \in Guests, g \notin cacheDoubt'
      PROVE  CacheKept(p, g)
  BY <1>2, <1>3, <1>6, Ended DEF CreateReviewUnheard, CacheKept
<1>7. ASSUME NEW g \in Guests, indexState'[g] # "racing"
      PROVE  IndexKept(p, g)
  BY <1>2, <1>3, <1>7, Ended DEF CreateReviewUnheard, IndexKept, Racing, Busy
<1> QED BY <1>3, <1>4, <1>5, <1>6, <1>7, StepInv

LEMMA CreateGuestUnheardInv ==
    ASSUME IInv, NEW p \in Requests, CreateGuestUnheard(p)
    PROVE  IInv'
<1> DEFINE h == The(p)
<1>1. RequestsOK /\ Shape(p) /\ HistoryOK
  BY Request, Types DEF IInv
<1>2. h \in Guests /\ about[p] = {h} /\ h \notin Opened
  BY <1>1, OneGuest DEF CreateGuestUnheard, Shape
<1>3. /\ StoresOK' /\ FileGrows /\ file[h] = None
      /\ \A g \in Guests \ {h} : file'[g] = file[g]
      /\ cache' = cache /\ index' = index
  BY <1>2, Opens DEF CreateGuestUnheard
<1>4. Others(p) /\ RequestsOK' /\ Shape(p)' /\ Counts(p)'
  BY <1>1, EndStep DEF CreateGuestUnheard
<1>5. HistoryOK'
  BY <1>1, <1>2 DEF CreateGuestUnheard, HistoryOK, Racing
<1>6. ASSUME NEW g \in Guests, g \notin cacheDoubt
      PROVE  CacheKept(p, g) \/ CacheInv(g)'
  <2>1. CASE g # h
    BY <1>3, <1>6, <2>1, Ended DEF CreateGuestUnheard, CacheKept
  <2>2. CASE g = h
    <3>1. Busy(g, {"show"}) = {} /\ cache[g] = None
      BY <1>2, <1>6, <2>2, Unopened
    <3>2. Busy(g, {"show"})' = {}
      BY <1>4, <3>1, Ended, OthersBusy DEF CreateGuestUnheard
    <3> QED BY <1>3, <3>1, <3>2 DEF CacheInv, FillsAreFresh, StaleIsInvalidated
  <2> QED BY <2>1, <2>2
<1>7. ASSUME NEW g \in Guests, indexState'[g] # "racing"
      PROVE  IndexKept(p, g)
  BY <1>2, <1>3, <1>7, Ended DEF CreateGuestUnheard, IndexKept, Racing, Busy
<1> QED BY <1>3, <1>4, <1>5, <1>6, <1>7, StepInv DEF CreateGuestUnheard

LEMMA CreateGuestInv ==
    ASSUME IInv, NEW p \in Requests, CreateGuest(p)
    PROVE  IInv'
<1> DEFINE h == The(p)
<1>1. CASE End(p) /\ UNCHANGED file
  BY <1>1, EndQuietly DEF CreateGuest, stores
<1>2. CASE /\ h \notin Opened /\ file' = [file EXCEPT ![h] = 0]
           /\ Goto(p, "reread") /\ UNCHANGED <<kind, about, got, own, after>>
  <2>1. RequestsOK /\ Shape(p) /\ Counts(p) /\ HistoryOK
    BY Request, Types DEF IInv
  <2>2. h \in Guests /\ about[p] = {h} /\ kind[p] = "open"
    BY <2>1, OneGuest DEF CreateGuest, Shape
  <2>3. /\ StoresOK' /\ FileGrows /\ file'[h] = 0
        /\ \A g \in Guests \ {h} : file'[g] = file[g]
        /\ cache' = cache /\ index' = index
    BY <1>2, <2>2, Opens DEF CreateGuest
  <2>4. /\ Others(p) /\ RequestsOK'
        /\ pc'[p] = "reread" /\ kind'[p] = kind[p] /\ about'[p] = about[p]
        /\ own'[p] = own[p] /\ after'[p] = after[p]
    BY <1>2, <2>1 DEF Goto, Others, RequestsOK, Pcs
  <2>5. HistoryOK' /\ cacheDoubt' = cacheDoubt /\ indexState' = indexState
    BY <2>1 DEF CreateGuest, HistoryOK, history
  <2>6. Shape(p)' /\ Counts(p)'
    <3>1. about[p] \subseteq Opened'
      BY <2>2, <2>3, NoneAssumption DEF Opened
    <3> QED BY <2>1, <2>2, <2>4, <3>1 DEF CreateGuest, Shape, Counts
  <2>7. ASSUME NEW g \in Guests, g \notin cacheDoubt
        PROVE  CacheKept(p, g) \/ CacheInv(g)'
    <3>1. CASE g # h
      BY <2>2, <2>3, <2>4, <2>7, <3>1 DEF CreateGuest, CacheKept, Busy
    <3>2. CASE g = h
      <4>1. Busy(g, {"show"}) = {} /\ cache[g] = None
        BY <1>2, <2>7, <3>2, Unopened
      <4>2. Busy(g, {"show"})' = {}
        BY <2>2, <2>4, <4>1 DEF Busy, Others
      <4> QED BY <2>3, <4>1, <4>2 DEF CacheInv, FillsAreFresh, StaleIsInvalidated
    <3> QED BY <3>1, <3>2
  <2>8. ASSUME NEW g \in Guests, indexState[g] # "racing"
        PROVE  IndexKept(p, g) \/ IndexInv(g)'
    <3>1. CASE g # h
      BY <2>2, <2>3, <2>4, <2>5, <2>8, <3>1 DEF CreateGuest, IndexKept, Busy
    <3>2. CASE g = h
      <4>1. p \in Busy(g, Indexers) /\ p \in Busy(g, Indexers)'
        BY <2>2, <2>4, <3>2 DEF Busy, Indexers
      <4>2. \A q \in Busy(g, Indexers) : q = p
        BY <2>8, <4>1 DEF IInv, IndexInv, WritersAreAlone
      <4>3. \A q \in Busy(g, Indexers)' : q = p
        BY <2>4, <4>2, OthersBusy
      <4> QED BY <2>4, <4>1, <4>3
              DEF IndexInv, WritersAreAlone, DocumentsAreFresh, StaleIsIndexed
    <3> QED BY <3>1, <3>2
  <2> QED BY <2>3, <2>4, <2>5, <2>6, <2>7, <2>8, StepInv
<1> QED BY <1>1, <1>2 DEF CreateGuest

-----------------------------------------------------------------------------
(* Deletes and fills.                                                       *)

\* An entry that is gone, with no fill on its way, is in step with anything.
LEMMA SettledInv ==
    ASSUME NEW p, Others(p), NEW g, p \notin Busy(g, {"show"})',
           cache'[g] = None, g \in cacheDoubt, g \notin Settled(g)
    PROVE  CacheInv(g)'
<1>1. Busy(g, {"show"}) = {}
  BY DEF Settled
<1>2. Busy(g, {"show"})' = {}
  BY <1>1 DEF Busy, Others
<1> QED BY <1>2 DEF CacheInv, FillsAreFresh, StaleIsInvalidated

LEMMA InvalidateInv ==
    ASSUME IInv, NEW p \in Requests, Invalidate(p)
    PROVE  IInv'
<1> DEFINE h == The(p)
<1>1. RequestsOK /\ StoresOK /\ HistoryOK /\ FileGrows /\ Shape(p) /\ Counts(p)
  BY Request, StoresKeep DEF Invalidate
<1>2. h \in Guests /\ about[p] = {h} /\ kind[p] = "review"
  BY <1>1, OneGuest DEF Invalidate, Shape
<1>3. /\ file' = file /\ index' = index /\ indexState' = indexState
      /\ \A g \in Guests \ {h} : cache'[g] = cache[g]
      /\ cache'[h] \in {None, cache[h]}
  BY <1>1, <1>2 DEF Invalidate, DeleteKey, StoresOK
<1>4. StoresOK'
  <2>1. None \in Known
    BY DEF Known
  <2> QED BY <1>1, <2>1 DEF Invalidate, DeleteKey, StoresOK
<1>5. /\ Others(p) /\ RequestsOK'
      /\ pc'[p] = "after" /\ kind'[p] = kind[p] /\ about'[p] = about[p]
      /\ got'[p] = got[p] /\ own'[p] = own[p] /\ after'[p] = after[p]
  BY <1>1 DEF Invalidate, Goto, Others, RequestsOK, Pcs
<1>6. HistoryOK'
  BY <1>1, <1>2 DEF Invalidate, HistoryOK, Settled
<1>7. Shape(p)' /\ Counts(p)'
  BY <1>1, <1>3, <1>5 DEF Invalidate, Shape, Counts, Opened
<1>8. ASSUME NEW g \in Guests, g \notin cacheDoubt'
      PROVE  CacheKept(p, g) \/ CacheInv(g)'
  <2>1. CASE g # h
    <3>1. g \notin cacheDoubt
      BY <1>2, <1>8, <2>1 DEF Invalidate, Settled
    <3> QED BY <1>2, <1>3, <1>5, <2>1, <3>1 DEF CacheKept, Busy
  <2>2. CASE g = h
    <3>1. cache'[g] = None /\ g \notin Settled(g)
      BY <1>1, <1>2, <1>8, <2>2 DEF Invalidate, DeleteKey, StoresOK
    <3>2. p \notin Busy(g, {"show"})'
      BY <1>2, <1>5 DEF Busy
    <3>3. CASE g \in cacheDoubt
      BY <1>5, <3>1, <3>2, <3>3, SettledInv
    <3>4. CASE g \notin cacheDoubt
      BY <1>2, <1>3, <1>5, <3>1, <3>2, <3>4 DEF CacheKept, Busy
    <3> QED BY <3>3, <3>4
  <2> QED BY <2>1, <2>2
<1>9. ASSUME NEW g \in Guests, indexState[g] # "racing"
      PROVE  IndexKept(p, g)
  BY <1>2, <1>3, <1>5, <1>9 DEF Invalidate, IndexKept, Busy
<1> QED BY <1>1, <1>3, <1>4, <1>5, <1>6, <1>7, <1>8, <1>9, StepInv

LEMMA ExpireInv ==
    ASSUME IInv, NEW h \in Guests, Expire(h)
    PROVE  IInv'
<1>1. PICK p : p \notin Requests
  BY NoSetContainsEverything
<1>2. StoresOK /\ HistoryOK /\ FileGrows /\ RequestsOK
  BY StoresKeep, Types DEF Expire, IInv
<1>3. Others(p) /\ RequestsOK'
  BY <1>2 DEF Expire, request, Others, RequestsOK
<1>4. /\ file' = file /\ index' = index /\ indexState' = indexState
      /\ \A g \in Guests \ {h} : cache'[g] = cache[g]
      /\ cache'[h] = None
  BY <1>2 DEF Expire, DeleteKey, StoresOK
<1>5. StoresOK' /\ HistoryOK'
  <2>1. None \in Known
    BY DEF Known
  <2> QED BY <1>2, <2>1 DEF Expire, DeleteKey, StoresOK, HistoryOK, Settled
<1>6. \A g, ks : p \notin Busy(g, ks) /\ p \notin Busy(g, ks)'
  BY <1>1 DEF Busy
<1>7. ASSUME NEW g \in Guests, g \notin cacheDoubt'
      PROVE  CacheKept(p, g) \/ CacheInv(g)'
  <2>1. CASE g \notin cacheDoubt
    BY <1>4, <1>6, <2>1 DEF CacheKept
  <2>2. CASE g \in cacheDoubt
    <3>1. g = h /\ g \notin Settled(g)
      BY <1>7, <2>2 DEF Expire, Settled
    <3> QED BY <1>3, <1>4, <1>6, <2>2, <3>1, SettledInv
  <2> QED BY <2>1, <2>2
<1>8. ASSUME NEW g \in Guests, indexState[g] # "racing"
      PROVE  IndexKept(p, g)
  BY <1>4, <1>6, <1>8 DEF IndexKept
<1> QED BY <1>1, <1>2, <1>3, <1>4, <1>5, <1>7, <1>8, StepInv

LEMMA PutInv ==
    ASSUME IInv, NEW p \in Requests, Put(p)
    PROVE  IInv'
<1> DEFINE h == The(p)
<1>1. RequestsOK /\ StoresOK /\ HistoryOK /\ FileGrows /\ Shape(p)
  BY Request, StoresKeep DEF Put
<1>2. h \in Guests /\ about[p] = {h} /\ kind[p] \in Indexers
  BY <1>1, OneGuest DEF Put, Shape, Indexers
<1>3. Others(p) /\ RequestsOK' /\ Shape(p)' /\ Counts(p)'
  BY <1>1, EndStep DEF Put
<1>4. /\ file' = file /\ cache' = cache /\ cacheDoubt' = cacheDoubt
      /\ \A g \in Guests \ {h} : index'[g] = index[g] /\ indexState'[g] = indexState[g]
  BY <1>1, <1>2 DEF Put, Index, Repaired, Racing, StoresOK, HistoryOK
<1>5. indexState'[h] # "racing" => indexState[h] # "racing" /\ index'[h] = got[p][h]
  BY <1>2 DEF Put, Index, Repaired, Racing
<1>6. StoresOK'
  <2>1. \A g \in Guests : got[p][g] \in Known
    BY <1>1 DEF RequestsOK
  <2> QED BY <1>1, <2>1 DEF Put, Index, StoresOK
<1>7. HistoryOK'
  BY <1>1 DEF Put, HistoryOK, Repaired, Racing
<1>8. ASSUME NEW g \in Guests, g \notin cacheDoubt
      PROVE  CacheKept(p, g)
  BY <1>4, <1>8, Ended DEF Put, CacheKept
<1>9. ASSUME NEW g \in Guests, indexState'[g] # "racing"
      PROVE  IndexKept(p, g)
  <2>1. CASE g # h
    BY <1>2, <1>4, <1>9, <2>1, Ended DEF Put, IndexKept, Busy
  <2>2. CASE g = h
    <3>1. p \in Busy(g, Indexers)
      BY <1>2, <2>2 DEF Busy
    <3>2. got[p][g] = file[g]
      BY <1>5, <1>9, <2>2, <3>1 DEF IInv, IndexInv, DocumentsAreFresh, Put
    <3> QED BY <1>4, <1>5, <1>9, <2>2, <3>2, Ended DEF Put, IndexKept
  <2> QED BY <2>1, <2>2
<1> QED BY <1>1, <1>3, <1>4, <1>6, <1>7, <1>8, <1>9, StepInv

LEMMA PutBatchInv ==
    ASSUME IInv, NEW p \in Requests, PutBatch(p)
    PROVE  IInv'
<1>1. CASE about[p] = {}
  BY <1>1, EndQuietly DEF PutBatch, stores, history
<1>2. CASE about[p] # {}
  <2>1. RequestsOK /\ StoresOK /\ HistoryOK /\ FileGrows /\ Shape(p) /\ Counts(p)
    BY Request, StoresKeep DEF PutBatch
  <2>2. /\ file' = file /\ cache' = cache /\ cacheDoubt' = cacheDoubt
        /\ pc[p] = "bulk" /\ kind[p] = "reindex"
        /\ about[p] \subseteq Guests /\ about[p] \subseteq Opened
    BY <2>1 DEF PutBatch, Shape, RequestsOK
  <2>3. \A g \in Guests : got[p][g] \in Known
    BY <2>1 DEF RequestsOK
  <2>4. \A g \in about[p] : indexState[g] # "racing" => got[p][g] = file[g]
    <3> SUFFICES ASSUME NEW g \in about[p], indexState[g] # "racing"
                 PROVE  got[p][g] = file[g]
      OBVIOUS
    <3>1. p \in Busy(g, Indexers) /\ g \in Guests /\ got[p][g] # None
      BY <2>1, <2>2 DEF Busy, Indexers, Shape
    <3> QED BY <2>2, <3>1 DEF IInv, IndexInv, DocumentsAreFresh
  <2>5. PICK batch \in Batches(p) :
            \/ /\ Index(p, batch) /\ indexState' = Repaired(batch)
               /\ about' = [about EXCEPT ![p] = @ \ batch]
               /\ UNCHANGED <<pc, kind, got, own, after>>
            \/ /\ \E done \in SUBSET batch : Index(p, done)
               /\ End(p) /\ UNCHANGED indexState
    BY <1>2 DEF PutBatch
  <2>6. batch \subseteq about[p]
    BY <2>5 DEF Batches
  <2>7. CASE /\ Index(p, batch) /\ indexState' = Repaired(batch)
             /\ about' = [about EXCEPT ![p] = @ \ batch]
             /\ UNCHANGED <<pc, kind, got, own, after>>
    <3>1. Others(p) /\ RequestsOK' /\ about'[p] = about[p] \ batch
      BY <2>1, <2>7 DEF Others, RequestsOK
    <3>2. StoresOK' /\ HistoryOK'
      BY <2>1, <2>2, <2>3, <2>7 DEF Index, Repaired, StoresOK, HistoryOK
    <3>3. Shape(p)' /\ Counts(p)'
      BY <2>1, <2>2, <2>7, <3>1 DEF Shape, Counts, Opened
    <3>4. ASSUME NEW g \in Guests, g \notin cacheDoubt
          PROVE  CacheKept(p, g)
      BY <2>2, <2>7, <3>1, <3>4 DEF CacheKept, Busy
    <3>5. ASSUME NEW g \in Guests, indexState'[g] # "racing"
          PROVE  IndexKept(p, g)
      <4>1. indexState[g] # "racing"
        BY <2>7, <3>5 DEF Repaired
      <4>2. CASE g \in batch
        <5>1. index'[g] = file[g]
          BY <2>4, <2>6, <2>7, <4>1, <4>2 DEF Index
        <5>2. p \notin Busy(g, Indexers)'
          BY <3>1, <4>2 DEF Busy
        <5> QED BY <2>2, <4>1, <5>1, <5>2 DEF IndexKept
      <4>3. CASE g \notin batch
        <5>1. index'[g] = index[g] /\ indexState'[g] = indexState[g]
          BY <2>7, <4>3 DEF Index, Repaired
        <5>2. p \in Busy(g, Indexers)' => p \in Busy(g, Indexers) /\ got'[p][g] = file[g]
          BY <2>4, <2>7, <3>1, <4>1 DEF Busy
        <5> QED BY <2>2, <4>1, <5>1, <5>2 DEF IndexKept
      <4> QED BY <4>2, <4>3
    <3> QED BY <2>1, <2>2, <3>1, <3>2, <3>3, <3>4, <3>5, StepInv
  <2>8. CASE /\ \E done \in SUBSET batch : Index(p, done)
             /\ End(p) /\ UNCHANGED indexState
    <3>1. PICK done \in SUBSET batch : Index(p, done)
      BY <2>8
    <3>2. Others(p) /\ RequestsOK' /\ Shape(p)' /\ Counts(p)'
      BY <2>1, <2>8, EndStep
    <3>3. StoresOK' /\ HistoryOK'
      BY <2>1, <2>2, <2>3, <2>8, <3>1 DEF Index, StoresOK, HistoryOK
    <3>4. ASSUME NEW g \in Guests, g \notin cacheDoubt
          PROVE  CacheKept(p, g)
      BY <2>2, <2>8, <3>4, Ended DEF CacheKept
    <3>5. ASSUME NEW g \in Guests, indexState[g] # "racing"
          PROVE  IndexKept(p, g)
      <4>1. index'[g] \in {index[g], file[g]}
        BY <2>4, <2>6, <3>1, <3>5 DEF Index
      <4> QED BY <2>2, <2>8, <3>5, <4>1, Ended DEF IndexKept
    <3> QED BY <2>1, <2>2, <2>8, <3>2, <3>3, <3>4, <3>5, StepInv
  <2> QED BY <2>5, <2>7, <2>8
<1> QED BY <1>1, <1>2

-----------------------------------------------------------------------------
(* Writes that touch neither.                                               *)

LEMMA IngestInv ==
    ASSUME IInv, NEW h \in Guests, Ingest(h)
    PROVE  IInv'
<1>1. PICK p : p \notin Requests
  BY NoSetContainsEverything
<1>2. HistoryOK /\ RequestsOK
  BY Types DEF IInv
<1>3. /\ StoresOK' /\ FileGrows
      /\ \A g \in Guests \ {h} : file'[g] = file[g]
      /\ cache' = cache /\ index' = index
  BY OneMore DEF Ingest
<1>4. Others(p) /\ RequestsOK' /\ HistoryOK'
  BY <1>2 DEF Ingest, request, Others, RequestsOK, HistoryOK, Racing
<1>5. \A g, ks : p \notin Busy(g, ks) /\ p \notin Busy(g, ks)'
  BY <1>1 DEF Busy
<1>6. ASSUME NEW g \in Guests, g \notin cacheDoubt'
      PROVE  CacheKept(p, g)
  BY <1>3, <1>5, <1>6 DEF Ingest, CacheKept
<1>7. ASSUME NEW g \in Guests, indexState'[g] # "racing"
      PROVE  IndexKept(p, g)
  BY <1>3, <1>5, <1>7 DEF Ingest, IndexKept, Racing
<1> QED BY <1>1, <1>3, <1>4, <1>6, <1>7, StepInv

LEMMA RegisterInv ==
    ASSUME IInv, NEW h \in Guests, Register(h)
    PROVE  IInv'
<1>1. PICK p : p \notin Requests
  BY NoSetContainsEverything
<1>2. HistoryOK /\ RequestsOK
  BY Types DEF IInv
<1>3. /\ StoresOK' /\ FileGrows
      /\ \A g \in Guests \ {h} : file'[g] = file[g]
      /\ cache' = cache /\ index' = index
  BY Opens DEF Register
<1>4. Others(p) /\ RequestsOK' /\ HistoryOK'
  BY <1>2 DEF Register, request, Others, RequestsOK, HistoryOK, Racing
<1>5. \A g, ks : p \notin Busy(g, ks) /\ p \notin Busy(g, ks)'
  BY <1>1 DEF Busy
<1>6. ASSUME NEW g \in Guests, g \notin cacheDoubt
      PROVE  CacheKept(p, g) \/ CacheInv(g)'
  <2>1. CASE g # h
    BY <1>3, <1>5, <1>6, <2>1 DEF CacheKept
  <2>2. CASE g = h
    <3>1. Busy(g, {"show"}) = {} /\ cache[g] = None
      BY <1>6, <2>2, Unopened DEF Register
    <3>2. Busy(g, {"show"})' = {}
      BY <3>1 DEF Register, request, Busy
    <3> QED BY <1>3, <3>1, <3>2 DEF CacheInv, FillsAreFresh, StaleIsInvalidated
  <2> QED BY <2>1, <2>2
<1>7. ASSUME NEW g \in Guests, indexState'[g] # "racing"
      PROVE  IndexKept(p, g)
  BY <1>3, <1>5, <1>7 DEF Register, IndexKept, Racing
<1> QED BY <1>1, <1>3, <1>4, <1>6, <1>7, StepInv DEF Register

-----------------------------------------------------------------------------
LEMMA InitInv == Init => IInv
<1> SUFFICES ASSUME Init PROVE IInv
  OBVIOUS
<1>1. TypeOK
  <2>1. None \in Known /\ "idle" \in Pcs
    BY DEF Known, Pcs
  <2> QED BY <2>1, NothingKnown DEF Init, TypeOK, Nothing
<1>2. \A p \in Requests : Shape(p) /\ Counts(p)
  BY NoneAssumption DEF Init, Shape, Counts, Kinds
<1>3. \A g, ks : Busy(g, ks) = {}
  BY DEF Init, Busy
<1>4. \A g \in Guests : CacheInv(g) /\ IndexInv(g)
  BY <1>3 DEF Init, Nothing, CacheInv, FillsAreFresh, StaleIsInvalidated,
              IndexInv, WritersAreAlone, DocumentsAreFresh, StaleIsIndexed
<1> QED BY <1>1, <1>2, <1>4 DEF IInv

LEMMA UnchangedInv == IInv /\ UNCHANGED vars => IInv'
BY DEF IInv, vars, stores, request, history, TypeOK, Shape, Counts, CacheInv, IndexInv,
       FillsAreFresh, StaleIsInvalidated, WritersAreAlone, DocumentsAreFresh,
       StaleIsIndexed, Busy, Opened

LEMMA NextInv == IInv /\ [Next]_vars => IInv'
<1> SUFFICES ASSUME IInv, [Next]_vars PROVE IInv'
  OBVIOUS
<1>1. ASSUME NEW p \in Requests, Call(p) PROVE IInv'
  BY <1>1, GetInv, ReadReviewsInv, SetInv, ReadBeforeInv, CreateReviewInv, InvalidateInv,
     ReadAfterInv, CreateReviewUnheardInv, CreateGuestUnheardInv, CreateGuestInv,
     RereadInv, PutInv, ListGuestsInv, ScanEndsInv, PutBatchInv, ScanInv DEF Call
<1>2. ASSUME NEW p \in Requests, Arrive(p) \/ Drop(p) PROVE IInv'
  BY <1>2, ArriveInv, DropInv
<1>3. ASSUME NEW g \in Guests, Expire(g) \/ Ingest(g) \/ Register(g) PROVE IInv'
  BY <1>3, ExpireInv, IngestInv, RegisterInv
<1>4. CASE UNCHANGED vars
  BY <1>4, UnchangedInv
<1> QED BY <1>1, <1>2, <1>3, <1>4 DEF Next

\* The invariant, of every behaviour.
THEOREM Invariance == Spec => []IInv
<1> QED BY InitInv, NextInv, PTL DEF Spec

\* Requests, stores and history keep their types.
THEOREM TypeCorrect == Spec => []TypeOK
<1>1. IInv => TypeOK
  BY DEF IInv
<1> QED BY <1>1, Invariance, PTL

\* integrations.go:171: however many requests, replicas and guests there are,
\* outside the time a review takes the cached score is that of the stored
\* reviews, except for the guests the code leaves in doubt.
THEOREM CacheFollowsStore == Spec => []CacheInStep
<1>1. IInv => CacheInStep
  BY DEF IInv, CacheInv, StaleIsInvalidated, CacheInStep
<1> QED BY <1>1, Invariance, PTL

\* integrations.go:181-185: whatever the batches are, the index follows the
\* writes of requests that neither overlap nor fail, and a reindex that overlaps
\* no write repairs it.
THEOREM IndexFollowsStore == Spec => []IndexInStep
<1>1. IInv => IndexInStep
  BY DEF IInv, IndexInv, StaleIsIndexed, IndexInStep, Opened
<1> QED BY <1>1, Invariance, PTL

\* handleCreateReview: the score an answer reports counts the review the request
\* stored, whatever other requests do in between.
THEOREM AnswersCountTheReview == Spec => []ReviewIsCounted
<1>1. IInv => ReviewIsCounted
  BY DEF IInv, Counts, ReviewIsCounted
<1> QED BY <1>1, Invariance, PTL
=============================================================================
