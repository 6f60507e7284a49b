------------------------------ MODULE ReadModels ------------------------------
(***************************************************************************)
(* What the API keeps beside the store: the score cache (Redis) and the    *)
(* directory index (Elasticsearch), filled and updated by concurrent       *)
(* requests of internal/api/integrations.go and handleCreateReview of      *)
(* internal/api/api.go.                                                    *)
(*                                                                         *)
(* One action is one call a request makes to the store, the cache or the   *)
(* index.  A score and an indexed document stand for the number of reviews *)
(* they were computed from: the only thing that makes either outdated      *)
(* here.  (A score also moves with the day it is computed on.)  The keys   *)
(* under the directory, search and stats prefixes are deleted but never    *)
(* set by any code, so only score keys are modelled.  The store is exact:  *)
(* FileStore and PostgresDesk have its detail.                             *)
(*                                                                         *)
(* cacheDoubt and indexState are history: they record which guests have    *)
(* had overlapping requests, failed calls or writes past the API since     *)
(* their entry was last known good.                                        *)
(***************************************************************************)
EXTENDS Naturals, FiniteSets

CONSTANTS
    Requests,    \* requests being served, on whatever replica
    Guests,
    MaxReviews,  \* guest -> bound on its reviews
    BatchSize,   \* documents in one _bulk request
    None

ASSUME BoundAssumption == MaxReviews \in [Guests -> Nat] /\ BatchSize \in Nat \ {0}

Kinds == {"show", "review", "open", "reindex"}

ASSUME NoneAssumption == None \notin Nat /\ None \notin Kinds

VARIABLES
    file,        \* guest -> reviews in the store, None before it is opened
    cache,       \* guest -> reviews its cached score counts
    index,       \* guest -> reviews its indexed document counts
    pc,          \* the next call of each request
    kind, about, \* what it does, and the guests it is about
    got,         \* request -> guest -> reviews it has read
    own,         \* the version its own review made
    after,       \* the version its answer reports
    cacheDoubt,  \* guests whose cached score may be outdated
    indexState   \* guest -> "inStep", "drifted" or "racing"

stores  == <<file, cache, index>>
request == <<pc, kind, about, got, own, after>>
history == <<cacheDoubt, indexState>>
vars    == <<stores, request, history>>

Versions == UNION {0..MaxReviews[g] : g \in Guests}
Known    == Versions \cup {None}
Pcs      == {"idle", "get", "read", "set", "before", "store", "invalidate", "after",
             "create", "reread", "put", "list", "scan", "bulk"}

TypeOK ==
    /\ file \in [Guests -> Known]
    /\ cache \in [Guests -> Known]
    /\ index \in [Guests -> Known]
    /\ pc \in [Requests -> Pcs]
    /\ kind \in [Requests -> Kinds \cup {None}]
    /\ about \in [Requests -> SUBSET Guests]
    /\ got \in [Requests -> [Guests -> Known]]
    /\ own \in [Requests -> Known]
    /\ after \in [Requests -> Known]
    /\ cacheDoubt \subseteq Guests
    /\ indexState \in [Guests -> {"inStep", "drifted", "racing"}]

Nothing == [g \in Guests |-> None]

Init ==
    /\ file = Nothing /\ cache = Nothing /\ index = Nothing
    /\ pc = [p \in Requests |-> "idle"]
    /\ kind = [p \in Requests |-> None]
    /\ about = [p \in Requests |-> {}]
    /\ got = [p \in Requests |-> Nothing]
    /\ own = [p \in Requests |-> None]
    /\ after = [p \in Requests |-> None]
    /\ cacheDoubt = {}
    /\ indexState = [g \in Guests |-> "inStep"]

-----------------------------------------------------------------------------
(* Requests.                                                                *)

Busy(g, kinds) == {p \in Requests : g \in about[p] /\ kind[p] \in kinds}
Indexers == {"review", "open", "reindex"}

Opened == {g \in Guests : file[g] # None}
The(p) == CHOOSE g \in about[p] : TRUE

Goto(p, l) == pc' = [pc EXCEPT ![p] = l]

End(p) ==
    /\ Goto(p, "idle")
    /\ kind' = [kind EXCEPT ![p] = None]
    /\ about' = [about EXCEPT ![p] = {}]
    /\ got' = [got EXCEPT ![p] = Nothing]
    /\ own' = [own EXCEPT ![p] = None]
    /\ after' = [after EXCEPT ![p] = None]

Read(p, g) == got' = [got EXCEPT ![p][g] = file[g]]

Racing(gs) == [g \in Guests |-> IF g \in gs THEN "racing" ELSE indexState[g]]

\* An index writer that starts alone on a guest can bring its document back in
\* step; one that meets another may leave it behind.  A show and a review of
\* one guest leave the cached score in doubt if they overlap.
Begin(p, k, gs, l) ==
    /\ pc[p] = "idle"
    /\ Goto(p, l)
    /\ kind' = [kind EXCEPT ![p] = k]
    /\ about' = [about EXCEPT ![p] = gs]
    /\ cacheDoubt' = cacheDoubt \cup
           {g \in gs : \/ k = "show" /\ Busy(g, {"review"}) # {}
                       \/ k = "review" /\ Busy(g, {"show"}) # {}}
    /\ indexState' =
           IF k = "show" THEN indexState
           ELSE [g \in Guests |->
                    IF g \notin gs THEN indexState[g]
                    ELSE IF Busy(g, Indexers) # {} THEN "racing"
                    ELSE IF indexState[g] = "racing" THEN "drifted"
                    ELSE indexState[g]]
    /\ UNCHANGED <<stores, got, own, after>>

BeginShow(p, g)   == g \in Opened /\ Begin(p, "show", {g}, "get")
BeginReview(p, g) == g \in Opened /\ Begin(p, "review", {g}, "before")
BeginOpen(p, g)   == g \notin Opened /\ Begin(p, "open", {g}, "create")
BeginReindex(p)   == Begin(p, "reindex", Guests, "list")

\* The store fails, the caller hangs up or the replica dies.  What has been
\* stored is not invalidated or indexed any more.
Drop(p) ==
    /\ pc[p] # "idle"
    /\ End(p)
    /\ cacheDoubt' = IF pc[p] = "invalidate" THEN cacheDoubt \cup about[p] ELSE cacheDoubt
    /\ indexState' = IF pc[p] \in {"invalidate", "after", "reread", "put"}
                     THEN Racing(about[p]) ELSE indexState
    /\ UNCHANGED <<stores>>

-----------------------------------------------------------------------------
(* scoreCached: the score of one hit of a search.                           *)

\* A failed read is a miss.
Get(p) ==
    /\ pc[p] = "get"
    /\ \/ cache[The(p)] # None /\ End(p)
       \/ Goto(p, "read") /\ UNCHANGED <<kind, about, got, own, after>>
    /\ UNCHANGED <<stores, history>>

ReadReviews(p) ==
    /\ pc[p] = "read"
    /\ Read(p, The(p)) /\ Goto(p, "set")
    /\ UNCHANGED <<stores, kind, about, own, after, history>>

SetKey(g, v) == cache' = [cache EXCEPT ![g] = v]
DeleteKey(g) == cache' = [cache EXCEPT ![g] = None]

\* A failed write is only logged.
Set(p) ==
    /\ pc[p] = "set"
    /\ SetKey(The(p), got[p][The(p)]) \/ UNCHANGED cache
    /\ End(p)
    /\ UNCHANGED <<file, index, history>>

\* The entry's time runs out; no fill that may still be wrong is on its way.
Settled(g) == IF Busy(g, {"show"}) = {} THEN cacheDoubt \ {g} ELSE cacheDoubt

Expire(g) ==
    /\ cache[g] # None
    /\ DeleteKey(g)
    /\ cacheDoubt' = Settled(g)
    /\ UNCHANGED <<file, index, request, indexState>>

-----------------------------------------------------------------------------
(* handleCreateReview.                                                      *)

ReadBefore(p) ==
    /\ pc[p] = "before"
    /\ Read(p, The(p)) /\ Goto(p, "store")
    /\ UNCHANGED <<stores, kind, about, own, after, history>>

\* Seeded fault: the review is stored a second time.
CreateReviewTwice(p) ==
    /\ pc[p] = "store"
    /\ file[The(p)] < MaxReviews[The(p)]
    /\ file' = [file EXCEPT ![The(p)] = @ + 2]
    /\ own' = [own EXCEPT ![p] = file'[The(p)]]
    /\ Goto(p, "invalidate")
    /\ UNCHANGED <<cache, index, kind, about, got, after, history>>

CreateReview(p) ==
    /\ pc[p] = "store"
    /\ file[The(p)] < MaxReviews[The(p)]
    /\ file' = [file EXCEPT ![The(p)] = @ + 1]
    /\ own' = [own EXCEPT ![p] = file'[The(p)]]
    /\ Goto(p, "invalidate")
    /\ UNCHANGED <<cache, index, kind, about, got, after, history>>

\* The review is stored but the store cannot say so: an error is answered, and
\* nothing is invalidated or indexed.
CreateReviewUnheard(p) ==
    /\ pc[p] = "store"
    /\ file[The(p)] < MaxReviews[The(p)]
    /\ file' = [file EXCEPT ![The(p)] = @ + 1]
    /\ End(p)
    /\ cacheDoubt' = cacheDoubt \cup about[p]
    /\ indexState' = Racing(about[p])
    /\ UNCHANGED <<cache, index>>

\* Seeded fault: the keys deleted are not the one that is set.
InvalidateOther(p) ==
    /\ pc[p] = "invalidate"
    /\ cacheDoubt' = Settled(The(p))
    /\ Goto(p, "after")
    /\ UNCHANGED <<stores, kind, about, got, own, after, indexState>>

\* A failed delete is logged; it may have been carried out.
Invalidate(p) ==
    /\ pc[p] = "invalidate"
    /\ \/ /\ DeleteKey(The(p))
          /\ cacheDoubt' = Settled(The(p))
       \/ /\ DeleteKey(The(p)) \/ UNCHANGED cache
          /\ cacheDoubt' = cacheDoubt \cup about[p]
    /\ Goto(p, "after")
    /\ UNCHANGED <<file, index, kind, about, got, own, after, indexState>>

\* Seeded fault: the score reported back is taken from the cache.
ReadAfterCached(p) ==
    /\ pc[p] = "after"
    /\ after' = [after EXCEPT ![p] = IF cache[The(p)] # None THEN cache[The(p)]
                                     ELSE file[The(p)]]
    /\ Goto(p, "reread")
    /\ UNCHANGED <<stores, kind, about, got, own, history>>

ReadAfter(p) ==
    /\ pc[p] = "after"
    /\ after' = [after EXCEPT ![p] = file[The(p)]]
    /\ Goto(p, "reread")
    /\ UNCHANGED <<stores, kind, about, got, own, history>>

-----------------------------------------------------------------------------
(* reindexGuest, after a review and after a file was opened at a desk.      *)

CreateGuest(p) ==
    /\ pc[p] = "create"
    /\ \/ /\ The(p) \notin Opened
          /\ file' = [file EXCEPT ![The(p)] = 0]
          /\ Goto(p, "reread")
          /\ UNCHANGED <<kind, about, got, own, after>>
       \/ The(p) \in Opened /\ End(p) /\ UNCHANGED file
    /\ UNCHANGED <<cache, index, history>>

CreateGuestUnheard(p) ==
    /\ pc[p] = "create"
    /\ The(p) \notin Opened
    /\ file' = [file EXCEPT ![The(p)] = 0]
    /\ End(p)
    /\ indexState' = Racing(about[p])
    /\ UNCHANGED <<cache, index, cacheDoubt>>

\* Seeded fault: the document is made from the reviews read before the write.
RereadNot(p) ==
    /\ pc[p] = "reread"
    /\ got' = [got EXCEPT ![p][The(p)] = IF @ = None THEN file[The(p)] ELSE @]
    /\ Goto(p, "put")
    /\ UNCHANGED <<stores, kind, about, own, after, history>>

Reread(p) ==
    /\ pc[p] = "reread"
    /\ Read(p, The(p)) /\ Goto(p, "put")
    /\ UNCHANGED <<stores, kind, about, own, after, history>>

Repaired(gs) ==
    [g \in Guests |-> IF g \in gs /\ indexState[g] = "drifted" THEN "inStep"
                      ELSE indexState[g]]

Index(p, gs) ==
    index' = [g \in Guests |-> IF g \in gs THEN got[p][g] ELSE index[g]]

\* A failed Put is logged; it may have been carried out.
Put(p) ==
    /\ pc[p] = "put"
    /\ \/ Index(p, about[p]) /\ indexState' = Repaired(about[p])
       \/ /\ Index(p, about[p]) \/ UNCHANGED index
          /\ indexState' = Racing(about[p])
    /\ End(p)
    /\ UNCHANGED <<file, cache, cacheDoubt>>

-----------------------------------------------------------------------------
(* handleReindex.                                                           *)

\* ListGuests: guests opened later are not part of this run.
ListGuests(p) ==
    /\ pc[p] = "list"
    /\ about' = [about EXCEPT ![p] = Opened]
    /\ Goto(p, "scan")
    /\ UNCHANGED <<stores, kind, got, own, after, history>>

Scan(p, g) ==
    /\ pc[p] = "scan"
    /\ g \in about[p] /\ got[p][g] = None
    /\ Read(p, g)
    /\ UNCHANGED <<stores, pc, kind, about, own, after, history>>

Scanned(p) == {g \in about[p] : got[p][g] # None}

ScanEnds(p) ==
    /\ pc[p] = "scan"
    /\ Scanned(p) = about[p]
    /\ Goto(p, "bulk")
    /\ UNCHANGED <<stores, kind, about, got, own, after, history>>

\* ListGuests has an order, but which guests make up a batch does not matter.
Batches(p) ==
    {batch \in SUBSET about[p] :
        \/ Cardinality(batch) = BatchSize
        \/ Cardinality(batch) < BatchSize /\ batch = about[p]}

\* One _bulk request.  Its documents are on their way until it is answered;
\* when it fails, any of them may have been indexed, and the rest is not sent.
PutBatch(p) ==
    /\ pc[p] = "bulk"
    /\ IF about[p] = {}
       THEN End(p) /\ UNCHANGED <<index, indexState>>
       ELSE \E batch \in Batches(p) :
                \/ /\ Index(p, batch)
                   /\ indexState' = Repaired(batch)
                   /\ about' = [about EXCEPT ![p] = @ \ batch]
                   /\ UNCHANGED <<pc, kind, got, own, after>>
                \/ /\ \E done \in SUBSET batch : Index(p, done)
                   /\ End(p)
                   /\ UNCHANGED indexState
    /\ UNCHANGED <<file, cache, cacheDoubt>>

-----------------------------------------------------------------------------
(* Writes that touch neither: the event ingest, and handleCreateGuest.      *)

Ingest(g) ==
    /\ g \in Opened /\ file[g] < MaxReviews[g]
    /\ file' = [file EXCEPT ![g] = @ + 1]
    /\ cacheDoubt' = cacheDoubt \cup {g}
    /\ indexState' = Racing({g})
    /\ UNCHANGED <<cache, index, request>>

Register(g) ==
    /\ g \notin Opened
    /\ file' = [file EXCEPT ![g] = 0]
    /\ indexState' = Racing({g})
    /\ UNCHANGED <<cache, index, request, cacheDoubt>>

-----------------------------------------------------------------------------
Call(p) ==
    \/ Get(p) \/ ReadReviews(p) \/ Set(p)
    \/ ReadBefore(p) \/ CreateReview(p) \/ Invalidate(p) \/ ReadAfter(p)
    \/ CreateReviewUnheard(p) \/ CreateGuestUnheard(p)
    \/ CreateGuest(p) \/ Reread(p) \/ Put(p)
    \/ ListGuests(p) \/ ScanEnds(p) \/ PutBatch(p)
    \/ \E g \in Guests : Scan(p, g)

Arrive(p) ==
    \/ \E g \in Guests : BeginShow(p, g) \/ BeginReview(p, g) \/ BeginOpen(p, g)
    \/ BeginReindex(p)

Next ==
    \/ \E p \in Requests : Arrive(p) \/ Call(p) \/ Drop(p)
    \/ \E g \in Guests : Expire(g) \/ Ingest(g) \/ Register(g)

Spec == Init /\ [][Next]_vars

-----------------------------------------------------------------------------
(* Properties.                                                              *)

\* integrations.go:171: outside the time a review takes, the cached score is
\* the score of the reviews in the store, unless a search of that guest
\* overlapped a review, an invalidation failed or was never reached, or the
\* ingest wrote past the cache - and then only until the entry is gone.
CacheInStep ==
    \A g \in Guests \ cacheDoubt :
        Busy(g, {"review"}) = {} /\ cache[g] # None => cache[g] = file[g]

\* integrations.go:181-185: the index is in step with the writes of requests
\* that neither overlap nor fail, and the next reindex that overlaps no write
\* repairs whatever drift there is.
IndexInStep ==
    \A g \in Opened :
        Busy(g, Indexers) = {} /\ indexState[g] = "inStep" => index[g] = file[g]

\* User Story 2: the score reported after a review counts that review, however
\* stale the cache is and whatever else is going on.
ReviewIsCounted ==
    \A p \in Requests : after[p] # None => after[p] >= own[p]
=============================================================================
