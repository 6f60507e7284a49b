# Guest Score in TLA+

Guest Score is a bureau of hotel guests. Members (hotels) open a file on a
guest by scanning an identity document, file a review of each stay, look the
guest up at the next check-in and see a score computed from the reviews. A
review is a claim about a person, so what matters is that a file cannot be
duplicated or emptied, that a stay is counted once, that look-ups leave a trace,
and that nothing acknowledged is lost or applied twice.

This directory holds TLA+ modules translated from the Go source under
`src/backend`, TLC configurations that check them on small instances, and
theorems checked by the TLA+ proof system. `PROJECT.json` maps each definition
to the lines it models.

## 1. Inventory

| Part | State it keeps | Operations | What is hard about it |
|---|---|---|---|
| JSON file store `internal/store/store.go` | maps of guests, reviews, inquiries; two derived indexes (`stayKeys`, `docIndex`); `dirty`; the snapshot file | `CreateGuest`, `AttachDocument`, `CreateReview`, `RecordInquiry`, `LoadSeed`, `Flush`, `Close`, `load` | `Flush` copies under the lock and writes without it; crashes; failed writes; indexes rebuilt at start |
| PostgreSQL store `internal/store/postgres/postgres.go`, `0001_init.sql` | four tables with unique keys, the processed events | the same interface, `MarkEventProcessed` | several replicas, transactions, statements that fail or whose answer is lost |
| Identity and guest handlers `internal/api/identity.go`, `api.go` | none | resolve, attach, open a file | several store calls per request, no transaction around them |
| MQTT ingest `internal/events` | the broker's session, the deduplicator, the running handler | `handle`, `Apply`, `publishAck`, `Close` | a handler registered after the connection is up, redelivery, deduplication before the work, shutdown, failures in the middle |
| Review handlers `api.go` | none | create a review, list, score | store, cache and index are three systems updated in turn |
| Score cache `internal/cache` (Redis) | key → score with a TTL | `Get`, `Set`, `InvalidateGuest` | fill racing with invalidation, failed deletes |
| Search index `internal/search` (Elasticsearch) | one document per guest | `Put`, `PutBatch`, `Search` | concurrent reindexing, stale reads |
| Scoring engine `internal/scoring` | none: pure functions | `Compute`: shrinkage, decay, saturation, tiers, handling | order of lifting and deducting, thresholds shared by several functions, floating point |
| Remote scorer `internal/scoringsvc`, `cmd/scoringd` | connection | `Score`, `Batch`, fallback | deadline across attempts, batch limits, fallback |
| Migrations and seeding `internal/store/postgres/migrate.go`, `LoadSeed` | `schema_migrations`, the advisory lock | `Migrate`, `IsEmpty`, `LoadSeed` | replicas of different builds starting together, a death between two statements, a session that outlives its process |
| Identity documents `internal/domain/identity.go` | none: pure functions | `ValidateDocumentNumber`, `HashDocument` | three check digit algorithms, each off by one from worthless |
| Directory, search and statistics `api.go`, `integrations.go`, `internal/graphqlapi/schema.go` | none | `handleListGuests`, `handleSearch`, `handleStats`, `resolveDirectory`, `resolveSearch` | one read per guest with writes in between, pages cut from a listing that is made anew each time |
| Health probes, configuration, verifiers, front end, property simulator | none that outlives a request | reads, parsing | - |

How the parts meet:

- every handler calls the store through one interface; the store is chosen at
  start (`cmd/server/main.go`);
- a handler that writes a review then invalidates the score key and re-indexes
  the guest; the ingest files reviews without doing either;
- the ingest receives messages on the MQTT client's goroutine, asks the
  deduplicator, calls the same store, and publishes an ack;
- at shutdown the HTTP server is drained, then the closers run in turn: the ingest first
  (unsubscribe, disconnect), the store last. A drain that times out leaves handlers
  running while the closers do.

What makes them correct:

- **stores**: one review per stay (FR-010), records are not deleted (FR-013),
  a document on one file, a restart that finds what was saved, a snapshot file
  that can always be read;
- **identity handlers**: the answer at a desk agrees with the registry, also
  against another desk at another replica; a scan that shows a file has left an
  inquiry of its own on it;
- **ingest**: a message stays with the broker until it was handled, is applied
  once, is acked truthfully, and does not block the others;
- **cache and index**: what is read is at most one TTL old, or is repaired by the
  next reindex;
- **start**: a database is brought from one build's schema to the next one's
  whoever starts when, a replica whose past was edited does not serve, and the
  demonstration data is not left in part;
- **document numbers**: a mistyped number does not open or show another
  person's file;
- **directory**: a row shows its guest's own score, a reader of all pages meets
  every guest once, the statistics add up;
- **scoring**: monotone in the record, disputed reviews do not count, the
  thresholds partition the scale; the remote score is the local one.

`PROJECT.json` lists the hazards behind these sentences one by one, each at its
line, with the property that covers it.

## 2. Modules

| Module | Models | Role |
|---|---|---|
| `FileStore` | `store.go`, seeding and closing in `main.go` | maps, index, flush loop, `Close`, crashes, restarts |
| `FileStoreProofs` | - | inductive invariant and safety theorems of `FileStore` |
| `DocumentRegistry` | what `0001_init.sql` promises | abstract specification: files open with their documents, a document never moves |
| `PostgresDesk` | `postgres.go` (identity part), `identity.go`, `handleCreateGuest` | requests on replicas, statement by statement; implements `DocumentRegistry` |
| `PostgresDeskProofs` | - | inductive invariant, safety theorems and refinement of `PostgresDesk` |
| `EventIngest` | `events.go`, `mqtt.go`, `MarkEventProcessed` | session, redelivery, deduplication, acks, shutdown |
| `EventIngestProofs` | - | inductive invariant and safety theorems of `EventIngest` |
| `ReadModels` | `integrations.go`, `handleCreateReview`, `cache`, `elastic.go` | the score cache and the directory index, filled and updated by concurrent requests |
| `ReadModelsProofs` | - | inductive invariant and safety theorems of `ReadModels` |
| `Scoring` | `scoring.go`, catalogues of `domain.go` | `Compute` as operators, in integers |
| `ScoringProofs` | - | lemmas about sums and the functions of `Scoring` |
| `RemoteScorer` | `client.go`, `server.go`, `convert.go` | calls to a scoring service that comes and goes; growing and ageing records for `Scoring` |
| `RemoteScorerProofs` | - | inductive invariant and safety theorems of `RemoteScorer`, theorems about every score it can show |
| `Boot` | `migrate.go`, `Open`, `IsEmpty`, `LoadSeed`, the start in `main.go` | replicas migrating and seeding one database, dying and starting again |
| `BootProofs` | - | inductive invariant and safety theorems of `Boot` |
| `DocumentNumbers` | `ValidateDocumentNumber` and its checksums | a number and what was typed for it, digit by digit |
| `Directory` | `handleListGuests`, `handleSearch`, `handleStats`, `resolveDirectory`, `resolveSearch` | listings, searches and statistics read by read, on top of `Scoring` |
| `DirectoryProofs` | - | inductive invariant and safety theorems of `Directory` |
| `MCFileStore`, `MCPostgresDesk`, `MCEventIngest`, `MCReadModels`, `MCRemoteScorer`, `MCBoot`, `MCDocumentNumbers`, `MCDirectory` | - | values of the constants for TLC |

Definitions named *Seeded fault* in a comment (`FlushWriteInPlace`,
`MarkUnchecked`, ...) are not part of any specification. Each is a plausible
mistake in the code, kept beside the definition it spoils; with the mistake in
place the property named for it in `PROJECT.json` (`mutants`) is violated.

### FileStore

`guests`, `reviews`, `stayKeys`, `docIndex` and `inquiries` are the maps behind
`s.mu`; `dirty` is `s.dirty`; `disk` is the file at `s.path`; `copy` is the
snapshot `Flush` holds after it has given the lock up, and `pc` says how far it
is; `phase` is the process and the progress of `Close`. `saveFailed` is history:
which flush failed last, with no success since.

An operation that holds the lock from its first line to its last is one action
(`CreateGuest`, `AttachDocument`, `CreateReview`, `RecordInquiry`). `Flush` is
three: `FlushCopy` under the lock, `FlushWriteTmp`, `FlushRename`; `FlushFail`
can take the place of either of the last two. `Close` is `BeginClose` (the
channel), `LoopStops` (the wait group), its own flush (`FlushNothing` when
nothing is dirty) and `Exit`. `Crash` may happen anywhere. `Open` is
`NewFileStore` with `load`, which rebuilds both indexes; `OpenSeeded` is the
same on an empty store followed by `LoadSeed`. Writes stay possible during
`Close`, because a drain that times out leaves handlers running.

Abstracted: a guest is its email and documents, a review its guest and stay;
case-insensitive comparison is built into the values (a member of `Emails` or
`Stays` is a class of equal spellings). Ids a caller passes and ids `nextID`
produces are one set. Reads are left out.

### DocumentRegistry and PostgresDesk

The registry has two variables, the open files and the owner of each document,
and two actions. It is what the schema's comments promise.

`PostgresDesk` runs any number of requests. `guests` and `documents` are tables;
`pc`, `req`, `left` and `guest` are the progress and locals of a request; `reply`
is the answer last given at a desk and the file it showed (`shown`). `inquiry` is
history: the rows a request has sent to the table `inquiries`, one entry each,
and whether the insert went through. These handlers never read that table, so
which rows are whose is all that counts of it. The statements of `ResolveByDocument`, `CreateGuest`, `AttachDocument` and
`RecordInquiry` are one action each. `CreateGuest` is a transaction: its guest
row and its inserted documents (`Held`) are invisible until `Commit`; a
statement that needs a unique key held by another open transaction has no enabled
action until that one ends, which is PostgreSQL's wait; one that meets a
committed row fails. Two transactions may wait for each other; the server's
deadlock detection or the request's five seconds then end one (`Abort`), which
is why a wait is never for ever here either. Every read may fail (`ReadFails` is a miss, because
`ResolveByDocument` returns no error), every commit may go unheard
(`CommitUnheard`), every inquiry may fail (`RecordInquiry`). A file is shown
(`Show`) after the inquiry; an attachment reads the file once more, drops the
error of that read, and shows it without an inquiry (`ShowAttached`).

The refinement mapping reads the two abstract variables off the committed
tables: files are the rows of `guests`, the owner of a document is the guest of
its row in `identity_documents`. `Commit` and `CommitUnheard` are `OpenFile`,
`AttachInsert` is `Attach`, every other step is a stutter.

### EventIngest

What kind a message is - a check-in, a stay record, one whose review fails its
validation (`RefuseReview`), one that is malformed - is chosen at the start
(`kindOf`). `queue` and `subscribed` are the broker's (external) session.
`connected`, `onConnect` and `routed` are the client: the connection comes up
first (`Start`, `Reconnect`), then `OnConnect` registers the handler and asks for
the subscription (`Subscribe`), each of which may not come about and is not tried
again. `routed` lives as long as the process, `subscribed` as long as the session.
The first process may meet a session with a subscription, as every restarted one
does. A message that comes while there is no handler is not acked and waits in
`unheard` for the next connection (`Ignore`);
`pc`, `cur`, `outcome` and `live` are `handle` and `Apply` for the message at
hand: `Mark`, `Resolve`, `RecordCheckIn`, `RefuseReview` or `CreateReview`,
`PublishAck`, `Return`. `backend` is chosen once: on `"postgres"` a call is durable and may
fail (`MarkFails`, `ResolveFails`, `CreateReviewFails`, with or without having
been carried out); on `"file"` it cannot fail, but what is not in `saved` dies
with the process, and so does the in-memory deduplicator, which also forgets
old entries when it takes a new one. `Close`, `Exit`, `Crash`, `LoseConnection`
happen anywhere, at most `MaxFaults` times together. `sent`, `missed` and
`handled` are history.

### ReadModels

`file`, `cache` and `index` hold, for each guest, the number of reviews in the
store, in the cached score and in the indexed document: the only thing that
makes either outdated here. `pc`, `kind`, `about` and `got` are the progress of
a request and what it has read; `own` and `after` are the version its review
made and the version its answer reports. One action is one call to the store,
the cache or the index:

- *show* (`handleSearch`): `Get`, and on a miss `ReadReviews` and `Set`
  (`scoreCached`);
- *review* (`handleCreateReview`): `ReadBefore`, `CreateReview`, `Invalidate`,
  `ReadAfter`, then `Reread` and `Put` (`reindexGuest`);
- *open* (`handleResolve` on a new document): `CreateGuest`, `Reread`, `Put`;
- *reindex* (`handleReindex`): `ListGuests`, `Scan` guest by guest, `PutBatch`
  batch by batch.

A cache or index call may fail, a store call may fail with or without its effect
(`CreateReviewUnheard`, `CreateGuestUnheard`), part of a batch may be refused
although `_bulk` answered 200, and a request may end at any point (`Drop`).
`Ingest` and `Register` write past both read models, as the code does. `Expire`
is the TTL. `cacheDoubt` and `indexState` are history: which guests have had
overlapping or failed requests since their entry was last known good. Prefixes that are deleted
but never set by any code are left out.

### Scoring and RemoteScorer

`Scoring` follows `Compute` function by function under the names of the code.
Points are in tenths, the precision a score is shown with, rounded down where
the code rounds once at the end; quality and weights are in thousandths, ages
in whole days. `Halving` stands for the exponential: a constant of which the
module assumes only that it is one at age zero, falls, and stays positive; TLC gets
one that is exact at whole half-lives and linear between. The five ratings
enter as their weighted sum: single dimensions only matter to the explanation,
which is left out with the factors and the headline.

In `RemoteScorer`, `file` holds each guest's reviews with their days, `today`
moves through `Calendar`, `service` is the version of the model the scoring
service runs, or none while it is down (`Deploy`). A call (`pc`, `op`, `items`,
`at`, `tries`, `reply`, `answer`) is begun with the reviews its handler read;
the service answers (`Serve`, through the conversions of `convert.go`) or
refuses a batch that is too large (`Refuse`); a try may find it gone
(`Unavailable`), which gRPC repeats up to `MaxAttempts`; one deadline covers all
tries (`Deadline`); `Receive` falls back to the API's own model if the answer
has the wrong length. A score on its way is a record of the reviews, the day
and the model it is computed from, since `Compute` is a function of these: this
tells apart every mix-up of guests, days or models. The properties of
`Compute` are evaluated on every record the files grow into and every day of
the calendar (`Shown`).

### Boot

`schema` is what has been done to the database, file by file; `ledger` is the
table `schema_migrations`; `rows` are guests and reviews; `lock` is the
advisory lock. A replica (`pc`, `build`, `migrates`, `applied`, `todo`,
`planted`) goes through `Open` and `Migrate` statement by statement - `TakeLock`,
`ReadApplied`, then for every file `NextFile` or `Refuse`, `Apply`, `Record`,
`Commit` - and `Unlock`, then through `IsEmpty` and `LoadSeed`, then serves. A
build is a sequence of file contents, of which a later build may have edited
one. Each start picks a build and whether it migrates (`GS_MIGRATE`), so
releases are rolled forward and back and started again. `LoadSeed` is one transaction: rows
planted but not committed hold their keys (`Held`), a second seeding replica
waits for them, `ON CONFLICT (id)` passes over a row whose id is there, and a row
whose *other* unique key is taken makes the seed fail (`SeedClash`), which `LoadSeed`
logs. A desk (`Register`) writes rows of its own under ids of its own (`Id`), since
`handleCreateGuest` and `handleCreateReview` take the id from the body; they may be
the ids of the demonstration data.

PostgreSQL is external. `Die` may come between any two statements; then
PostgreSQL still has the session, its lock (`Orphan`) and perhaps a COMMIT that
was sent (`inflight`), which it may carry out (`OrphanCommits`) before it notices
(`OrphanEnds`). This is the one way in which a dead replica goes on acting.

### DocumentNumbers

The genuine number and what the desk typed go through the loop of the check
together, one digit a step, with a sum each; `slip` says what was typed wrong
so far, at most one thing. `Passes` is the decision at the end. Because the
loop's state is its sum, the state space is the set of all numbers folded by
what the algorithm remembers of them: every Aadhaar, Emirates ID and NRIC number
and every slip in it is looked at, in 22 000 states.

### Directory

`database`, `open`, `file` and `today` are the store, which other requests
change between any two reads. One member's request (`pc`, `query`, `listed`,
`read`, ...) is `ListGuests`, for statistics `AllReviews`, then
`ReviewsForGuest` guest by guest, then `Finish` or `FinishStats`, which filter,
score, sort and cut what was read. `ResolveStays` is the second read a GraphQL
answer makes for the stays of its rows. `NextPage` asks for the following page,
which lists, scores and sorts anew; `book` is what the member has seen.
`ListGuests` returns namesakes in the order of their ids on PostgreSQL and in
any order from the JSON store, whose map is sorted by name alone. `Listings` and
`Orders` are what a listing and a stable sort may return. Scores are
`Compute` of `Scoring`, evaluated, so tiers, incident filter and statistics
meet real scores. `began` and `still` are history.

## 3. Runs

| Run | Asks | Result |
|---|---|---|
| `file_store` | do maps, indexes and file stay consistent, does a stored review reach the file? | holds |
| `file_store_close` | does `Close` leave the file with what the memory held? | violated |
| `postgres_desk` | do concurrent desks implement the registry, are answers true and look-ups recorded? | holds |
| `event_ingest` | are events kept until handled, applied once, acked truthfully, and none blocked? | holds |
| `event_ingest_retry` | is a message whose handling failed delivered again? | violated |
| `read_models` | are cache and index in step with the store when nothing overlapped or failed, and does a review's answer count it? | holds |
| `scoring` | is a score right whatever the service does, and does `Compute` hang together? | holds |
| `scoring_lift` | is a record without incidents shown the total saturated once? | violated |
| `boot` | do replicas of several builds that start together leave one database with one schema and whole demonstration data, and all get to serve or stop? | holds |
| `documents` | does a mistyped document number pass? | holds: it does not |
| `directory` | are rows true, pages complete and statistics right while the store changes? | holds |
| `directory_timeline` | does the timeline show the last twelve months? | violated |

**Properties that hold.** In `file_store`: `OneReviewPerStay` (in memory, in
the copy under way and on disk; the guard is a set of keys that `load` has to
rebuild), `DiskIsRestorable` (never torn, no review without its guest, although
writes go on between copy and rename), `BehindIsFlagged` (a write during a flush
must leave `dirty` set), `IndexFindsHolder`, `DiskOnlyGrows` (across processes),
and `StoredReviewReachesDisk`. In `postgres_desk`: `OneFilePerDocument`,
`FilesAreWhole`, `RepliesAreTrue`, `LookupsAreRecorded` (request by request: each
scan that shows a file has left its own inquiry on that file, or failed to insert
that one) and the refinement `RegistrySpec`. In `event_ingest`: `QueuedUntilHandled`, `AppliedAtMostOnce`
(PostgreSQL; the map of the JSON set-up forgets, as its comment says),
`AcksAreTrue` (on PostgreSQL through every fault, on the JSON store without
one) and `EventsAreHandled` (no message blocks another; the one that met no
handler on a connection that lasts is excepted, see below). In `read_models`: `CacheInStep` and `IndexInStep`,
which say exactly when an entry may be trusted and that a later request repairs
the rest, and `ReviewIsCounted`. In `scoring`: `AnswersAreRight` (each guest of
a page gets the score of its own reviews, all on one day and by one model),
`CallsEnd`, `StandingIsConsistent` (tier, next tier, gap, flag and handling
agree), `IncidentsLowerTheScore` (however many commendations),
`IncidentsNeverHelp` (however old the incident, also at the bottom of the scale)
and `DisputedAreLeftOut`. In `boot`: `LedgerIsSchema` (a file and its record are
there together, once, in order, whoever dies in between), `NoRaceIsLost` (no
replica meets a duplicate object or a duplicate record), `ServesItsSchema`
(after rolling forward, back or an edited file), `SeedIsWhole` (all or nothing, but
for rows whose ids desks took first) and `BootsEnd`.
In `documents`: `SlipIsCaught`, with Luhn's blind spot for a 0 next to a 9 as its
one exception. In `directory`: `RowsAreTrue` (a row's score is that of its own
guest's reviews at one moment of the request, and the stays shown with it leave
none of them out), `PagesTile` (page after page shows each guest wanted once, in
order, if nothing changes) and `StatsAreRight` (the figures add up however the
store moves, and are the store's if it does not).

**Where code and documents disagree.** Each of these runs has a short
counterexample.

- `Flush` clears `dirty` at the copy and does not set it again when the write
  fails, so the final flush of `Close` finds nothing to do (`store.go:172`).
- `handle` returns normally after a transient failure and the client then acks
  the message, so nothing is redelivered (`mqtt.go:151`).
- The composite is saturated twice even when nothing is deducted
  (`scoring.go:384`): a total of 1146 is published as about 960 instead of 991.5,
  and no score passes 963.2, while `README.md:153` has the scale approach its
  maximum.
- `handleStats` steps through the months with `AddDate` from today's date, and
  a day a month does not have becomes one of the next month. On 31 May the
  timeline runs from July of last year to the coming June (`api.go:559`), where
  the comment above it promises the last twelve months.

Read while modelling, and visible in the models, but without a run of their own:

- The JSON store's `CreateGuest` repoints the index without asking whether a
  document is taken; two desks that both missed put one document on two files
  (`store.go:250`), where `PLATFORM.md:37-39` says that the map behind the mutex
  enforces one. PostgreSQL's unique key does. `IndexFindsHolder` asks only that the
  index point at a holder.
- `Ingest.Close` unsubscribes, which ends the session's subscription, so what is
  sent until the next start is not queued (`mqtt.go:190`), although
  `mqtt.go:65-68` wants it to be. `QueuedUntilHandled` is about messages that met a subscription.
- When `Subscribe` fails the error is logged and nothing tries again
  (`mqtt.go:84-87`): the first time, the service is up and connected without a
  handler, and what the broker has for it waits until the connection is lost. So
  does a message of a resumed session that arrives before `OnConnect` has registered
  the handler. The comments at `mqtt.go:65-68` and `mqtt.go:80-83` promise more.
  Nothing is lost by it (`QueuedUntilHandled`), and on a reconnect of a process that
  has had its handler registered a failed `Subscribe` does no harm, since the route and
  the session's subscription are still there. `EventsAreHandled` excepts exactly the messages
  that met no handler, for as long as that connection lasts.
- `handleAttachDocument` answers with the guest and score and records no inquiry
  (`identity.go:299-308`), and neither do the reads by id or the directory, although
  `store.go:74` has every lookup recorded. `LookupsAreRecorded` is about scans.
  The same lines drop the error of the second `GetGuest`: the document is
  attached, and the answer may show a guest without a name.
- An event is marked processed before it is worked on; if the work did not
  happen its redelivery is answered "already applied" (`events.go:334`).
- A search that read a guest's reviews before a review was filed caches the old
  score after the invalidation, for up to a minute (`integrations.go:157`); the
  comment at `api.go:409` counts on the fresh one being cached. `CacheInStep`
  excepts just these overlaps.
- Two handlers match differently: `MatchesInProcess` says it was extracted so
  that they agree (`search.go:162`) and also looks at the global id, but
  `handleListGuests` has a copy that does not (`api.go:216`). `Matches` has both.
- `resolveSearch` stops at its limit and reports what it has as the total
  (`schema.go:597`), and `handleSearch` counts after cutting
  (`integrations.go:306`), so both totals are at most the limit.
- The JSON store's `ListGuests` sorts a map by name alone, so namesakes may
  change places from page to page and one of them be missed (`store.go:216`);
  `PagesTile` excepts them.
- A desk at the first replica to serve may open a file between another
  replica's `IsEmpty` and its `LoadSeed`, which then lands on a database that is
  not empty, or fails as a whole (`postgres.go:697`). If that file has the id of one of the
  data (`"id": "g_001"` in the body, `postgres.go:323`), the seed passes over its row,
  commits the rest - the reviews of that guest among it, which then are about the
  desk's - and logs the data as seeded; later starts find a database that is not empty.
  `SeedIsWhole` is what remains true.
- The model version a score carries on the wire is dropped by `ScoreFromProto`
  and the GraphQL field answers a constant, so the audit of `client.go:73-76`
  cannot tell a fallback score apart; and a batch is checked for its length
  only, although the comment at `client.go:200` speaks of reordered ones too.

**Bounds.**

- `MCFileStore`: two guests, two emails, one document, two review ids, two
  stays, one inquiry and a seed of one guest with a review. Two guests are what a document held twice, and an index
  pointing at the wrong one, need. Two ids and two stays let an id be reused
  and a stay be met again after a restart. The number of flushes, crashes and
  restarts is unbounded. About 770 000 states. The inquiry log only has to grow
  past what is on disk: one entry suffices.
- `MCPostgresDesk`: two requests at a time, two file ids, two documents, one
  typed address; any number of requests one after the other. Two transactions
  are what a race on a key needs, two documents what an incomplete file or a
  mutual wait needs. Symmetric in requests, ids and documents, which are only
  compared for equality. About 74 000 states.
- `MCEventIngest`: two messages about one stay: a record of it by global id,
  published once, and one of any kind, published up to twice; redelivery comes from
  lost connections and crashes, of which there is one (`MaxFaults = 1`), plus any
  number of failing statements and a `Subscribe` that fails at every connection. One
  fault is enough for a redelivery, a reconnect or a shutdown, and a session that is
  resumed is there from the start; the message behind the failing one shows what it does to
  others. About 880 000 states. Deadlock is not checked here, since the run ends when
  all messages and faults are spent.
- `MCReadModels`: two requests at a time, any number one after the other; two
  guests, one of whom is reviewed up to twice; batches of one document. Two requests
  are what a race is, two reviews what an outdated entry after a repaired one
  needs, two guests what a partly sent reindex needs. About 1 070 000 states.
- `MCRemoteScorer`: one call at a time, since calls share nothing but the
  service; a guest with up to two of six sample stays listed between two
  without any, so that a score on the wrong row shows; batches of up to two, so
  that a page of three is refused; two tries; days 0 and 126, and reviews
  dated 240 days back or a day ahead, so that one is 240 days old on the first
  and 366 on the second, past both thresholds of `handlingFor`. The samples reach
  every tier, VIP treatment, both saturated ends, and totals above the scale with
  an incident. About 130 000 states.
- `MCBoot`: two replicas, each started any number of times; builds with the
  files `a`, with `a b b`, and with an edited `A c`; two rows of seed; a desk row
  with an email of the second, and one with the id of the first. Two replicas are a race; the longer build has a
  file to stop before, between and after, with equal contents so that only names
  tell files apart; the edited one is refused by a database of the others and the
  other way round. About 70 000 states.
- `MCDocumentNumbers`: no bound: all numbers, one slip each.
  The sums are places in the tables, so TLC stops at one that is out of range and
  there is no type invariant beside `SlipIsCaught`.
- `MCDirectory`: three guests, two of them namesakes, in pages of two, so that the
  cut falls between the two and the last page is not full; up to one review each,
  upwards, downwards (with an incident, below the opening score) or disputed;
  28 February and 31 May, so that ordinary and overflowing months are met;
  fourteen queries with every sort and filter. Years have 365 days. About
  1 000 000 states.

**Fairness.** `FileStore`: the ticker keeps firing and a flush once started
runs on (`FlushProgress`), and `Close` runs to its end (`CloseProgress`).
Neither obliges a client to write or a disk to fail; the property itself allows
for a failed flush or the end of the process. `EventIngest`: the client's
routing goroutine goes on handling messages while the process is up, whatever
its calls return, `SetAutoReconnect` brings a lost connection back, and `Subscribe`
returns, with success or an error: paho gives a request up when its connection goes.
Nothing restarts the process. `PostgresDesk` has no liveness property: a
request may always time out. `RemoteScorer`: only that a deadline passes,
whatever the service and gRPC do (`context.WithTimeout`). `ReadModels` has none:
its requests may stop anywhere. `Boot`: a replica's statements are answered,
strongly fair because PostgreSQL queues those who wait for a lock or a key, so a
waiting replica gets its turn however often others come and go; and PostgreSQL ends
a session whose client is gone. Nothing obliges a replica to die, to fail or
to start. `Directory` and `DocumentNumbers` have no liveness property.

## 4. Proofs

`FileStoreProofs` proves, for every set of guests, documents, reviews and stays
and any seed that satisfies the named assumptions:

| Theorem | Statement |
|---|---|
| `Invariance` | the inductive invariant holds in every reachable state |
| `TypeCorrect` | the type invariant |
| `StayReviewedOnce` | `OneReviewPerStay`, FR-010 across crashes and restarts |
| `CrashSafe` | `DiskIsRestorable` |
| `BehindFlagged` | `BehindIsFlagged` |
| `DocumentsAreFound` | `IndexFindsHolder` |
| `NothingLeavesTheDisk` | `DiskOnlyGrows` |

The properties are not inductive by themselves. `CreateReview` looks at
`stayKeys`, so `OneReviewPerStay` needs `KeysCoverReviews`: the stay of every
stored review is among the keys. That holds after `load` because it rebuilds
the keys, and after a review was replaced by one with its id because keys are
never removed. What is in memory comes from a snapshot and goes to one, so
soundness (typed, one review per stay, every review with its guest) is claimed
of memory, copy and disk together. `BehindIsFlagged` needs `FlushTracksMemory`: while a flush runs
and nothing is dirty, the copy is the memory; when none runs, nothing is dirty and
none has failed, the file is. The index is typed because a nonempty
set of ids bounded by `MaxGuestId` has a greatest element (`GreatestId`, by
well-founded induction from the library). `IndexFindsHolder` is inductive beside
the invariant: no operation takes a document from a file, and `load` points the
index at the greatest of its holders. `DiskOnlyGrows` compares the file before
and after a rename; it needs `DiskCopyMemory`, that the copy being written was
taken from a memory that had everything the file has.

The assumptions are on constants only: ids are natural numbers below a bound
(strings in the code, of which a process has finitely many; only their order
matters), the marks for absent entries and files are none of the values, the
seed is a sound snapshot.

`PostgresDeskProofs` proves, for any number of concurrent desks, files,
documents and addresses:

| Theorem | Statement |
|---|---|
| `Invariance` | the inductive invariant |
| `TypeCorrect` | the type invariant |
| `DocumentsOnOneFile` | `OneFilePerDocument` |
| `WholeFiles` | `FilesAreWhole` |
| `TrueReplies` | `RepliesAreTrue`: every answer given at a desk stays true |
| `RecordedLookups` | `LookupsAreRecorded` |
| `Refinement` | `RegistrySpec`: the desks implement `DocumentRegistry` |
| `DocumentsNeverMove` | no committed document ever changes its file |

A request acts on what an earlier statement told it, so the invariant has, for
every desk, what its request asks for at this statement (`Shape`) and what it
has learned and relies on (`Learned`): a document it found is still on that file, a
file it is about to extend exists, no committed row stands in the way of
the rows its open transaction holds, and a request that is about to show what it
scanned has one inquiry, on that file (`Recorded`). For every two desks it has `Apart`: open
transactions hold no key in common. A commit therefore clashes with nothing
committed, and leaves every other open transaction what it relies on
(`DeskStep`). Each action has a lemma of its own; the tables only grow, which is
why answers stay true (`ToldGrows`). The refinement maps the owner of a document by
`CHOOSE`, unique by `OneFilePerDocument`. Assumed of the constants: the marks
for absent values are none of the values, and documents and addresses are
different things.

`BootProofs` proves, for any replicas, builds and demonstration data:

| Theorem | Statement |
|---|---|
| `Invariance` | the inductive invariant |
| `TypeCorrect` | the type invariant |
| `LedgerTellsSchema` | `LedgerIsSchema`, and that the ledger is a prefix of some build |
| `NobodyComesSecond` | `NoRaceIsLost` |
| `ServedSchema` | `ServesItsSchema` |
| `SeedWhole` | `SeedIsWhole` |

That a COMMIT appends the file which comes next needs three more facts: a
replica between taking the lock and giving it up holds it (`LockHeld`); what it
has read of the ledger is the ledger but for the files it has applied since, all
of which agree with its build (`Informed`); and a COMMIT left behind by a dead
process is of the file that comes next, with the lock still on its session
(`LeftBehind`). From these, the file at hand is number `Len(schema) + 1`
(`NextInPlace`), and a commit, by a replica or left behind, keeps every earlier
entry (`CommittedKeeps`), which is why a serving replica stays served. The
assumptions on constants: builds are sequences of contents, the marks are none of
the values, no two rows of the seed share a key (`seed_test.go`), and a desk's row is not
a row of the seed, whose keys it may have. `SeedWhole` looks at what a seed
that commits has passed over: the row with that id cannot be another one of the
seed, so a desk wrote it, and rows are never deleted.

`EventIngestProofs` proves, for any events, guests and stays and any number of
deliveries and faults:

| Theorem | Statement |
|---|---|
| `Invariance` | the inductive invariant |
| `TypeCorrect` | the type invariant |
| `NothingIsDropped` | `QueuedUntilHandled` |
| `AppliedOnce` | `AppliedAtMostOnce` |
| `TrueAcks` | `AcksAreTrue` |

A running handler has a message, and the message a living connection brought is
still first in the queue (`HandlerKnows`), so what is taken off at its return is
what was handled. What met no handler goes to the side and comes back in front of the
queue when the connection ends (`BackInFront`), so the broker still has the
same messages. On PostgreSQL an event is marked before it is applied and only
a marked one was applied (`MarkedBeforeApplied`). An ack is published one step
after its outcome is known, so the outcome has to be as true as the acks
(`OutcomeIsTrue`); on the JSON store this ends with the first fault, and the
process goes away only through one (`FaultsTakeItDown`). Assumed: the marks for
nothing are none of the events and outcomes.

`ReadModelsProofs` proves, for any number of requests, guests and reviews and any
size of batch:

| Theorem | Statement |
|---|---|
| `Invariance` | the inductive invariant |
| `TypeCorrect` | the type invariant |
| `CacheFollowsStore` | `CacheInStep` |
| `IndexFollowsStore` | `IndexInStep` |
| `AnswersCountTheReview` | `ReviewIsCounted` |

`Shape` says where each request is, `Counts` that the version a review made is not
ahead of the file nor of the answer. For a guest without doubt, a score on its way
to the cache is current (`FillsAreFresh`), and an outdated one is about to be
invalidated (`StaleIsInvalidated`). For a guest without racing index writers there is
one writer (`WritersAreAlone`), what it has read is current (`DocumentsAreFresh`),
and an outdated document is about to be written (`StaleIsIndexed`). Each action has
a lemma for the guest it is about and one for all others.

`ScoringProofs` has no theorem of a specification: it holds the lemmas about
`Compute` on which the next two stand. The sums of the model are
`SumFunction`, which is recursive over subsets; that such a function exists and
what it comes to is shown without an induction theorem: the
numbers are the only set of numbers with zero and every successor (`AllNumbers`),
and a collection of subsets with the empty one that is closed under adding an
element has the whole set (`SumExists`, `BuiltUp`). Any value can be taken out of
a sum (`TakeOut`), so two sums that differ in one value differ as it does
(`SwapOne`), and a sequence's sum is its head and the sum of its tail
(`SumOfTail`). The tiers partition the scale (`TierForScore`, `NextTier`,
`FloorOf`), `saturate` maps every total into it and keeps
their order (`SaturateTyped`, `SaturateKeepsOrder`), the gap ends on
the floor of the next tier (`GapReachesNext`), `escalate` and the flag are the same
threshold (`EscalatedIsFlagged`).

`RemoteScorerProofs` proves, for any callers, guests, calendar, records, versions of
the model, tries and batch limits:

| Theorem | Statement |
|---|---|
| `Invariance` | the inductive invariant |
| `TypeCorrect` | the type invariant |
| `AnswersOfOneModel` | `AnswersAreRight` |
| `DisputesLeaveNoTrace` | `DisputedAreLeftOut` |
| `ScoresAreOnTheScale` | every composite lies on the scale |
| `StandingsAgree` | `StandingIsConsistent` |
| `NoIncidentHelps` | `IncidentsNeverHelp` |
| `IncidentsCost` | `IncidentsLowerTheScore` |

A reply is the whole answer of one model, or too short (`ReplyIsWholeOrShort`), and
a review comes out of the wire as it went in (`RoundTrip`); `Receive` looks at the
length, which therefore suffices. The last four theorems have a hypothesis,
`HalvingIsFraction`: 2^(-x) is between zero and one for every age and half-life.
The last two have another, `HalvingFalls`: it is no greater for a greater age.
The module itself assumes this, and that the function falls, up to `Span` only, because
TLC evaluates assumptions and cannot enumerate all ages. That tier, flag, gap and
handling agree does not depend on how fast a record ages, nor does it that
incidents never help. For that, a guest reviews a stay once (`StaysDiffer`), so a record without one
incident is the same set with one review in the place of another
(`FileGetsLighter`); base, bonus and tenure stay (`RelievedIsRawTheSame`), the
penalty shrinks by exactly what the incident cost (`RelievedCosts`,
`RelievedTotals`), and saturation keeps the order.

That an incident does lower the score needs the slope as well: a function that is
flat between two ages lets a penalty round away. `IncidentsCost` therefore assumes
`HalvingIsSteep`, which has two values of the exponential and one slope, and which
2^(-x) rounded to thousandths satisfies: 0.24 is left after a year at a half-life of
180 days, 0.1 after a thousand tenths of a point at the 693 tenths of the saturation,
and wherever 0.1 is left there, thirty tenths further it is at least a thousandth
less. Thirty tenths are what matters because the cheapest incident of the
last year costs that much (`RecentCosts`: 25 points, times 0.5 for a minor one,
times 0.24, are just 3), and thirty tenths before saturation are a tenth after
it (`SaturateTells`). The bound of ten points in the property is where 0.1 is left.

`DirectoryProofs` proves, for any guests, queries, page size and calendar:

| Theorem | Statement |
|---|---|
| `Invariance` | the inductive invariant |
| `TypeCorrect` | the type invariant |
| `RowsTrue` | `RowsAreTrue` |
| `PagesInvariance` | the inductive invariant of a member who turns pages, `PInv` |
| `PagesTileTheStore` | `PagesTile` |
| `StatsInvariance` | the inductive invariant of the statistics, `StatsInv` |
| `StatisticsAreRight` | `StatsAreRight` |

What is listed is asked for and listed once (`ListedAreAsked`); what has been read
of a guest lies between its record as the request began and its record as it is,
and is dated within the request (`ReadAreSeen`). Both survive whatever the store
does, since it only grows (`GrownStore`, one lemma for all three of its steps). A
row is then one entry of what was read, scored as a whole: the batch of
`resolveDirectory` keeps guests and scores together by their place
(`TableOfRead`), filtering and sorting choose each entry at most once
(`OrderOfTable`), cutting keeps a piece (`WindowIsCut`), and a count of incidents
above zero comes from one that counts (`IncidentsAreCounted`). No property of the
exponential is needed up to here; the theorems about pages and statistics have the
hypothesis `HalvingIsFraction`, because rows are sorted by scores and counted by
tiers, which must be on the scale for that.

`PagesTile` is about several requests one after the other. `PInv` ties them
together: while nothing changes, a request has read the store as it is
(`CalmRead`); what was shown is the beginning of an order the rows have (`PageInv`);
and whatever the next request lists and sorts, what is behind the member
is the beginning of that order too, as long as its offset (`NextInv`). The last
holds for *all* listings and orders, since the request has not chosen its
own yet, so the proof shows there is only one: two orders of one table agree where
the sort is strict, and the stable sort leaves equals as the store listed them,
which PostgreSQL does by name and id and the JSON store by name, unique where no
two guests share one. `Certain` in the invariant is that condition.

`StatsInv` says that everybody on file as the request began is listed, once, and that
the answer is `Statistics` of what was read. The rest is counting: a count by
place in the listing is one by guest (`CountByPlace`, `SumByPlace`), the tiers take
the rated apart (`PartsAddUp`, `TierIsOne`), and leaving out those with none changes
no sum (`ZerosLeftOut`). How many are rated lies between the store as the request
began and as it is, since who is rated stays so (`CountedOnce`,
`RatedBetween`). For the timeline, stepping by months keeps the day
through day 28 (`AddMonthsKeepsDay`), so the twelve steps meet each month once
(`TimelineMonths`).

Only model-checked:

- liveness, for which the prover has no rules here: `StoredReviewReachesDisk`,
  `EventsAreHandled`, `CallsEnd`, `BootsEnd`;
- `DocumentNumbers`: its one constant is a set of at most three names, so the
  run, which takes all three and every number, is already a proof by cases.

Nothing is proved by the library's induction theorems, and no recursive operator
is declared in the modules proved about.

## 5. Not modelled

- Pure input and output: HTTP decoding, formatting, logging, metrics, the query
  language of the search index, the GraphQL resolvers of single objects, the
  front end, whose state is that of a browser tab.
- Floating point in the scoring engine: the exponential is approximated, and
  rounding differs from the code's in the last tenth of a point.
- The explanation of a score: dimensions, factors, headline.
- Hashing: a hashed document is a model value. Documents that only have a
  pattern pass it mistyped or not, so there is nothing to check of them.
- Averages, nationalities and `handleListReviews` in the directory.
- `-reseed`, which deletes the file before the store is opened.
- A migration session that dies while it waits for the lock: it only delays
  those behind it. Health probes, configuration, verifiers, the simulator: they keep no state the others depend on.

## 6. Plan

Done: the stores, identity desks, ingest, read models, scoring, the remote
scorer, migrations and seeding, document numbers and the directory, with the
proofs of section 4. What is left: `AttachDocument` and the document fields of the
index in `ReadModels`.
