--------------------------------- MODULE Boot ---------------------------------
(***************************************************************************)
(* Replicas of the service starting against one PostgreSQL database:       *)
(* Migrate brings the schema up to the replica's build, then an empty      *)
(* database is seeded, then the replica serves.                            *)
(*                                                                         *)
(* The server is external: sessions, an advisory lock that a session holds *)
(* until it gives it up or ends, transactions, unique keys.  A replica may *)
(* die between any two statements; its session may outlive it, with a      *)
(* COMMIT already on its way.  A session that dies while it waits for the  *)
(* lock is left out: it only delays the others.  A ping that fails leaves  *)
(* the replica down.                                                       *)
(***************************************************************************)
EXTENDS Integers, Sequences, FiniteSets

CONSTANTS
    Replicas,
    Contents,   \* of migration files
    Builds,     \* what a replica may be built with: its files in order
    Seeds,      \* the rows of the demonstration data, in the order inserted
    Desk,       \* rows a serving replica may insert
    Id,         \* row -> its primary key; a caller may choose it
    UniqueKey,  \* row -> its second unique key (email; host and stay)
    Nobody, Orphan, None

SeedRows == {Seeds[i] : i \in DOMAIN Seeds}

\* Files are named by their place in the order: a build has the files of its
\* past, which may have been edited, and may have more, which sort last.
ASSUME BootAssumption ==
    /\ Builds # {} /\ Builds \subseteq Seq(Contents)
    /\ Seeds \in Seq(SeedRows)
    /\ Nobody \notin Replicas /\ Orphan \notin Replicas /\ Nobody # Orphan
    /\ None \notin Nat \X Contents

\* The demonstration data does not conflict with itself (seed_test.go).  Desks
\* write rows of their own, with the ids and second keys they like.
ASSUME SeedAssumption ==
    /\ \A s, t \in SeedRows : s # t => Id[s] # Id[t] /\ UniqueKey[s] # UniqueKey[t]
    /\ SeedRows \cap Desk = {}

VARIABLES
    \* the database
    schema,     \* the changes carried out: a sequence of <<name, contents>>
    ledger,     \* schema_migrations: name -> contents it was applied with
    rows,       \* committed rows of guests and reviews
    lock,       \* holder of the advisory lock: replica, Orphan or Nobody
    inflight,   \* the file of a COMMIT sent by a session without a process
    \* the replicas
    pc,
    build,
    migrates,   \* GS_MIGRATE
    applied,    \* what it read from schema_migrations
    todo,       \* the file it is at
    planted     \* how many rows its seeding transaction has been through

database == <<schema, ledger, rows, lock, inflight>>
vars == <<database, pc, build, migrates, applied, todo, planted>>

Names(s) == {s[i][1] : i \in DOMAIN s}

\* Between taking the migration lock and giving it up.
Migrating == {"read", "files", "apply", "record", "commit", "unlock"}

Init ==
    /\ schema = <<>> /\ ledger = <<>> /\ rows = {}
    /\ lock = Nobody /\ inflight = None
    /\ pc = [r \in Replicas |-> "down"]
    /\ build \in [Replicas -> Builds]
    /\ migrates = [r \in Replicas |-> TRUE]
    /\ applied = [r \in Replicas |-> <<>>]
    /\ todo = [r \in Replicas |-> 1]
    /\ planted = [r \in Replicas |-> 0]

Goto(r, l) == pc' = [pc EXCEPT ![r] = l]

\* Migrate has returned.
Migrated(r, l) ==
    /\ Goto(r, l)
    /\ applied' = [applied EXCEPT ![r] = <<>>]
    /\ todo' = [todo EXCEPT ![r] = 1]

\* run: a build starts with its configuration; Open has connected.
Start(r) ==
    /\ pc[r] = "down"
    /\ \E b \in Builds, m \in BOOLEAN :
           /\ build' = [build EXCEPT ![r] = b]
           /\ migrates' = [migrates EXCEPT ![r] = m]
           /\ Goto(r, IF m /\ DOMAIN b # {} THEN "lock" ELSE "check")
    /\ UNCHANGED <<database, applied, todo, planted>>

-----------------------------------------------------------------------------
(* Migrate.  Statements on one dedicated session.                           *)

\* Seeded fault: no lock.
TakeNoLock(r) ==
    /\ pc[r] = "lock"
    /\ lock' = r
    /\ Goto(r, "read")
    /\ UNCHANGED <<schema, ledger, rows, inflight, build, migrates, applied, todo, planted>>

TakeLock(r) ==
    /\ pc[r] = "lock"
    /\ lock = Nobody
    /\ lock' = r
    /\ Goto(r, "read")
    /\ UNCHANGED <<schema, ledger, rows, inflight, build, migrates, applied, todo, planted>>

\* After CREATE TABLE IF NOT EXISTS schema_migrations, which may have no rows.
ReadApplied(r) ==
    /\ pc[r] = "read"
    /\ applied' = [applied EXCEPT ![r] = ledger]
    /\ Goto(r, "files")
    /\ UNCHANGED <<database, build, migrates, todo, planted>>

\* The deferred unlock and the end of the session.
Release(r) == lock' = IF lock = r THEN Nobody ELSE lock

\* The next file is one the database has, or is to be applied, or there is none.
NextFile(r) ==
    /\ pc[r] = "files"
    /\ LET n == todo[r] IN
           \/ /\ n \notin DOMAIN build[r]
              /\ Goto(r, "unlock") /\ UNCHANGED todo
           \/ /\ n \in DOMAIN build[r] \cap DOMAIN applied[r]
              /\ applied[r][n] = build[r][n]
              /\ todo' = [todo EXCEPT ![r] = n + 1] /\ UNCHANGED pc
           \/ /\ n \in DOMAIN build[r] \ DOMAIN applied[r]
              /\ Goto(r, "apply") /\ UNCHANGED todo
    /\ UNCHANGED <<database, build, migrates, applied, planted>>

\* Edited after it was applied: Open fails, and the process with it.
Refuse(r) ==
    /\ pc[r] = "files"
    /\ todo[r] \in DOMAIN build[r] \cap DOMAIN applied[r]
    /\ applied[r][todo[r]] # build[r][todo[r]]
    /\ Release(r) /\ Migrated(r, "down")
    /\ UNCHANGED <<schema, ledger, rows, inflight, build, migrates, planted>>

\* Another session has carried out the file and not yet committed.
HeldByOther(r, n) ==
    \/ \E q \in Replicas \ {r} : pc[q] \in {"record", "commit"} /\ todo[q] = n
    \/ inflight # None /\ inflight[1] = n

\* The statements of the file, in the transaction just begun.  A file need not
\* be one that can be run twice, as 0001 is, so what it creates must not exist;
\* what another session is creating is waited for.
Apply(r) ==
    /\ pc[r] = "apply"
    /\ todo[r] \notin Names(schema)
    /\ ~HeldByOther(r, todo[r])
    /\ Goto(r, "record")
    /\ UNCHANGED <<database, build, migrates, applied, todo, planted>>

\* INSERT INTO schema_migrations, whose name is a primary key.
Record(r) ==
    /\ pc[r] = "record"
    /\ todo[r] \notin DOMAIN ledger
    /\ Goto(r, "commit")
    /\ UNCHANGED <<database, build, migrates, applied, todo, planted>>

\* What the COMMIT of file n with contents c does to the database.
Committed(n, c) ==
    /\ schema' = Append(schema, <<n, c>>)
    /\ ledger' = [m \in DOMAIN ledger \cup {n} |-> IF m = n THEN c ELSE ledger[m]]
    /\ UNCHANGED rows

\* Seeded fault: the file's statements end the transaction themselves, so
\* the record of it is a second one, and is lost with the process.
CommitSchemaOnly(r) ==
    /\ pc[r] = "commit"
    /\ schema' = Append(schema, <<todo[r], build[r][todo[r]]>>)
    /\ todo' = [todo EXCEPT ![r] = todo[r] + 1] /\ Goto(r, "files")
    /\ UNCHANGED <<ledger, rows, lock, inflight, build, migrates, applied, planted>>

\* Seeded fault: the loop moves on twice.
CommitSkips(r) ==
    /\ pc[r] = "commit"
    /\ Committed(todo[r], build[r][todo[r]])
    /\ todo' = [todo EXCEPT ![r] = todo[r] + 2] /\ Goto(r, "files")
    /\ UNCHANGED <<lock, inflight, build, migrates, applied, planted>>

Commit(r) ==
    /\ pc[r] = "commit"
    /\ Committed(todo[r], build[r][todo[r]])
    /\ todo' = [todo EXCEPT ![r] = todo[r] + 1] /\ Goto(r, "files")
    /\ UNCHANGED <<lock, inflight, build, migrates, applied, planted>>

\* Seeded fault: the error of Migrate is logged and the replica goes on.
MigrateIgnored(r) ==
    /\ pc[r] \in Migrating \cup {"lock"}
    /\ Release(r) /\ Migrated(r, "check")
    /\ UNCHANGED <<schema, ledger, rows, inflight, build, migrates, planted>>

\* A statement fails: the transaction is rolled back, Open returns the error.
MigrateFails(r) ==
    /\ pc[r] \in Migrating \cup {"lock"}
    /\ Release(r) /\ Migrated(r, "down")
    /\ UNCHANGED <<schema, ledger, rows, inflight, build, migrates, planted>>

\* Seeded fault: the session goes back to a pool with the lock on it.
UnlockNothing(r) ==
    /\ pc[r] = "unlock"
    /\ Migrated(r, "check")
    /\ UNCHANGED <<database, build, migrates, planted>>

\* Best effort: if it fails, the session ends a little later.
Unlock(r) ==
    /\ pc[r] = "unlock"
    /\ lock' \in {Nobody, Orphan}
    /\ Migrated(r, "check")
    /\ UNCHANGED <<schema, ledger, rows, inflight, build, migrates, planted>>

\* The server carries the COMMIT out nevertheless.
OrphanCommits ==
    /\ inflight # None
    /\ Committed(inflight[1], inflight[2])
    /\ inflight' = None
    /\ UNCHANGED <<lock, pc, build, migrates, applied, todo, planted>>

\* The server ends the session: rolled back, unlocked.
OrphanEnds ==
    /\ lock = Orphan
    /\ lock' = Nobody
    /\ inflight' = None
    /\ UNCHANGED <<schema, ledger, rows, pc, build, migrates, applied, todo, planted>>

-----------------------------------------------------------------------------
(* Seeding.  One transaction, rows in the order of the data.                *)

HasId(row, S) == \E other \in S : Id[other] = Id[row]

Clashes(row, S) == \E other \in S : UniqueKey[other] = UniqueKey[row]

\* The rows a seeding replica has inserted, and holds the keys of, until its
\* transaction ends: those it has been through but passed over.
Held(r) == {row \in {Seeds[i] : i \in 1..planted[r]} : ~HasId(row, rows)}

HeldByOthers(r) == UNION {Held(q) : q \in Replicas \ {r}}

\* IsEmpty is true.  Without tables the read fails, and IsEmpty is false.
FindEmpty(r) ==
    /\ pc[r] = "check"
    /\ schema # <<>> /\ rows = {}
    /\ Goto(r, "seed")
    /\ UNCHANGED <<database, build, migrates, applied, todo, planted>>

\* Rows found, or the read failed, or GS_SEED is off.
ServeAsItIs(r) ==
    /\ pc[r] = "check"
    /\ Goto(r, "serving")
    /\ UNCHANGED <<database, build, migrates, applied, todo, planted>>

\* Seeded fault: every row is committed by itself.
SeedRowByRow(r) ==
    LET row == Seeds[planted[r] + 1] IN
    /\ pc[r] = "seed"
    /\ planted[r] < Len(Seeds)
    /\ ~HasId(row, rows \cup HeldByOthers(r))
    /\ ~Clashes(row, rows \cup HeldByOthers(r))
    /\ rows' = rows \cup {row}
    /\ planted' = [planted EXCEPT ![r] = @ + 1]
    /\ UNCHANGED <<schema, ledger, lock, inflight, pc, build, migrates, applied, todo>>

\* INSERT ... ON CONFLICT (id) DO NOTHING.  A row whose id another transaction
\* has inserted is waited for; one whose id is there, whoever's row it is, is
\* passed over; one whose second key is taken makes the statement fail.
SeedRow(r) ==
    LET row == Seeds[planted[r] + 1] IN
    /\ pc[r] = "seed"
    /\ planted[r] < Len(Seeds)
    /\ ~HasId(row, HeldByOthers(r))
    /\ HasId(row, rows) \/ ~Clashes(row, rows \cup HeldByOthers(r))
    /\ planted' = [planted EXCEPT ![r] = @ + 1]
    /\ UNCHANGED <<database, pc, build, migrates, applied, todo>>

\* The COMMIT, heard or not: LoadSeed only logs.
SeedCommit(r) ==
    /\ pc[r] = "seed"
    /\ planted[r] = Len(Seeds)
    /\ rows' = rows \cup Held(r)
    /\ planted' = [planted EXCEPT ![r] = 0]
    /\ Goto(r, "serving")
    /\ UNCHANGED <<schema, ledger, lock, inflight, build, migrates, applied, todo>>

\* The row's second key belongs to a committed row: the seed is rolled back.
SeedClash(r) ==
    LET row == Seeds[planted[r] + 1] IN
    /\ pc[r] = "seed"
    /\ planted[r] < Len(Seeds)
    /\ ~HasId(row, rows \cup HeldByOthers(r)) /\ Clashes(row, rows)
    /\ planted' = [planted EXCEPT ![r] = 0]
    /\ Goto(r, "serving")
    /\ UNCHANGED <<database, build, migrates, applied, todo>>

\* Any other failure rolls back too, and the replica serves all the same.
SeedFails(r) ==
    /\ pc[r] = "seed"
    /\ planted' = [planted EXCEPT ![r] = 0]
    /\ Goto(r, "serving")
    /\ UNCHANGED <<database, build, migrates, applied, todo>>

\* A desk at a serving replica opens a file or files a review, under an id of
\* its own choice or the store's.  Refused when one of the row's keys is taken,
\* kept waiting while a seed holds it.
Register(r) ==
    /\ pc[r] = "serving"
    /\ schema # <<>>
    /\ \E row \in Desk :
           LET taken == rows \cup UNION {Held(q) : q \in Replicas} IN
           /\ ~HasId(row, taken) /\ ~Clashes(row, taken)
           /\ rows' = rows \cup {row}
    /\ UNCHANGED <<schema, ledger, lock, inflight, pc, build, migrates, applied, todo, planted>>

\* The process is killed, or its two minutes are over and the client gives its
\* connection up.  The server does not know yet that the session which holds
\* the lock has no client; an open seeding transaction is rolled back.
Die(r) ==
    /\ pc[r] # "down"
    /\ lock' = IF lock = r THEN Orphan ELSE lock
    /\ inflight' = IF pc[r] = "commit" THEN <<todo[r], build[r][todo[r]]>> ELSE inflight
    /\ Migrated(r, "down")
    /\ planted' = [planted EXCEPT ![r] = 0]
    /\ UNCHANGED <<schema, ledger, rows, build, migrates>>

-----------------------------------------------------------------------------
\* A statement that is answered.
Statement(r) ==
    \/ TakeLock(r) \/ ReadApplied(r) \/ NextFile(r) \/ Refuse(r)
    \/ Apply(r) \/ Record(r) \/ Commit(r) \/ Unlock(r)
    \/ FindEmpty(r) \/ ServeAsItIs(r) \/ SeedRow(r) \/ SeedClash(r)
    \/ SeedCommit(r)

Next ==
    \/ \E r \in Replicas :
           \/ Start(r) \/ Statement(r) \/ MigrateFails(r)
           \/ SeedFails(r) \/ Register(r) \/ Die(r)
    \/ OrphanCommits \/ OrphanEnds

Spec == Init /\ [][Next]_vars

\* Statements are answered, and the server notices sessions whose client is
\* gone.  It queues those who wait, for the lock as for a key, so a replica
\* that keeps waiting gets its turn although others come and go.
Fairness ==
    /\ \A r \in Replicas : SF_vars(Statement(r))
    /\ WF_vars(OrphanEnds)

FairSpec == Spec /\ Fairness

-----------------------------------------------------------------------------
TypeOK ==
    /\ schema \in Seq(Nat \X Contents)
    /\ ledger \in [DOMAIN schema -> Contents]
    /\ rows \subseteq SeedRows \cup Desk
    /\ lock \in Replicas \cup {Nobody, Orphan}
    /\ inflight \in {None} \cup (Nat \X Contents)
    /\ applied \in [Replicas -> Seq(Contents)]
    /\ pc \in [Replicas -> {"down", "lock", "check", "seed", "serving"} \cup Migrating]
    /\ build \in [Replicas -> Builds]
    /\ migrates \in [Replicas -> BOOLEAN]
    /\ todo \in [Replicas -> Nat \ {0}]
    /\ planted \in [Replicas -> 0..Len(Seeds)]

\* schema_migrations says what was done to the schema: every file once, in
\* the order of the names, with the contents it is recorded with (migrate.go:
\* a file and its record are one transaction, under the lock).
LedgerIsSchema ==
    /\ DOMAIN ledger = DOMAIN schema
    /\ \A n \in DOMAIN schema : schema[n] = <<n, ledger[n]>>

\* The schema is one that some build describes.  A build whose past was
\* edited must not go on from it to "a shape nobody has" (migrate.go:106).
SomebodysShape ==
    \E b \in Builds : /\ DOMAIN ledger \subseteq DOMAIN b
                      /\ \A n \in DOMAIN ledger : b[n] = ledger[n]

\* No replica is in front of a statement that can only fail because another
\* one has done it already: the crash loop of migrate.go:25.
NoRaceIsLost ==
    \A r \in Replicas :
        /\ pc[r] = "apply" => todo[r] \notin Names(schema) /\ ~HeldByOther(r, todo[r])
        /\ pc[r] = "record" => todo[r] \notin DOMAIN ledger

\* A replica that migrates serves on the schema it was built for, whatever
\* the others were built with and however often it or they have died.
ServesItsSchema ==
    \A r \in Replicas :
        pc[r] \in {"check", "seed", "serving"} /\ migrates[r] =>
            \A n \in DOMAIN build[r] : n \in DOMAIN ledger /\ ledger[n] = build[r][n]

\* The demonstration data is in the database as a whole or not at all, with
\* several replicas seeding, desks registering, and deaths in the middle; but
\* for the rows whose ids desks had taken before, which LoadSeed passes over
\* while it commits the rest (postgres.go:697 and 735).
SeedIsWhole ==
    SeedRows \cap rows # {} =>
        \A row \in SeedRows \ rows : HasId(row, Desk \cap rows)

\* A replica that starts comes to serve or to its end: neither the lock, nor
\* a session left behind, nor the keys of two seeds hold it up for ever.
BootsEnd ==
    \A r \in Replicas : pc[r] \notin {"down", "serving"} ~> pc[r] \in {"down", "serving"}
=============================================================================
