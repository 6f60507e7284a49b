------------------------------ MODULE BootProofs ------------------------------
(***************************************************************************)
(* Boot's safety, for any replicas, builds and demonstration data.         *)
(*                                                                         *)
(* What the runs check is not inductive by itself: that a COMMIT puts the  *)
(* next file in its place needs the lock (LockHeld), what its holder knows *)
(* of the ledger (Informed), and that a COMMIT left behind by a dead       *)
(* process is covered by the lock of its session (LeftBehind).             *)
(***************************************************************************)
EXTENDS Boot, TLAPS

\* Between reading schema_migrations and giving the lock up.
Reading == Migrating \ {"read"}

\* Who is between taking the lock and giving it up holds it.
LockHeld == \A r \in Replicas : pc[r] \in Migrating => lock = r

\* Build b has every file of the ledger, as it was applied.
Describes(b) == /\ DOMAIN ledger \subseteq DOMAIN b
                /\ \A n \in DOMAIN ledger : b[n] = ledger[n]

\* A COMMIT on its way is of the file that comes next, and its session still
\* has the lock.
LeftBehind ==
    inflight # None =>
        /\ lock = Orphan
        /\ inflight[1] = Len(schema) + 1
        /\ \E b \in Builds : /\ Describes(b)
                             /\ inflight[1] \in DOMAIN b
                             /\ b[inflight[1]] = inflight[2]

\* The files before `todo` are in the ledger as the build has them, and the
\* ledger is what was read and these files.
InformedOf(r) ==
    /\ pc[r] \notin Reading => todo[r] = 1
    /\ pc[r] \in Reading =>
           /\ todo[r] <= Len(build[r]) + 1
           /\ \A n \in 1..(todo[r] - 1) : n \in DOMAIN ledger /\ ledger[n] = build[r][n]
           /\ DOMAIN applied[r] \subseteq DOMAIN ledger
           /\ \A n \in DOMAIN ledger : n < todo[r] \/ n \in DOMAIN applied[r]
           /\ \A n \in DOMAIN applied[r] : applied[r][n] = ledger[n]
    /\ pc[r] \in {"apply", "record", "commit"} =>
           todo[r] \in DOMAIN build[r] \ DOMAIN applied[r]
    /\ pc[r] = "unlock" => todo[r] \notin DOMAIN build[r]

Informed == \A r \in Replicas : InformedOf(r)

IInv ==
    /\ TypeOK
    /\ LedgerIsSchema
    /\ SomebodysShape
    /\ LockHeld
    /\ LeftBehind
    /\ Informed
    /\ ServesItsSchema
    /\ SeedIsWhole
-----------------------------------------------------------------------------
(* The ledger.                                                              *)

\* The ledger's files are numbered as they were applied.
LEMMA LedgerFacts ==
    ASSUME IInv
    PROVE  /\ Len(schema) \in Nat
           /\ DOMAIN ledger = 1..Len(schema)
           /\ ledger \in [1..Len(schema) -> Contents]
           /\ Names(schema) = DOMAIN ledger
<1>1. Len(schema) \in Nat /\ DOMAIN schema = 1..Len(schema)
  BY DEF IInv, TypeOK
<1>2. \A n \in DOMAIN schema : schema[n][1] = n
  BY DEF IInv, LedgerIsSchema
<1> QED BY <1>1, <1>2 DEF IInv, TypeOK, LedgerIsSchema, Names

\* So are a build's.
LEMMA BuildFacts ==
    ASSUME IInv, NEW r \in Replicas
    PROVE  /\ build[r] \in Builds
           /\ Len(build[r]) \in Nat
           /\ DOMAIN build[r] = 1..Len(build[r])
           /\ \A n \in DOMAIN build[r] : build[r][n] \in Contents
           /\ todo[r] \in Nat /\ todo[r] >= 1
<1>1. build[r] \in Builds /\ build[r] \in Seq(Contents)
  BY BootAssumption DEF IInv, TypeOK
<1>2. todo[r] \in Nat \ {0}
  BY DEF IInv, TypeOK
<1>3. \A n \in 1..Len(build[r]) : build[r][n] \in Contents
  BY <1>1
<1> QED BY <1>1, <1>2, <1>3

\* The holder of the lock who has a file to apply is at the end of the ledger.
LEMMA NextInPlace ==
    ASSUME IInv, NEW r \in Replicas, pc[r] \in {"apply", "record", "commit"}
    PROVE  /\ todo[r] = Len(schema) + 1
           /\ todo[r] \in DOMAIN build[r]
           /\ Describes(build[r])
<1>1. /\ todo[r] \in DOMAIN build[r] \ DOMAIN applied[r]
      /\ \A n \in 1..(todo[r] - 1) : n \in DOMAIN ledger /\ ledger[n] = build[r][n]
      /\ \A n \in DOMAIN ledger : n < todo[r] \/ n \in DOMAIN applied[r]
      /\ DOMAIN applied[r] \subseteq DOMAIN ledger
  BY DEF IInv, Informed, InformedOf, Reading, Migrating
<1>2. DOMAIN applied[r] = 1..Len(applied[r]) /\ Len(applied[r]) \in Nat
  BY DEF IInv, TypeOK
<1>3. todo[r] > Len(applied[r])
  BY <1>1, <1>2, BuildFacts
<1>4. \A n \in DOMAIN ledger : n < todo[r]
  BY <1>1, <1>2, <1>3, LedgerFacts, BuildFacts
<1>5. todo[r] = Len(schema) + 1
  BY <1>1, <1>4, LedgerFacts, BuildFacts
<1>6. Describes(build[r])
  BY <1>1, <1>4, <1>5, LedgerFacts, BuildFacts DEF Describes
<1> QED BY <1>1, <1>5, <1>6

\* One COMMIT: the ledger still says what was done, and a build describes it.
LEMMA CommittedKeeps ==
    ASSUME IInv, NEW n, NEW c \in Contents, NEW b \in Builds,
           n = Len(schema) + 1, n \in DOMAIN b, b[n] = c, Describes(b),
           Committed(n, c)
    PROVE  /\ Len(schema') = n /\ schema' \in Seq(Nat \X Contents)
           /\ ledger' \in [DOMAIN schema' -> Contents]
           /\ DOMAIN ledger' = 1..n
           /\ \A m \in DOMAIN ledger : ledger'[m] = ledger[m]
           /\ ledger'[n] = c
           /\ LedgerIsSchema' /\ SomebodysShape'
<1>1. /\ n \in Nat /\ <<n, c>> \in Nat \X Contents
      /\ schema \in Seq(Nat \X Contents)
  BY LedgerFacts DEF IInv, TypeOK
<1>2. /\ Len(schema') = n /\ schema' \in Seq(Nat \X Contents)
      /\ \A m \in 1..Len(schema) : schema'[m] = schema[m]
      /\ schema'[n] = <<n, c>>
  BY <1>1 DEF Committed
<1>3. DOMAIN schema' = 1..n /\ DOMAIN ledger' = 1..n
  BY <1>1, <1>2, LedgerFacts DEF Committed
<1>4. /\ \A m \in DOMAIN ledger : ledger'[m] = ledger[m]
      /\ ledger'[n] = c
  BY <1>1, LedgerFacts DEF Committed
<1>5. ledger' \in [DOMAIN schema' -> Contents]
  <2>1. ledger' = [m \in 1..n |-> IF m = n THEN c ELSE ledger[m]]
    BY <1>1, LedgerFacts DEF Committed
  <2>2. \A m \in 1..n : (IF m = n THEN c ELSE ledger[m]) \in Contents
    BY <1>1, LedgerFacts
  <2> QED BY <1>3, <2>1, <2>2
<1>6. LedgerIsSchema'
  <2>1. \A m \in 1..Len(schema) : schema[m] = <<m, ledger[m]>>
    BY LedgerFacts DEF IInv, LedgerIsSchema
  <2>2. \A m \in 1..n : schema'[m] = <<m, ledger'[m]>>
    <3> TAKE m \in 1..n
    <3>1. CASE m = n
      BY <3>1, <1>2, <1>4
    <3>2. CASE m \in 1..Len(schema)
      BY <3>2, <2>1, <1>2, <1>4, LedgerFacts
    <3> QED BY <3>1, <3>2, <1>1
  <2> QED BY <2>2, <1>3 DEF LedgerIsSchema
<1>7. SomebodysShape'
  BY <1>1, <1>3, <1>4, LedgerFacts DEF SomebodysShape, Describes
<1> QED BY <1>2, <1>3, <1>4, <1>5, <1>6, <1>7

-----------------------------------------------------------------------------
(* The steps.                                                               *)

LEMMA InitInv == Init => IInv
<1> SUFFICES ASSUME Init PROVE IInv
  OBVIOUS
<1>1. PICK b \in Builds : TRUE
  BY BootAssumption
<1>2. DOMAIN <<>> = {} /\ Len(<<>>) = 0
  OBVIOUS
<1>3. TypeOK
  BY BootAssumption, <1>2 DEF Init, TypeOK, Migrating
<1>4. LedgerIsSchema /\ SomebodysShape
  BY <1>1, <1>2 DEF Init, LedgerIsSchema, SomebodysShape
<1>5. LockHeld /\ LeftBehind /\ Informed /\ ServesItsSchema
  BY DEF Init, LockHeld, LeftBehind, Informed, InformedOf, ServesItsSchema, Migrating, Reading
<1>6. SeedIsWhole
  BY DEF Init, SeedIsWhole
<1> QED BY <1>3, <1>4, <1>5, <1>6 DEF IInv

\* A step that touches neither the migrations nor the lock, and after which
\* only replicas that are up to date have got past them.
LEMMA AsideInv ==
    ASSUME IInv, TypeOK',
           UNCHANGED <<schema, ledger, lock, inflight, applied, todo>>,
           \A q \in Replicas :
               \/ pc'[q] = pc[q] /\ build'[q] = build[q] /\ migrates'[q] = migrates[q]
               \/ pc[q] \notin Migrating /\ pc'[q] \notin Migrating,
           ServesItsSchema', SeedIsWhole'
    PROVE  IInv'
<1>1. \A q \in Replicas : pc'[q] \in Migrating =>
          pc'[q] = pc[q] /\ build'[q] = build[q]
  BY DEF Migrating
<1>2. LedgerIsSchema' /\ SomebodysShape'
  BY DEF IInv, LedgerIsSchema, SomebodysShape
<1>3. LockHeld' /\ LeftBehind'
  BY <1>1 DEF IInv, LockHeld, LeftBehind, Describes
<1>4. Informed'
  BY <1>1 DEF IInv, Informed, InformedOf, Reading, Migrating
<1> QED BY <1>2, <1>3, <1>4 DEF IInv

LEMMA StartInv == ASSUME IInv, NEW r \in Replicas, Start(r) PROVE IInv'
<1>1. PICK b \in Builds, m \in BOOLEAN :
          /\ build' = [build EXCEPT ![r] = b]
          /\ migrates' = [migrates EXCEPT ![r] = m]
          /\ pc' = [pc EXCEPT ![r] = IF m /\ DOMAIN b # {} THEN "lock" ELSE "check"]
  BY DEF Start, Goto
<1>2. TypeOK'
  BY <1>1 DEF Start, IInv, TypeOK, database
<1>3. ServesItsSchema'
  BY <1>1 DEF Start, IInv, TypeOK, ServesItsSchema, database
<1>4. \A q \in Replicas :
          \/ pc'[q] = pc[q] /\ build'[q] = build[q] /\ migrates'[q] = migrates[q]
          \/ pc[q] \notin Migrating /\ pc'[q] \notin Migrating
  BY <1>1 DEF Start, IInv, TypeOK, Migrating
<1>5. SeedIsWhole' /\ UNCHANGED <<schema, ledger, lock, inflight, applied, todo>>
  BY DEF Start, database, IInv, SeedIsWhole
<1> QED BY <1>2, <1>3, <1>4, <1>5, AsideInv

\* Seeding steps, and a desk's.
LEMMA SeedInv ==
    ASSUME IInv, NEW r \in Replicas,
           \/ FindEmpty(r) \/ ServeAsItIs(r) \/ SeedRow(r) \/ SeedCommit(r)
           \/ SeedClash(r) \/ SeedFails(r) \/ Register(r)
    PROVE  IInv'
<1>1. /\ UNCHANGED <<schema, ledger, lock, inflight, applied, todo, build, migrates>>
      /\ pc[r] \in {"check", "seed", "serving"}
      /\ \/ UNCHANGED pc
         \/ \E l \in {"seed", "serving"} : pc' = [pc EXCEPT ![r] = l]
  BY DEF FindEmpty, ServeAsItIs, SeedRow, SeedCommit, SeedClash, SeedFails, Register,
         Goto, database
<1>2. Len(Seeds) \in Nat /\ SeedRows = {Seeds[i] : i \in 1..Len(Seeds)}
  BY BootAssumption DEF SeedRows
<1>3. planted' \in [Replicas -> 0..Len(Seeds)]
  <2>1. CASE UNCHANGED planted
    BY <2>1 DEF IInv, TypeOK
  <2>2. CASE SeedRow(r)
    BY <2>2, <1>2 DEF SeedRow, IInv, TypeOK
  <2>3. CASE planted' = [planted EXCEPT ![r] = 0]
    BY <2>3, <1>2 DEF IInv, TypeOK
  <2> QED BY <2>1, <2>2, <2>3
          DEF FindEmpty, ServeAsItIs, SeedCommit, SeedClash, SeedFails, Register
<1>4. rows' \subseteq SeedRows \cup Desk /\ SeedIsWhole'
  <2>1. CASE UNCHANGED rows
    BY <2>1 DEF IInv, TypeOK, SeedIsWhole
  <2>2. CASE SeedCommit(r)
    <3>1. rows' = rows \cup {row \in SeedRows : ~HasId(row, rows)}
      BY <2>2, <1>2 DEF SeedCommit, Held
    <3>2. ASSUME NEW row \in SeedRows \ rows' PROVE HasId(row, Desk \cap rows')
      <4>1. row \notin rows /\ HasId(row, rows)
        BY <3>1, <3>2
      <4>2. PICK other \in rows : Id[other] = Id[row]
        BY <4>1 DEF HasId
      <4>3. other \notin SeedRows
        BY <4>1, <4>2, SeedAssumption
      <4>4. other \in Desk \cap rows'
        BY <3>1, <4>2, <4>3 DEF IInv, TypeOK
      <4> QED BY <4>2, <4>4 DEF HasId
    <3> QED BY <3>1, <3>2 DEF IInv, TypeOK, SeedIsWhole
  <2>3. CASE Register(r)
    <3>1. PICK row \in Desk : rows' = rows \cup {row}
      BY <2>3 DEF Register
    <3>2. SeedRows \cap rows' = SeedRows \cap rows
      BY <3>1, SeedAssumption
    <3>3. \A seed \in SeedRows : HasId(seed, Desk \cap rows) => HasId(seed, Desk \cap rows')
      BY <3>1 DEF HasId
    <3> QED BY <3>1, <3>2, <3>3 DEF IInv, TypeOK, SeedIsWhole
  <2> QED BY <2>1, <2>2, <2>3
          DEF FindEmpty, ServeAsItIs, SeedRow, SeedClash, SeedFails, database
<1>5. pc' \in [Replicas -> {"down", "lock", "check", "seed", "serving"} \cup Migrating]
  BY <1>1 DEF IInv, TypeOK
<1>6. TypeOK'
  BY <1>1, <1>3, <1>4, <1>5 DEF IInv, TypeOK
<1>7. \A q \in Replicas :
          \/ pc'[q] = pc[q]
          \/ q = r /\ pc[q] \in {"check", "seed", "serving"} /\ pc'[q] \in {"seed", "serving"}
  BY <1>1 DEF IInv, TypeOK
<1>8. ServesItsSchema'
  BY <1>1, <1>7 DEF IInv, ServesItsSchema
<1>9. \A q \in Replicas : \/ pc'[q] = pc[q] /\ build'[q] = build[q] /\ migrates'[q] = migrates[q]
                          \/ pc[q] \notin Migrating /\ pc'[q] \notin Migrating
  BY <1>1, <1>7 DEF Migrating
<1> QED BY <1>1, <1>4, <1>6, <1>8, <1>9, AsideInv

LEMMA TakeLockInv == ASSUME IInv, NEW r \in Replicas, TakeLock(r) PROVE IInv'
<1>1. /\ lock = Nobody /\ lock' = r /\ pc[r] = "lock" /\ pc' = [pc EXCEPT ![r] = "read"]
      /\ UNCHANGED <<schema, ledger, rows, inflight, build, migrates, applied, todo, planted>>
  BY DEF TakeLock, Goto
<1>2. TypeOK'
  BY <1>1 DEF IInv, TypeOK, Migrating
<1>3. \A q \in Replicas : pc[q] \notin Migrating
  BY <1>1, BootAssumption DEF IInv, LockHeld
<1>4. \A q \in Replicas : q # r => pc'[q] = pc[q]
  BY <1>1 DEF IInv, TypeOK
<1>5. pc'[r] = "read"
  BY <1>1 DEF IInv, TypeOK
<1>6. LockHeld'
  BY <1>1, <1>3, <1>4 DEF LockHeld
<1>7. inflight = None
  BY <1>1, BootAssumption DEF IInv, LeftBehind
<1>8. LeftBehind' /\ LedgerIsSchema' /\ SomebodysShape' /\ SeedIsWhole'
  BY <1>1, <1>7 DEF LeftBehind, IInv, LedgerIsSchema, SomebodysShape, SeedIsWhole
<1>9. Informed'
  <2>1. InformedOf(r)'
    BY <1>1, <1>5 DEF IInv, Informed, InformedOf, Reading, Migrating
  <2>2. \A q \in Replicas : q # r => InformedOf(q)'
    BY <1>1, <1>4 DEF IInv, Informed, InformedOf
  <2> QED BY <2>1, <2>2 DEF Informed
<1>10. ServesItsSchema'
  BY <1>1, <1>4, <1>5 DEF IInv, ServesItsSchema
<1> QED BY <1>2, <1>6, <1>8, <1>9, <1>10 DEF IInv

\* A step of the lock's holder that only changes what it knows.
LEMMA HolderInv ==
    ASSUME IInv, NEW r \in Replicas, NEW l \in Migrating,
           pc[r] \in Migrating, pc' = [pc EXCEPT ![r] = l],
           \A q \in Replicas : q # r => todo'[q] = todo[q] /\ applied'[q] = applied[q],
           todo' \in [Replicas -> Nat \ {0}], applied' \in [Replicas -> Seq(Contents)],
           UNCHANGED <<database, build, migrates, planted>>,
           InformedOf(r)'
    PROVE  IInv'
<1>1. TypeOK'
  BY DEF IInv, TypeOK, database
<1>2. pc'[r] = l /\ \A q \in Replicas : q # r => pc'[q] = pc[q]
  BY DEF IInv, TypeOK
<1>3. LockHeld'
  BY <1>2 DEF IInv, LockHeld, database
<1>4. LeftBehind' /\ LedgerIsSchema' /\ SomebodysShape' /\ SeedIsWhole'
  BY DEF IInv, LeftBehind, Describes, LedgerIsSchema, SomebodysShape, SeedIsWhole, database
<1>5. \A q \in Replicas : q # r => InformedOf(q)'
  BY <1>2, SMTT(30) DEF IInv, Informed, InformedOf, database
<1>6. ServesItsSchema'
  BY <1>2 DEF IInv, ServesItsSchema, Migrating, database
<1> QED BY <1>1, <1>3, <1>4, <1>5, <1>6 DEF IInv, Informed

LEMMA ReadAppliedInv == ASSUME IInv, NEW r \in Replicas, ReadApplied(r) PROVE IInv'
<1>1. /\ pc[r] = "read" /\ pc' = [pc EXCEPT ![r] = "files"]
      /\ applied' = [applied EXCEPT ![r] = ledger]
      /\ UNCHANGED <<database, build, migrates, todo, planted>>
  BY DEF ReadApplied, Goto
<1>2. ledger \in Seq(Contents)
  BY LedgerFacts
<1>3. applied' \in [Replicas -> Seq(Contents)] /\ todo' \in [Replicas -> Nat \ {0}]
  BY <1>1, <1>2 DEF IInv, TypeOK
<1>4. todo[r] = 1
  BY <1>1 DEF IInv, Informed, InformedOf, Reading, Migrating
<1>5. applied'[r] = ledger /\ pc'[r] = "files" /\ ledger' = ledger /\ build' = build /\ todo' = todo
  BY <1>1 DEF IInv, TypeOK, database
<1>6. InformedOf(r)'
  BY <1>4, <1>5, BuildFacts DEF InformedOf, Reading, Migrating
<1>7. \A q \in Replicas : q # r => todo'[q] = todo[q] /\ applied'[q] = applied[q]
  BY <1>1 DEF IInv, TypeOK
<1> QED BY <1>1, <1>3, <1>6, <1>7, HolderInv DEF Migrating

LEMMA NextFileInv == ASSUME IInv, NEW r \in Replicas, NextFile(r) PROVE IInv'
<1> DEFINE n == todo[r]
<1>1. pc[r] = "files" /\ UNCHANGED <<database, build, migrates, applied, planted>>
  BY DEF NextFile
<1>2. InformedOf(r) /\ n \in Nat /\ n >= 1 /\ DOMAIN build[r] = 1..Len(build[r])
      /\ Len(build[r]) \in Nat
  BY BuildFacts DEF IInv, Informed
<1>3. applied' = applied /\ ledger' = ledger /\ build' = build
  BY <1>1 DEF database
<1>4. \A l \in Migrating : pc' = [pc EXCEPT ![r] = l] => pc'[r] = l
  BY DEF IInv, TypeOK
<1>5. applied' \in [Replicas -> Seq(Contents)]
  BY <1>1 DEF IInv, TypeOK
<1>6. CASE n \notin DOMAIN build[r] /\ pc' = [pc EXCEPT ![r] = "unlock"] /\ UNCHANGED todo
  <2>1. InformedOf(r)'
    BY <1>1, <1>2, <1>3, <1>4, <1>6 DEF InformedOf, Reading, Migrating
  <2>2. todo' \in [Replicas -> Nat \ {0}]
    BY <1>6 DEF IInv, TypeOK
  <2> QED BY <1>1, <1>5, <1>6, <2>1, <2>2, HolderInv DEF Migrating
<1>7. CASE /\ n \in DOMAIN build[r] \cap DOMAIN applied[r]
           /\ applied[r][n] = build[r][n]
           /\ todo' = [todo EXCEPT ![r] = n + 1] /\ UNCHANGED pc
  <2>1. todo' \in [Replicas -> Nat \ {0}] /\ todo'[r] = n + 1
    BY <1>2, <1>7 DEF IInv, TypeOK
  <2>2. \A q \in Replicas : q # r => todo'[q] = todo[q] /\ applied'[q] = applied[q]
    BY <1>3, <1>7 DEF IInv, TypeOK
  <2>3. n \in DOMAIN ledger /\ ledger[n] = build[r][n]
    BY <1>1, <1>2, <1>7 DEF InformedOf, Reading, Migrating
  <2>4. \A m \in 1..n : m \in DOMAIN ledger /\ ledger[m] = build[r][m]
    BY <1>1, <1>2, <2>3 DEF InformedOf, Reading, Migrating
  <2>5. \A m \in DOMAIN ledger : m < n + 1 \/ m \in DOMAIN applied[r]
    BY <1>1, <1>2, LedgerFacts DEF InformedOf, Reading, Migrating
  <2>6. pc'[r] = "files"
    BY <1>1, <1>7
  <2>7. InformedOf(r)'
    BY <1>1, <1>2, <1>3, <1>7, <2>1, <2>4, <2>5, <2>6 DEF InformedOf, Reading, Migrating
  <2>8. pc' = [pc EXCEPT ![r] = "files"]
    BY <1>1, <1>7 DEF IInv, TypeOK
  <2> QED BY <1>1, <1>5, <2>1, <2>2, <2>7, <2>8, HolderInv DEF Migrating
<1>8. CASE /\ n \in DOMAIN build[r] \ DOMAIN applied[r]
           /\ pc' = [pc EXCEPT ![r] = "apply"] /\ UNCHANGED todo
  <2>1. InformedOf(r)'
    BY <1>1, <1>2, <1>3, <1>4, <1>8 DEF InformedOf, Reading, Migrating
  <2>2. todo' \in [Replicas -> Nat \ {0}]
    BY <1>8 DEF IInv, TypeOK
  <2> QED BY <1>1, <1>5, <1>8, <2>1, <2>2, HolderInv DEF Migrating
<1> QED BY <1>6, <1>7, <1>8 DEF NextFile, Goto

LEMMA TransactionInv ==
    ASSUME IInv, NEW r \in Replicas, Apply(r) \/ Record(r) PROVE IInv'
<1>1. /\ pc[r] \in {"apply", "record"}
      /\ \E l \in {"record", "commit"} : pc' = [pc EXCEPT ![r] = l]
      /\ UNCHANGED <<database, build, migrates, applied, todo, planted>>
  BY DEF Apply, Record, Goto
<1>2. PICK l \in {"record", "commit"} : pc' = [pc EXCEPT ![r] = l]
  BY <1>1
<1>3. pc'[r] = l /\ ledger' = ledger
  BY <1>1, <1>2 DEF IInv, TypeOK, database
<1>4. InformedOf(r)'
  BY <1>1, <1>3 DEF IInv, Informed, InformedOf, Reading, Migrating
<1>5. todo' \in [Replicas -> Nat \ {0}] /\ applied' \in [Replicas -> Seq(Contents)]
  BY <1>1 DEF IInv, TypeOK
<1> QED BY <1>1, <1>2, <1>4, <1>5, HolderInv DEF Migrating

LEMMA CommitInv == ASSUME IInv, NEW r \in Replicas, Commit(r) PROVE IInv'
<1> DEFINE n == todo[r]
           c == build[r][n]
<1>1. /\ pc[r] = "commit" /\ pc' = [pc EXCEPT ![r] = "files"]
      /\ todo' = [todo EXCEPT ![r] = n + 1]
      /\ UNCHANGED <<rows, lock, inflight, build, migrates, applied, planted>>
      /\ Committed(n, c)
  BY DEF Commit, Goto, Committed
<1>2. n = Len(schema) + 1 /\ n \in DOMAIN build[r] /\ Describes(build[r]) /\ c \in Contents
  BY <1>1, NextInPlace, BuildFacts
<1>3. /\ Len(schema') = n /\ schema' \in Seq(Nat \X Contents)
      /\ ledger' \in [DOMAIN schema' -> Contents] /\ DOMAIN ledger' = 1..n
      /\ \A m \in DOMAIN ledger : ledger'[m] = ledger[m]
      /\ ledger'[n] = c
      /\ LedgerIsSchema' /\ SomebodysShape'
  <2> HIDE DEF n, c
  <2>1. c = build[r][n] /\ build[r] \in Builds
    BY BuildFacts DEF c, n
  <2> QED BY <1>1, <1>2, <2>1, CommittedKeeps
<1>4. n \in Nat /\ n >= 1
  BY BuildFacts
<1>5. lock = r /\ \A q \in Replicas : q # r => pc[q] \notin Migrating
  BY <1>1 DEF IInv, LockHeld, Migrating
<1>6. pc'[r] = "files" /\ \A q \in Replicas : q # r => pc'[q] = pc[q] /\ todo'[q] = todo[q]
  BY <1>1 DEF IInv, TypeOK
<1>7. todo'[r] = n + 1 /\ todo' \in [Replicas -> Nat \ {0}]
  BY <1>1, <1>4 DEF IInv, TypeOK
<1>8. TypeOK'
  <2> HIDE DEF n, c
  <2> QED BY <1>1, <1>3, <1>7 DEF IInv, TypeOK, Migrating
<1>9. LockHeld'
  BY <1>1, <1>5, <1>6 DEF LockHeld
<1>10. inflight = None
  BY <1>5, BootAssumption DEF IInv, LeftBehind
<1>11. LeftBehind' /\ SeedIsWhole'
  BY <1>1, <1>10 DEF LeftBehind, IInv, SeedIsWhole
<1>12. InformedOf(r)'
  <2>1. InformedOf(r) /\ DOMAIN build[r] = 1..Len(build[r]) /\ Len(build[r]) \in Nat
        /\ DOMAIN ledger = 1..(n - 1)
    BY <1>2, BuildFacts, LedgerFacts DEF IInv, Informed
  <2>2. \A m \in 1..n : m \in DOMAIN ledger' /\ ledger'[m] = build[r][m]
    <3>1. \A m \in 1..(n - 1) : m \in DOMAIN ledger' /\ ledger'[m] = ledger[m]
                               /\ ledger[m] = build[r][m]
      BY <1>2, <1>3, <1>4, <2>1, SMTT(30) DEF Describes
    <3>2. n \in DOMAIN ledger' /\ ledger'[n] = build[r][n]
      BY <1>3, <1>4
    <3>3. \A m \in 1..n : m = n \/ m \in 1..(n - 1)
      BY <1>4
    <3> HIDE DEF n
    <3> QED BY <3>1, <3>2, <3>3
  <2>3. n + 1 <= Len(build[r]) + 1
    BY <1>2, <2>1
  <2>4. DOMAIN applied[r] \subseteq DOMAIN ledger'
        /\ \A m \in DOMAIN applied[r] : applied[r][m] = ledger'[m]
    BY <1>1, <1>3, <1>4, <2>1 DEF InformedOf, Reading, Migrating
  <2>5. \A m \in DOMAIN ledger' : m < n + 1
    BY <1>3, <1>4
  <2>6. applied'[r] = applied[r] /\ build'[r] = build[r] /\ (n + 1) - 1 = n
    BY <1>1, <1>4
  <2> HIDE DEF n, c
  <2> QED BY <1>6, <1>7, <2>2, <2>3, <2>4, <2>5, <2>6 DEF InformedOf, Reading, Migrating
<1>13. \A q \in Replicas : q # r => InformedOf(q)'
  <2> TAKE q \in Replicas
  <2> HAVE q # r
  <2>1. pc'[q] \notin Migrating /\ todo'[q] = 1
    BY <1>5, <1>6 DEF IInv, Informed, InformedOf, Reading
  <2> QED BY <2>1 DEF InformedOf, Reading, Migrating
<1>14. ServesItsSchema'
  <2> HIDE DEF n, c
  <2>1. \A m \in DOMAIN ledger : m \in DOMAIN ledger'
    BY <1>2, <1>3, <1>4, LedgerFacts
  <2> QED BY <1>1, <1>3, <1>6, <2>1 DEF IInv, ServesItsSchema
<1> QED BY <1>3, <1>8, <1>9, <1>11, <1>12, <1>13, <1>14 DEF IInv, Informed

\* The ends of a migration.
LEMMA LeaveInv ==
    ASSUME IInv, NEW r \in Replicas, NEW l \in {"down", "check"}, Migrated(r, l),
           UNCHANGED <<schema, ledger, rows, build, migrates>>,
           lock' \in Replicas \cup {Nobody, Orphan},
           inflight' \in {None} \cup (Nat \X Contents),
           planted' \in [Replicas -> 0..Len(Seeds)],
           \A q \in Replicas : q # r /\ lock = q => lock' = q,
           LeftBehind',
           l = "check" /\ migrates[r] =>
               \A n \in DOMAIN build[r] : n \in DOMAIN ledger /\ ledger[n] = build[r][n]
    PROVE  IInv'
<1>1. /\ pc' = [pc EXCEPT ![r] = l]
      /\ applied' = [applied EXCEPT ![r] = <<>>] /\ todo' = [todo EXCEPT ![r] = 1]
  BY DEF Migrated, Goto
<1>2. TypeOK'
  BY <1>1 DEF IInv, TypeOK
<1>3. /\ pc'[r] = l /\ todo'[r] = 1
      /\ \A q \in Replicas : q # r =>
             pc'[q] = pc[q] /\ todo'[q] = todo[q] /\ applied'[q] = applied[q]
  BY <1>1 DEF IInv, TypeOK
<1>4. LockHeld'
  BY <1>3 DEF IInv, LockHeld, Migrating
<1>5. LedgerIsSchema' /\ SomebodysShape' /\ SeedIsWhole'
  BY DEF IInv, LedgerIsSchema, SomebodysShape, SeedIsWhole
<1>6. Informed'
  <2>1. InformedOf(r)'
    BY <1>3 DEF InformedOf, Reading, Migrating
  <2>2. \A q \in Replicas : q # r => InformedOf(q)'
    BY <1>3 DEF IInv, Informed, InformedOf
  <2> QED BY <2>1, <2>2 DEF Informed
<1>7. ServesItsSchema'
  BY <1>3 DEF IInv, ServesItsSchema
<1> QED BY <1>2, <1>4, <1>5, <1>6, <1>7 DEF IInv

LEMMA FailInv ==
    ASSUME IInv, NEW r \in Replicas, Refuse(r) \/ MigrateFails(r) PROVE IInv'
<1>1. /\ lock' = IF lock = r THEN Nobody ELSE lock
      /\ Migrated(r, "down")
      /\ UNCHANGED <<schema, ledger, rows, inflight, build, migrates, planted>>
  BY DEF Refuse, MigrateFails, Release
<1>2. lock = Orphan => lock' = Orphan
  BY <1>1, BootAssumption DEF IInv, TypeOK
<1>3. LeftBehind'
  BY <1>1, <1>2 DEF IInv, LeftBehind, Describes
<1>4. lock' \in Replicas \cup {Nobody, Orphan}
  BY <1>1 DEF IInv, TypeOK
<1>5. planted' \in [Replicas -> 0..Len(Seeds)] /\ inflight' \in {None} \cup (Nat \X Contents)
  BY <1>1 DEF IInv, TypeOK
<1>6. \A q \in Replicas : q # r /\ lock = q => lock' = q
  BY <1>1
<1> QED BY <1>1, <1>3, <1>4, <1>5, <1>6, LeaveInv

LEMMA UnlockInv == ASSUME IInv, NEW r \in Replicas, Unlock(r) PROVE IInv'
<1>1. /\ pc[r] = "unlock" /\ lock' \in {Nobody, Orphan} /\ Migrated(r, "check")
      /\ UNCHANGED <<schema, ledger, rows, inflight, build, migrates, planted>>
  BY DEF Unlock
<1>2. lock = r
  BY <1>1 DEF IInv, LockHeld, Migrating
<1>3. inflight = None
  BY <1>2, BootAssumption DEF IInv, LeftBehind
<1>4. LeftBehind'
  BY <1>1, <1>3 DEF LeftBehind
<1>5. planted' \in [Replicas -> 0..Len(Seeds)] /\ inflight' \in {None} \cup (Nat \X Contents)
  BY <1>1 DEF IInv, TypeOK
<1>6. \A n \in DOMAIN build[r] : n \in DOMAIN ledger /\ ledger[n] = build[r][n]
  BY <1>1, BuildFacts DEF IInv, Informed, InformedOf, Reading, Migrating
<1> QED BY <1>1, <1>2, <1>4, <1>5, <1>6, LeaveInv

LEMMA DieInv == ASSUME IInv, NEW r \in Replicas, Die(r) PROVE IInv'
<1>1. /\ lock' = IF lock = r THEN Orphan ELSE lock
      /\ inflight' = IF pc[r] = "commit" THEN <<todo[r], build[r][todo[r]]>> ELSE inflight
      /\ Migrated(r, "down")
      /\ planted' = [planted EXCEPT ![r] = 0]
      /\ UNCHANGED <<schema, ledger, rows, build, migrates>>
  BY DEF Die
<1>2. lock' \in Replicas \cup {Nobody, Orphan}
  BY <1>1 DEF IInv, TypeOK
<1>3. planted' \in [Replicas -> 0..Len(Seeds)]
  <2>1. Len(Seeds) \in Nat
    BY BootAssumption
  <2> QED BY <1>1, <2>1 DEF IInv, TypeOK
<1>4. CASE pc[r] = "commit"
  <2>1. /\ todo[r] = Len(schema) + 1 /\ todo[r] \in DOMAIN build[r]
        /\ Describes(build[r]) /\ build[r] \in Builds
        /\ <<todo[r], build[r][todo[r]]>> \in Nat \X Contents
    BY <1>4, NextInPlace, BuildFacts
  <2>2. lock = r
    BY <1>4 DEF IInv, LockHeld, Migrating
  <2>3. inflight' = <<todo[r], build[r][todo[r]]>> /\ lock' = Orphan
    BY <1>1, <1>4, <2>2
  <2>4. LeftBehind'
    BY <1>1, <2>1, <2>3 DEF LeftBehind, Describes
  <2>5. \A q \in Replicas : q # r /\ lock = q => lock' = q
    BY <2>2
  <2> QED BY <1>1, <1>2, <1>3, <2>1, <2>3, <2>4, <2>5, LeaveInv
<1>5. CASE pc[r] # "commit"
  <2>1. inflight' = inflight /\ inflight' \in {None} \cup (Nat \X Contents)
    BY <1>1, <1>5 DEF IInv, TypeOK
  <2>2. lock = Orphan => lock' = Orphan
    BY <1>1
  <2>3. LeftBehind'
    BY <1>1, <2>1, <2>2 DEF IInv, LeftBehind, Describes
  <2>4. \A q \in Replicas : q # r /\ lock = q => lock' = q
    BY <1>1
  <2> QED BY <1>1, <1>2, <1>3, <2>1, <2>3, <2>4, LeaveInv
<1> QED BY <1>4, <1>5

\* While the session of a dead process is alive, nobody is migrating.
LEMMA OrphanInv == ASSUME IInv, OrphanCommits \/ OrphanEnds PROVE IInv'
<1>1. lock = Orphan
  BY DEF OrphanCommits, OrphanEnds, IInv, LeftBehind
<1>2. \A q \in Replicas : pc[q] \notin Migrating /\ todo[q] = 1
  BY <1>1, BootAssumption DEF IInv, LockHeld, Informed, InformedOf, Reading
<1>3. UNCHANGED <<rows, pc, build, migrates, applied, todo, planted>> /\ inflight' = None
  BY DEF OrphanCommits, OrphanEnds, Committed
<1>4. LockHeld' /\ LeftBehind' /\ SeedIsWhole'
  BY <1>2, <1>3 DEF LockHeld, LeftBehind, IInv, SeedIsWhole
<1>5. Informed'
  BY <1>2, <1>3 DEF Informed, InformedOf, Reading, Migrating
<1>6. CASE OrphanEnds
  <2>1. UNCHANGED <<schema, ledger>> /\ lock' = Nobody
    BY <1>6 DEF OrphanEnds
  <2>2. TypeOK' /\ LedgerIsSchema' /\ SomebodysShape' /\ ServesItsSchema'
    BY <1>3, <2>1 DEF IInv, TypeOK, LedgerIsSchema, SomebodysShape, ServesItsSchema
  <2> QED BY <1>4, <1>5, <2>2 DEF IInv
<1>7. CASE OrphanCommits
  <2>1. Committed(inflight[1], inflight[2]) /\ lock' = lock /\ inflight # None
    BY <1>7 DEF OrphanCommits
  <2>2. inflight[2] \in Contents
    BY <2>1 DEF IInv, TypeOK
  <2>3. PICK b \in Builds : /\ Describes(b) /\ inflight[1] \in DOMAIN b
                            /\ b[inflight[1]] = inflight[2]
    BY <2>1 DEF IInv, LeftBehind
  <2>4. inflight[1] = Len(schema) + 1
    BY <2>1 DEF IInv, LeftBehind
  <2>5. /\ schema' \in Seq(Nat \X Contents) /\ ledger' \in [DOMAIN schema' -> Contents]
        /\ DOMAIN ledger' = 1..(Len(schema) + 1)
        /\ \A m \in DOMAIN ledger : ledger'[m] = ledger[m]
        /\ LedgerIsSchema' /\ SomebodysShape'
    BY <2>1, <2>2, <2>3, <2>4, CommittedKeeps
  <2>6. TypeOK'
    BY <1>3, <2>1, <2>5 DEF IInv, TypeOK
  <2>7. \A m \in DOMAIN ledger : m \in DOMAIN ledger'
    BY <2>5, LedgerFacts
  <2>8. ServesItsSchema'
    BY <1>3, <2>5, <2>7 DEF IInv, ServesItsSchema
  <2> QED BY <1>4, <1>5, <2>5, <2>6, <2>8 DEF IInv
<1> QED BY <1>6, <1>7

LEMMA NextInv == IInv /\ [Next]_vars => IInv'
<1>1. ASSUME IInv, UNCHANGED vars PROVE IInv'
  <2>1. /\ schema' = schema /\ ledger' = ledger /\ rows' = rows /\ lock' = lock
        /\ inflight' = inflight /\ pc' = pc /\ build' = build /\ migrates' = migrates
        /\ applied' = applied /\ todo' = todo /\ planted' = planted
    BY <1>1 DEF vars, database
  <2>2. TypeOK'
    BY <1>1, <2>1 DEF IInv, TypeOK
  <2>3. LedgerIsSchema' /\ SeedIsWhole'
    BY <1>1, <2>1 DEF IInv, LedgerIsSchema, SeedIsWhole
  <2>4. SomebodysShape'
    BY <1>1, <2>1 DEF IInv, SomebodysShape
  <2>5. LockHeld' /\ ServesItsSchema'
    BY <1>1, <2>1 DEF IInv, LockHeld, ServesItsSchema
  <2>6. LeftBehind'
    BY <1>1, <2>1 DEF IInv, LeftBehind, Describes
  <2>7. Informed'
    <3>1. ASSUME NEW r \in Replicas PROVE InformedOf(r)'
      BY <1>1, <2>1 DEF IInv, Informed, InformedOf
    <3> QED BY <3>1 DEF Informed
  <2> QED BY <2>2, <2>3, <2>4, <2>5, <2>6, <2>7 DEF IInv
<1>2. ASSUME IInv, Next PROVE IInv'
  BY <1>2, StartInv, SeedInv, TakeLockInv, ReadAppliedInv, NextFileInv, TransactionInv,
     CommitInv, FailInv, UnlockInv, DieInv, OrphanInv DEF Next, Statement
<1> QED BY <1>1, <1>2

-----------------------------------------------------------------------------
(* The theorems.                                                            *)

\* Every reachable state satisfies the inductive invariant.
THEOREM Invariance == Spec => []IInv
BY InitInv, NextInv, PTL DEF Spec

\* The variables keep their types; the ledger has no gap.
THEOREM TypeCorrect == Spec => []TypeOK
<1>1. IInv => TypeOK
  BY DEF IInv
<1> QED BY <1>1, Invariance, PTL

\* schema_migrations tells what was done to the schema, whoever did it and
\* whoever died in the middle, and some build describes it.
THEOREM LedgerTellsSchema == Spec => [](LedgerIsSchema /\ SomebodysShape)
<1>1. IInv => LedgerIsSchema /\ SomebodysShape
  BY DEF IInv
<1> QED BY <1>1, Invariance, PTL

\* A file that is about to be applied or recorded is new to the database: the
\* lock spares every replica the error of having come second.
THEOREM NobodyComesSecond == Spec => []NoRaceIsLost
<1>1. ASSUME IInv PROVE NoRaceIsLost
  <2> SUFFICES ASSUME NEW r \in Replicas, pc[r] \in {"apply", "record"}
               PROVE  /\ todo[r] \notin Names(schema)
                      /\ ~HeldByOther(r, todo[r])
                      /\ todo[r] \notin DOMAIN ledger
    BY DEF NoRaceIsLost
  <2>1. todo[r] = Len(schema) + 1
    BY <1>1, NextInPlace
  <2>2. lock = r
    BY <1>1 DEF IInv, LockHeld, Migrating
  <2>3. \A q \in Replicas \ {r} : pc[q] \notin {"record", "commit"}
    BY <1>1, <2>2 DEF IInv, LockHeld, Migrating
  <2>4. inflight = None
    BY <1>1, <2>2, BootAssumption DEF IInv, LeftBehind
  <2> QED BY <1>1, <2>1, <2>3, <2>4, LedgerFacts DEF HeldByOther
<1> QED BY <1>1, Invariance, PTL

\* A replica that migrates serves on the schema of its own build.
THEOREM ServedSchema == Spec => []ServesItsSchema
<1>1. IInv => ServesItsSchema
  BY DEF IInv
<1> QED BY <1>1, Invariance, PTL

\* Once a row of the demonstration data is in the database, all of it is, but
\* for rows whose ids desks took: no death, clash or race leaves it in part.
THEOREM SeedWhole == Spec => []SeedIsWhole
<1>1. IInv => SeedIsWhole
  BY DEF IInv
<1> QED BY <1>1, Invariance, PTL
=============================================================================
