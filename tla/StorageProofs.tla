----------------------------- MODULE StorageProofs -----------------------------
(***************************************************************************)
(* Why one shared connection is enough, for any number of threads, nested  *)
(* transactions and crashes: a thread that may execute a statement either  *)
(* is in the open transaction or finds none open.  It takes that COMMIT    *)
(* does not fail; a COMMIT that does leaves the transaction open and the   *)
(* lock free, and the next writer is part of it.  The shape of the state   *)
(* and the order of the migrations hold all the same.  Then: the steps of  *)
(* the connection are those of UnitsOfWork, and, of the other thing that   *)
(* is stored here, a session and its summary (SessionCompaction), that a   *)
(* compaction neither forgets a request nor tells it twice.                *)
(***************************************************************************)
EXTENDS Database, SessionCompaction, FiniteSetTheorems, WellFoundedInduction, TLAPS

\* The shape of what the proofs look at.
Shape ==
    /\ depth \in [DbThreads -> Nat]
    /\ unit = [t \in DbThreads |-> unit[t]]
    /\ cursors = [t \in DbThreads |-> cursors[t]]
    /\ open \in BOOLEAN
    /\ holder \in DbThreads \cup {NoThread}

\* SQLite is in a transaction when a thread holds the lock over it, and then
\* every row of it is that thread's.
OneOwner ==
    /\ open <=> holder # NoThread
    /\ \A t \in DbThreads : depth[t] > 0 <=> holder = t
    /\ pending = IF open THEN unit[holder] ELSE {}
    /\ \A t \in DbThreads : depth[t] = 0 => unit[t] = {}

DbInv == Shape /\ OneOwner /\ TableIsWhatWasTold

-----------------------------------------------------------------------------
LEMMA InitDb == DatabaseInit => DbInv
  <1> SUFFICES ASSUME DatabaseInit PROVE DbInv
    OBVIOUS
  <1>1. Shape
    BY DEF DatabaseInit, Shape
  <1>2. OneOwner
    BY ThreadAssumption DEF DatabaseInit, OneOwner
  <1>3. TableIsWhatWasTold
    BY DEF DatabaseInit, TableIsWhatWasTold, Closed
  <1> QED
    BY <1>1, <1>2, <1>3 DEF DbInv

\* Outside a transaction whoever may execute a statement finds none open.
LEMMA NoneOpen ==
    ASSUME DbInv, NEW t \in DbThreads, CanLock(t), depth[t] = 0
    PROVE  holder = NoThread /\ ~open /\ pending = {}
  BY ThreadAssumption DEF DbInv, Shape, OneOwner, CanLock

\* Inside one it is its own.
LEMMA OwnOpen ==
    ASSUME DbInv, NEW t \in DbThreads, depth[t] > 0
    PROVE  holder = t /\ open /\ pending = unit[t]
  BY ThreadAssumption DEF DbInv, Shape, OneOwner

LEMMA EnterDb ==
    ASSUME DbInv, NEW t \in DbThreads, EnterTxn(t)
    PROVE  DbInv'
  <1>1. Shape'
    BY DEF DbInv, Shape, EnterTxn
  <1>2. OneOwner'
    <2>1. CASE depth[t] = 0
      BY <2>1, NoneOpen, ThreadAssumption DEF DbInv, Shape, OneOwner, EnterTxn
    <2>2. CASE depth[t] > 0
      BY <2>2, OwnOpen, ThreadAssumption DEF DbInv, Shape, OneOwner, EnterTxn
    <2> QED
      BY <2>1, <2>2 DEF DbInv, Shape
  <1>3. TableIsWhatWasTold'
    BY DEF DbInv, Shape, TableIsWhatWasTold, EnterTxn
  <1> QED
    BY <1>1, <1>2, <1>3 DEF DbInv

LEMMA ExecuteDb ==
    ASSUME DbInv, NEW t \in DbThreads, Execute(t)
    PROVE  DbInv'
  <1>1. CanLock(t)
    BY DEF Execute, Statement
  <1>2. PICK row : /\ IF open THEN pending' = pending \cup {row} /\ UNCHANGED rows
                      ELSE rows' = rows \cup {row} /\ UNCHANGED pending
                   /\ IF depth[t] = 0 THEN told' = told \cup {row} /\ UNCHANGED unit
                      ELSE unit' = [unit EXCEPT ![t] = @ \cup {row}] /\ UNCHANGED told
    BY DEF Execute
  <1>3. UNCHANGED <<migrating, holder, depth, open, cursors>>
    BY DEF Execute
  <1>4. CASE depth[t] = 0
    <2>1. holder = NoThread /\ ~open /\ pending = {}
      BY <1>1, <1>4, NoneOpen
    <2>2. Shape'
      BY <1>2, <1>3, <1>4 DEF DbInv, Shape
    <2>3. OneOwner'
      BY <1>2, <1>3, <1>4, <2>1 DEF DbInv, OneOwner
    <2>4. TableIsWhatWasTold'
      BY <1>2, <1>3, <1>4, <2>1 DEF DbInv, TableIsWhatWasTold
    <2> QED
      BY <2>2, <2>3, <2>4 DEF DbInv
  <1>5. CASE depth[t] > 0
    <2>1. holder = t /\ open /\ pending = unit[t]
      BY <1>5, OwnOpen
    <2>2. /\ pending' = pending \cup {row} /\ UNCHANGED <<rows, told>>
          /\ unit' = [unit EXCEPT ![t] = @ \cup {row}]
      BY <1>2, <1>5, <2>1
    <2>3. Shape'
      BY <1>3, <2>2 DEF DbInv, Shape
    <2>4. OneOwner'
      BY <1>3, <1>5, <2>1, <2>2 DEF DbInv, Shape, OneOwner
    <2>5. TableIsWhatWasTold'
      BY <1>3, <2>2 DEF DbInv, TableIsWhatWasTold
    <2> QED
      BY <2>3, <2>4, <2>5 DEF DbInv
  <1> QED
    BY <1>4, <1>5 DEF DbInv, Shape

\* Reading changes no row, and outside a transaction sees the file only.
LEMMA ReadDb ==
    ASSUME DbInv, NEW t \in DbThreads, Select(t) \/ Fetch(t)
    PROVE  DbInv'
  <1>1. CanLock(t) /\ UNCHANGED <<migrating, holder, depth, open, rows, pending, unit, told>>
    BY DEF Select, Fetch, Statement
  <1>2. PICK is, more : /\ cursors' = [cursors EXCEPT ![t] = [open |-> is, seen |-> more]]
                        /\ more \subseteq cursors[t].seen \cup rows \cup pending
    <2>1. CASE Select(t)
      BY <2>1 DEF Select
    <2>2. CASE Fetch(t)
      BY <2>2 DEF Fetch
    <2> QED
      BY <2>1, <2>2
  <1>3. Shape'
    BY <1>1, <1>2 DEF DbInv, Shape
  <1>4. OneOwner'
    BY <1>1 DEF DbInv, OneOwner
  <1>5. ASSUME NEW o \in DbThreads, depth'[o] = 0
        PROVE  cursors'[o].seen \subseteq rows'
    <2>1. CASE o = t
      <3>1. pending = {}
        BY <1>1, <1>5, <2>1, NoneOpen
      <3>2. cursors[t].seen \subseteq rows
        BY <1>1, <1>5, <2>1 DEF DbInv, TableIsWhatWasTold
      <3> QED
        BY <1>1, <1>2, <2>1, <3>1, <3>2 DEF DbInv, Shape
    <2>2. CASE o # t
      BY <1>1, <1>2, <1>5, <2>2 DEF DbInv, Shape, TableIsWhatWasTold
    <2> QED
      BY <2>1, <2>2
  <1>6. TableIsWhatWasTold'
    BY <1>1, <1>5 DEF DbInv, TableIsWhatWasTold
  <1> QED
    BY <1>3, <1>4, <1>6 DEF DbInv

LEMMA LeaveDb ==
    ASSUME DbInv, NEW t \in DbThreads, NEW raised \in BOOLEAN, LeaveTxn(t, raised, TRUE)
    PROVE  DbInv'
  <1>1. holder = t /\ open /\ pending = unit[t] /\ depth[t] > 0
    BY OwnOpen DEF LeaveTxn
  <1>2. /\ cursors' = [cursors EXCEPT ![t] = Closed]
        /\ depth' = [depth EXCEPT ![t] = @ - 1]
        /\ holder' = IF depth[t] = 1 THEN NoThread ELSE t
    BY DEF LeaveTxn
  <1>3. Shape'
    <2>1. depth' \in [DbThreads -> Nat] /\ holder' \in DbThreads \cup {NoThread}
      BY <1>1, <1>2 DEF DbInv, Shape
    <2>2. cursors' = [o \in DbThreads |-> cursors'[o]]
      BY <1>2 DEF DbInv, Shape
    <2>3. unit' = unit \/ unit' = [unit EXCEPT ![t] = {}]
      BY DEF LeaveTxn
    <2>4. open' = open \/ open' = FALSE
      BY DEF LeaveTxn
    <2> QED
      BY <2>1, <2>2, <2>3, <2>4 DEF DbInv, Shape
  <1>4. CASE depth[t] = 1
    <2>1. /\ unit' = [unit EXCEPT ![t] = {}]
          /\ open' = FALSE /\ pending' = {}
          /\ rows' = IF ~raised THEN rows \cup pending ELSE rows
          /\ told' = IF ~raised THEN told \cup unit[t] ELSE told
      BY <1>4 DEF LeaveTxn, Outermost
    <2>2. OneOwner'
      BY <1>1, <1>2, <1>4, <2>1, ThreadAssumption DEF DbInv, Shape, OneOwner
    <2>3. TableIsWhatWasTold'
      BY <1>1, <1>2, <1>4, <2>1 DEF DbInv, Shape, TableIsWhatWasTold, Closed
    <2> QED
      BY <1>3, <2>2, <2>3 DEF DbInv
  <1>5. CASE depth[t] # 1
    <2>1. UNCHANGED <<open, rows, pending, unit, told>>
      BY <1>5 DEF LeaveTxn, Outermost
    <2>2. OneOwner'
      BY <1>1, <1>2, <1>5, <2>1, ThreadAssumption DEF DbInv, Shape, OneOwner
    <2>3. TableIsWhatWasTold'
      BY <1>1, <1>2, <1>5, <2>1 DEF DbInv, Shape, TableIsWhatWasTold, Closed
    <2> QED
      BY <1>3, <2>2, <2>3 DEF DbInv
  <1> QED
    BY <1>4, <1>5

LEMMA CrashDbKeeps ==
    ASSUME DbInv, CrashDb
    PROVE  DbInv'
  <1>1. Shape'
    BY DEF CrashDb, Shape
  <1>2. OneOwner'
    BY ThreadAssumption DEF CrashDb, OneOwner
  <1>3. TableIsWhatWasTold'
    BY DEF DbInv, CrashDb, TableIsWhatWasTold, Closed
  <1> QED
    BY <1>1, <1>2, <1>3 DEF DbInv

\* Migrations touch nothing of it.
LEMMA MigrateDb ==
    ASSUME DbInv, RunScript \/ RecordScript \/ Serve \/ UNCHANGED databaseVars
    PROVE  DbInv'
  <1>1. UNCHANGED <<holder, depth, open, rows, pending, unit, told, cursors>>
    BY DEF RunScript, RecordScript, Serve, databaseVars
  <1> QED
    BY <1>1 DEF DbInv, Shape, OneOwner, TableIsWhatWasTold

LEMMA StepDb ==
    ASSUME ~CommitMayFail, DbInv, [DatabaseNext]_databaseVars
    PROVE  DbInv'
  <1>1. CASE RunScript \/ RecordScript \/ Serve \/ UNCHANGED databaseVars
    BY <1>1, MigrateDb
  <1>2. CASE CrashDb
    BY <1>2, CrashDbKeeps
  <1>3. ASSUME NEW t \in DbThreads, EnterTxn(t) \/ Execute(t) \/ Select(t) \/ Fetch(t)
        PROVE  DbInv'
    BY <1>3, EnterDb, ExecuteDb, ReadDb
  <1>4. ASSUME NEW t \in DbThreads, NEW raised \in BOOLEAN, NEW commits \in {TRUE, ~CommitMayFail},
               LeaveTxn(t, raised, commits)
        PROVE  DbInv'
    <2>1. commits = TRUE
      BY DatabaseAssumption
    <2> QED
      BY <1>4, <2>1, LeaveDb
  <1> QED
    BY <1>1, <1>2, <1>3, <1>4 DEF DatabaseNext

\* The transactions of threads that share a connection are atomic and apart, as
\* long as COMMIT does not fail: the file holds what writers were told it holds,
\* and nobody outside a transaction has read an uncommitted row (txn() and the
\* SerializedConnection).
THEOREM TableIsWhatWasToldHolds ==
    ASSUME ~CommitMayFail
    PROVE  DatabaseSpec => []TableIsWhatWasTold
  <1>1. DbInv /\ [DatabaseNext]_databaseVars => DbInv'
    BY StepDb
  <1>2. DbInv => TableIsWhatWasTold
    BY DEF DbInv
  <1> QED
    BY InitDb, <1>1, <1>2, PTL DEF DatabaseSpec

-----------------------------------------------------------------------------
(* Types                                                                     *)

\* What is recorded was executed, and so was the script on its way to be.
MigrationsInv ==
    /\ migrating = [up |-> migrating.up, script |-> migrating.script,
                    schema |-> migrating.schema, recorded |-> migrating.recorded]
    /\ migrating.schema \subseteq 1..MigrationFiles /\ migrating.recorded \subseteq migrating.schema
    /\ migrating.script # 0 => migrating.script \in migrating.schema

ThreadsInv ==
    /\ holder \in DbThreads \cup {NoThread}
    /\ depth \in [DbThreads -> 0..MaxDepth]
    /\ open \in BOOLEAN
    /\ unit = [t \in DbThreads |-> unit[t]]
    /\ \A t \in DbThreads : \A r \in unit[t] : r[1] = t

DbTypes == MigrationsInv /\ ThreadsInv

\* Among the files that are left there is a first.
LEMMA OneIsFirst ==
    ASSUME NEW n \in Nat, NEW S \in SUBSET (1..n), S # {}
    PROVE  \E x \in S : \A y \in S : x <= y
  <1> DEFINE Below(x) == {y \in S : y < x}
             All == {Below(x) : x \in S}
  <1>1. All \subseteq FiniteSubsetsOf(S)
    <2>1. ASSUME NEW x \in S PROVE Below(x) \subseteq S /\ IsFiniteSet(Below(x))
      BY FS_BoundedSetOfNaturals, FS_Subset
    <2> QED BY <2>1 DEF FiniteSubsetsOf
  <1>2. PICK least \in All : \A other \in All : <<other, least>> \notin StrictSubsetOrdering(S)
    <2>1. All # {} /\ IsWellFoundedOn(StrictSubsetOrdering(S), FiniteSubsetsOf(S))
      BY FS_BoundedSetOfNaturals, FS_StrictSubsetOrderingWellFounded
    <2> HIDE DEF All
    <2> QED BY <1>1, <2>1, WFMin
  <1>3. PICK x \in S : least = Below(x)
    OBVIOUS
  <1>4. ASSUME NEW y \in S, y < x PROVE FALSE
    <2>1. \A z \in S : (z < y => z < x) /\ ~(y < y)
      BY <1>4
    <2>2. Below(y) \in All /\ Below(y) \subseteq Below(x) /\ y \in Below(x) /\ y \notin Below(y)
      BY <1>4, <2>1
    <2>3. <<Below(y), Below(x)>> \in StrictSubsetOrdering(S)
      BY <2>2 DEF StrictSubsetOrdering
    <2> QED BY <1>2, <1>3, <2>2, <2>3
  <1>5. \A y \in S : x <= y
    BY <1>4
  <1> QED BY <1>5

LEMMA NextFileIsLeft ==
    ASSUME MigrationsInv, Unrecorded # {}
    PROVE  NextFile \in 1..MigrationFiles /\ NextFile # 0
  <1>1. MigrationFiles \in Nat /\ Unrecorded \in SUBSET (1..MigrationFiles)
    BY DatabaseAssumption DEF Unrecorded
  <1>2. \E x \in Unrecorded : \A y \in Unrecorded : x <= y
    BY <1>1, OneIsFirst
  <1>3. NextFile \in Unrecorded
    BY <1>2 DEF NextFile
  <1> QED BY <1>1, <1>3

LEMMA RunScriptTypes == ASSUME DbTypes, RunScript PROVE DbTypes'
  <1>1. NextFile \in 1..MigrationFiles /\ NextFile # 0
    BY NextFileIsLeft DEF DbTypes, RunScript
  <1>2. PICK f \in 1..MigrationFiles : f = NextFile /\ f # 0
    BY <1>1
  <1>3. migrating' = [migrating EXCEPT !.script = f, !.schema = migrating.schema \cup {f}]
    BY <1>2 DEF RunScript
  <1>4. MigrationsInv'
    BY <1>2, <1>3, DatabaseAssumption DEF DbTypes, MigrationsInv
  <1>5. ThreadsInv'
    BY DEF RunScript, DbTypes, ThreadsInv
  <1> QED BY <1>4, <1>5 DEF DbTypes

LEMMA RecordScriptTypes == ASSUME DbTypes, RecordScript PROVE DbTypes'
  <1>1. MigrationsInv'
    BY DatabaseAssumption DEF RecordScript, DbTypes, MigrationsInv
  <1>2. ThreadsInv'
    BY DEF RecordScript, DbTypes, ThreadsInv
  <1> QED BY <1>1, <1>2 DEF DbTypes

LEMMA ServeTypes == ASSUME DbTypes, Serve PROVE DbTypes'
  <1>1. MigrationsInv'
    BY DEF Serve, DbTypes, MigrationsInv
  <1>2. ThreadsInv'
    BY DEF Serve, DbTypes, ThreadsInv
  <1> QED BY <1>1, <1>2 DEF DbTypes

LEMMA CrashTypes == ASSUME DbTypes, CrashDb PROVE DbTypes'
  <1>1. MigrationsInv'
    BY DatabaseAssumption DEF CrashDb, DbTypes, MigrationsInv
  <1>2. ThreadsInv'
    <2>1. 0 \in 0..MaxDepth
      BY DatabaseAssumption
    <2>2. depth' = [t \in DbThreads |-> 0] /\ holder' = NoThread /\ open' = FALSE /\ unit' = [t \in DbThreads |-> {}]
      BY DEF CrashDb
    <2> QED BY <2>1, <2>2 DEF ThreadsInv
  <1> QED BY <1>1, <1>2 DEF DbTypes

LEMMA EnterTypes == ASSUME DbTypes, NEW t \in DbThreads, EnterTxn(t) PROVE DbTypes'
  <1>1. MigrationsInv'
    BY DEF EnterTxn, DbTypes, MigrationsInv
  <1>2. ThreadsInv'
    BY DatabaseAssumption DEF EnterTxn, DbTypes, ThreadsInv
  <1> QED BY <1>1, <1>2 DEF DbTypes

LEMMA ExecuteTypes == ASSUME DbTypes, NEW t \in DbThreads, Execute(t) PROVE DbTypes'
  <1>1. MigrationsInv'
    BY DEF Execute, DbTypes, MigrationsInv
  <1>2. PICK n : unit' = unit \/ unit' = [unit EXCEPT ![t] = @ \cup {<<t, n>>}]
    BY DEF Execute
  <1>3. UNCHANGED <<holder, depth, open>>
    BY DEF Execute
  <1>4. /\ unit' = [o \in DbThreads |-> unit'[o]]
        /\ \A o \in DbThreads : \A r \in unit'[o] : r[1] = o
    BY <1>2 DEF DbTypes, ThreadsInv
  <1>5. ThreadsInv'
    BY <1>3, <1>4 DEF DbTypes, ThreadsInv
  <1> QED BY <1>1, <1>5 DEF DbTypes

LEMMA ReadTypes == ASSUME DbTypes, NEW t \in DbThreads, Select(t) \/ Fetch(t) PROVE DbTypes'
  BY DEF Select, Fetch, DbTypes, MigrationsInv, ThreadsInv

LEMMA LeaveTypes ==
    ASSUME DbTypes, NEW t \in DbThreads, NEW raised \in BOOLEAN, NEW commits \in BOOLEAN, LeaveTxn(t, raised, commits)
    PROVE  DbTypes'
  <1>1. MigrationsInv'
    BY DEF LeaveTxn, DbTypes, MigrationsInv
  <1>2. depth' \in [DbThreads -> 0..MaxDepth]
    <2>1. depth[t] - 1 \in 0..MaxDepth
      BY DatabaseAssumption DEF LeaveTxn, DbTypes, ThreadsInv
    <2> QED BY <2>1 DEF LeaveTxn, DbTypes, ThreadsInv
  <1>3. holder' \in DbThreads \cup {NoThread}
    BY DEF LeaveTxn
  <1>4. open' \in BOOLEAN
    <2>1. open' = open \/ open' = (~raised /\ ~commits)
      BY DEF LeaveTxn
    <2> QED BY <2>1, Zenon DEF DbTypes, ThreadsInv
  <1>5. unit' = unit \/ unit' = [unit EXCEPT ![t] = {}]
    BY DEF LeaveTxn
  <1>6. /\ unit' = [o \in DbThreads |-> unit'[o]]
        /\ \A o \in DbThreads : \A r \in unit'[o] : r[1] = o
    BY <1>5 DEF DbTypes, ThreadsInv
  <1> QED BY <1>1, <1>2, <1>3, <1>4, <1>6 DEF DbTypes, ThreadsInv

LEMMA DbTypesInvariant == DatabaseSpec => []DbTypes
  <1>1. DatabaseInit => DbTypes
    <2> SUFFICES ASSUME DatabaseInit PROVE DbTypes
      OBVIOUS
    <2>1. MigrationsInv
      BY DatabaseAssumption DEF DatabaseInit, MigrationsInv
    <2>2. ThreadsInv
      <3>1. 0 \in 0..MaxDepth
        BY DatabaseAssumption
      <3>2. depth = [t \in DbThreads |-> 0] /\ holder = NoThread /\ open = FALSE /\ unit = [t \in DbThreads |-> {}]
        BY DEF DatabaseInit
      <3> QED BY <3>1, <3>2 DEF ThreadsInv
    <2> QED BY <2>1, <2>2 DEF DbTypes
  <1>2. DbTypes /\ [DatabaseNext]_databaseVars => DbTypes'
    <2>1. ASSUME DbTypes, UNCHANGED databaseVars PROVE DbTypes'
      BY <2>1 DEF DbTypes, MigrationsInv, ThreadsInv, databaseVars
    <2>2. ASSUME DbTypes, RunScript \/ RecordScript \/ Serve \/ CrashDb PROVE DbTypes'
      BY <2>2, RunScriptTypes, RecordScriptTypes, ServeTypes, CrashTypes
    <2>3. ASSUME DbTypes, NEW t \in DbThreads, EnterTxn(t) \/ Execute(t) \/ Select(t) \/ Fetch(t) PROVE DbTypes'
      BY <2>3, EnterTypes, ExecuteTypes, ReadTypes
    <2>4. ASSUME DbTypes, NEW t \in DbThreads, NEW raised \in BOOLEAN, NEW commits \in {TRUE, ~CommitMayFail},
                 LeaveTxn(t, raised, commits)
          PROVE  DbTypes'
      <3>1. commits \in BOOLEAN
        BY DatabaseAssumption
      <3> QED BY <2>4, <3>1, LeaveTypes
    <2> QED BY <2>1, <2>2, <2>3, <2>4 DEF DatabaseNext
  <1> QED BY <1>1, <1>2, PTL DEF DatabaseSpec

\* The connection and the migrations have the shape the code gives them, whether
\* COMMIT may fail or not and wherever the process stops: what schema_migrations
\* lists has been executed, and a unit of work holds its own thread's rows.
THEOREM DatabaseTypeCorrect == DatabaseSpec => []DatabaseTypeOK
  <1>1. DbTypes => DatabaseTypeOK
    BY DEF DbTypes, MigrationsInv, ThreadsInv, DatabaseTypeOK
  <1> QED BY <1>1, DbTypesInvariant, PTL

\* All before the next file are recorded.
LEMMA NextFileIsFirst ==
    ASSUME MigrationsInv, Unrecorded # {}
    PROVE  1..NextFile - 1 \subseteq migrating.recorded
  <1>1. MigrationFiles \in Nat /\ Unrecorded \in SUBSET (1..MigrationFiles)
    BY DatabaseAssumption DEF Unrecorded
  <1>2. \E x \in Unrecorded : \A y \in Unrecorded : x <= y
    BY <1>1, OneIsFirst
  <1>3. NextFile \in Unrecorded /\ \A y \in Unrecorded : NextFile <= y
    BY <1>2 DEF NextFile
  <1>4. ASSUME NEW e \in 1..NextFile - 1 PROVE e \in migrating.recorded
    <2>1. e \in 1..MigrationFiles /\ ~(NextFile <= e)
      BY <1>1, <1>3
    <2> QED BY <1>3, <2>1 DEF Unrecorded
  <1> QED BY <1>4

LEMMA OrderStep ==
    ASSUME DbTypes, MigrationsInOrder, [DatabaseNext]_databaseVars
    PROVE  MigrationsInOrder'
  <1>0. MigrationsInv
    BY DEF DbTypes
  <1>1. CASE RunScript
    <2>1. Unrecorded # {} /\ ~migrating.up
      BY <1>1 DEF RunScript
    <2>2. PICK f : f = NextFile /\ 1..f - 1 \subseteq migrating.recorded
      BY <1>0, <2>1, NextFileIsFirst
    <2>3. /\ migrating'.schema = migrating.schema \cup {f}
          /\ migrating'.recorded = migrating.recorded /\ migrating'.up = migrating.up
      BY <1>0, <1>1, <2>2 DEF RunScript, MigrationsInv
    <2> QED BY <2>1, <2>2, <2>3 DEF MigrationsInOrder
  <1>2. CASE RecordScript
    <2>1. /\ migrating'.schema = migrating.schema /\ migrating'.up = migrating.up
          /\ migrating'.recorded = migrating.recorded \cup {migrating.script}
      BY <1>0, <1>2 DEF RecordScript, MigrationsInv
    <2> QED BY <2>1 DEF MigrationsInOrder
  <1>3. CASE Serve
    <2>1. /\ migrating'.schema = migrating.schema /\ migrating'.recorded = migrating.recorded
          /\ 1..MigrationFiles \subseteq migrating.recorded
      BY <1>0, <1>3 DEF Serve, MigrationsInv, Unrecorded
    <2> QED BY <2>1 DEF MigrationsInOrder
  <1>4. CASE CrashDb
    <2>1. /\ migrating'.schema = migrating.schema /\ migrating'.recorded = migrating.recorded
          /\ ~migrating'.up
      BY <1>0, <1>4 DEF CrashDb, MigrationsInv
    <2> QED BY <2>1 DEF MigrationsInOrder
  <1>5. CASE UNCHANGED migrating
    BY <1>5 DEF MigrationsInOrder
  <1>6. ASSUME NEW t \in DbThreads, EnterTxn(t) \/ Execute(t) \/ Select(t) \/ Fetch(t) PROVE UNCHANGED migrating
    BY <1>6 DEF EnterTxn, Execute, Select, Fetch
  <1>7. ASSUME NEW t \in DbThreads, NEW raised, NEW commits, LeaveTxn(t, raised, commits) PROVE UNCHANGED migrating
    BY <1>7 DEF LeaveTxn
  <1> QED BY <1>1, <1>2, <1>3, <1>4, <1>5, <1>6, <1>7 DEF DatabaseNext, databaseVars

\* Wherever the process stops and however often it is started again, for any
\* files: none is executed before all before it are recorded, and the process
\* serves only when all are (apply_migrations).
THEOREM MigrationsInOrderHolds == DatabaseSpec => []MigrationsInOrder
  <1>1. DatabaseInit => MigrationsInOrder
    <2> SUFFICES ASSUME DatabaseInit PROVE MigrationsInOrder
      OBVIOUS
    <2>1. migrating.schema = {} /\ ~migrating.up
      BY DEF DatabaseInit
    <2> QED BY <2>1 DEF MigrationsInOrder
  <1>2. DbTypes /\ MigrationsInOrder /\ [DatabaseNext]_databaseVars => MigrationsInOrder'
    BY OrderStep
  <1> QED BY <1>1, <1>2, DbTypesInvariant, PTL DEF DatabaseSpec

-----------------------------------------------------------------------------
(* The connection gives each thread units of work                            *)

\* Rows are numbered per thread, within the bound of the model.
Stamps == DbThreads \X (1..MaxStatements)

RowsKnown ==
    /\ rows \subseteq Stamps /\ pending \subseteq Stamps
    /\ \A t \in DbThreads : unit[t] \subseteq Stamps

\* A thread has written finitely many, so the next one has a number.
LEMMA NextRowIsKnown ==
    ASSUME RowsKnown, NEW t \in DbThreads, Written(t) < MaxStatements
    PROVE  <<t, Written(t) + 1>> \in Stamps
  <1> DEFINE Mine == {r \in rows \cup pending \cup unit[t] : r[1] = t}
             stamp == [n \in 1..MaxStatements |-> <<t, n>>]
             All == {stamp[n] : n \in 1..MaxStatements}
  <1>1. IsFiniteSet(All)
    <2>1. IsFiniteSet(1..MaxStatements)
      BY FS_Interval, DatabaseAssumption
    <2>2. stamp \in [1..MaxStatements -> All] /\ \A x \in All : \E n \in 1..MaxStatements : stamp[n] = x
      OBVIOUS
    <2>3. stamp \in Surjection(1..MaxStatements, All)
      BY <2>2 DEF Surjection
    <2> HIDE DEF stamp, All
    <2> QED BY <2>1, <2>3, FS_Surjection
  <1>2. Mine \subseteq All
    BY DEF RowsKnown, Stamps
  <1>3. IsFiniteSet(Mine)
    <2> HIDE DEF Mine, All
    <2> QED BY <1>1, <1>2, FS_Subset
  <1>4. Cardinality(Mine) \in Nat
    BY <1>3, FS_CardinalityType
  <1>5. Written(t) \in Nat
    BY <1>4 DEF Written
  <1>6. Written(t) + 1 \in 1..MaxStatements
    BY <1>5, DatabaseAssumption
  <1> QED BY <1>6 DEF Stamps

LEMMA KnownStep ==
    ASSUME RowsKnown, [DatabaseNext]_databaseVars, DbInv
    PROVE  RowsKnown'
  <1>0. unit = [t \in DbThreads |-> unit[t]]
    BY DEF DbInv, Shape
  <1>1. ASSUME NEW t \in DbThreads, Execute(t) PROVE RowsKnown'
    <2>1. PICK row : /\ row = <<t, Written(t) + 1>>
                     /\ rows' \in {rows, rows \cup {row}} /\ pending' \in {pending, pending \cup {row}}
                     /\ unit' \in {unit, [unit EXCEPT ![t] = @ \cup {row}]}
      BY <1>1 DEF Execute
    <2>2. row \in Stamps
      BY <1>1, <2>1, NextRowIsKnown DEF Execute
    <2>3. rows' \subseteq Stamps /\ pending' \subseteq Stamps
      BY <2>1, <2>2 DEF RowsKnown
    <2>4. \A o \in DbThreads : unit'[o] \subseteq unit[o] \cup {row}
      BY <1>0, <2>1
    <2> QED BY <2>2, <2>3, <2>4 DEF RowsKnown
  <1>2. ASSUME NEW t \in DbThreads, NEW raised, NEW commits, LeaveTxn(t, raised, commits) PROVE RowsKnown'
    <2>1. /\ rows' \in {rows, rows \cup pending} /\ pending' \in {pending, {}}
          /\ unit' \in {unit, [unit EXCEPT ![t] = {}]}
      BY <1>2 DEF LeaveTxn
    <2>2. \A o \in DbThreads : unit'[o] \subseteq unit[o]
      BY <1>0, <2>1
    <2> QED BY <2>1, <2>2 DEF RowsKnown
  <1>3. CASE CrashDb
    BY <1>3 DEF CrashDb, RowsKnown
  <1>4. CASE UNCHANGED <<rows, pending, unit>>
    BY <1>4 DEF RowsKnown
  <1>5. ASSUME NEW t \in DbThreads, EnterTxn(t) \/ Select(t) \/ Fetch(t) PROVE UNCHANGED <<rows, pending, unit>>
    BY <1>5 DEF EnterTxn, Select, Fetch
  <1>6. RunScript \/ RecordScript \/ Serve \/ UNCHANGED databaseVars => UNCHANGED <<rows, pending, unit>>
    BY DEF RunScript, RecordScript, Serve, databaseVars
  <1> QED BY <1>1, <1>2, <1>3, <1>4, <1>5, <1>6 DEF DatabaseNext

\* Who is inside, from the lock and the depths.
LEMMA OneInside ==
    ASSUME DbInv, NEW t \in DbThreads, depth[t] > 0
    PROVE  InTxn = {t}
  BY DEF DbInv, OneOwner, InTxn

LEMMA NoneInside ==
    ASSUME DbInv, NEW t \in DbThreads, CanLock(t), depth[t] = 0
    PROVE  InTxn = {}
  <1>1. holder = NoThread
    BY NoneOpen
  <1> QED BY <1>1, ThreadAssumption DEF DbInv, OneOwner, InTxn

\* What a thread has read changes with its cursor.
LEMMA CursorRead ==
    ASSUME DbInv, NEW t \in DbThreads, NEW is, NEW found,
           cursors' = [cursors EXCEPT ![t] = [open |-> is, seen |-> found]]
    PROVE  HasRead' = [HasRead EXCEPT ![t] = found]
  <1>1. cursors = [o \in DbThreads |-> cursors[o]]
    BY DEF DbInv, Shape
  <1>2. \A o \in DbThreads : cursors'[o].seen = IF o = t THEN found ELSE cursors[o].seen
    BY <1>1
  <1> QED BY <1>2 DEF HasRead

LEMMA EnterIsBegin ==
    ASSUME DbInv, NEW t \in DbThreads, EnterTxn(t)
    PROVE  Units!Begin(t) \/ UNCHANGED Units!vars
  <1>1. /\ depth' = [depth EXCEPT ![t] = @ + 1] /\ depth \in [DbThreads -> Nat]
        /\ CanLock(t) /\ UNCHANGED <<rows, unit, cursors>>
    BY DEF EnterTxn, DbInv, Shape
  <1>2. UNCHANGED HasRead
    BY <1>1 DEF HasRead
  <1>3. CASE depth[t] = 0
    <2>1. InTxn = {}
      BY <1>1, <1>3, NoneInside
    <2>2. InTxn' = {t}
      BY <1>1, <2>1 DEF InTxn
    <2> QED BY <1>1, <1>2, <2>1, <2>2 DEF Units!Begin
  <1>4. CASE depth[t] > 0
    <2>1. InTxn' = InTxn
      BY <1>1, <1>4 DEF InTxn
    <2> QED BY <1>1, <1>2, <2>1 DEF Units!vars
  <1> QED BY <1>1, <1>3, <1>4

LEMMA ExecuteIsWrite ==
    ASSUME DbInv, RowsKnown, NEW t \in DbThreads, Execute(t)
    PROVE  \E row \in Stamps : Units!Write(t, row) \/ Units!WriteAlone(row)
  <1>1. PICK row : /\ row = <<t, Written(t) + 1>>
                   /\ IF open THEN pending' = pending \cup {row} /\ UNCHANGED rows
                      ELSE rows' = rows \cup {row} /\ UNCHANGED pending
                   /\ IF depth[t] = 0 THEN told' = told \cup {row} /\ UNCHANGED unit
                      ELSE unit' = [unit EXCEPT ![t] = @ \cup {row}] /\ UNCHANGED told
    BY DEF Execute
  <1>2. row \in Stamps
    BY <1>1, NextRowIsKnown DEF Execute
  <1>3. CanLock(t) /\ UNCHANGED InTxn /\ UNCHANGED HasRead
    BY DEF Execute, Statement, InTxn, HasRead
  <1>4. CASE depth[t] = 0
    <2>1. InTxn = {} /\ ~open
      BY <1>3, <1>4, NoneInside, NoneOpen
    <2>2. Units!WriteAlone(row)
      BY <1>1, <1>3, <1>4, <2>1 DEF Units!WriteAlone
    <2> QED BY <1>2, <2>2
  <1>5. CASE depth[t] > 0
    <2>1. InTxn = {t} /\ open
      BY <1>5, OneInside, OwnOpen
    <2>2. Units!Write(t, row)
      BY <1>1, <1>3, <1>5, <2>1 DEF Units!Write
    <2> QED BY <1>2, <2>2
  <1> QED BY <1>4, <1>5 DEF DbInv, Shape

LEMMA CursorIsRead ==
    ASSUME DbInv, NEW t \in DbThreads, Select(t) \/ Fetch(t)
    PROVE  Units!Read(t)
  <1>1. CanLock(t) /\ UNCHANGED <<rows, unit, InTxn>>
    BY DEF Select, Fetch, Statement, InTxn
  <1>2. pending \subseteq unit[t]
    <2>1. CASE depth[t] = 0
      BY <1>1, <2>1, NoneOpen
    <2>2. CASE depth[t] > 0
      BY <2>2, OwnOpen
    <2> QED BY <2>1, <2>2 DEF DbInv, Shape
  <1>3. PICK is, found : /\ cursors' = [cursors EXCEPT ![t] = [open |-> is, seen |-> found]]
                         /\ found \subseteq cursors[t].seen \cup rows \cup pending
    <2>1. CASE Select(t)
      BY <2>1 DEF Select
    <2>2. CASE Fetch(t)
      BY <2>2 DEF Fetch
    <2> QED BY <2>1, <2>2
  <1>4. found \in SUBSET (HasRead[t] \cup rows \cup unit[t])
    BY <1>2, <1>3 DEF HasRead
  <1>5. HasRead' = [HasRead EXCEPT ![t] = found]
    BY <1>3, CursorRead
  <1> QED BY <1>1, <1>4, <1>5 DEF Units!Read

LEMMA LeaveIsEnd ==
    ASSUME DbInv, NEW t \in DbThreads, NEW raised \in BOOLEAN, LeaveTxn(t, raised, TRUE)
    PROVE  Units!Commit(t) \/ Units!RollBack(t) \/ Units!Read(t)
  <1>1. pending = unit[t] /\ depth[t] > 0 /\ InTxn = {t}
    BY OwnOpen, OneInside DEF LeaveTxn
  <1>2. /\ cursors' = [cursors EXCEPT ![t] = Closed]
        /\ depth' = [depth EXCEPT ![t] = @ - 1] /\ depth \in [DbThreads -> Nat]
    BY DEF LeaveTxn, DbInv, Shape
  <1>3. HasRead' = [HasRead EXCEPT ![t] = {}]
    BY <1>2, CursorRead DEF Closed
  <1>4. CASE depth[t] = 1
    <2>1. /\ unit' = [unit EXCEPT ![t] = {}]
          /\ rows' = IF ~raised THEN rows \cup pending ELSE rows
      BY <1>4 DEF LeaveTxn, Outermost
    <2>2. InTxn' = {}
      BY <1>1, <1>2, <1>4 DEF InTxn
    <2>3. Units!End(t)
      BY <1>1, <1>3, <2>1, <2>2 DEF Units!End
    <2> QED BY <1>1, <2>1, <2>3 DEF Units!Commit, Units!RollBack
  <1>5. CASE depth[t] # 1
    <2>1. UNCHANGED <<rows, unit>>
      BY <1>5 DEF LeaveTxn, Outermost
    <2>2. InTxn' = InTxn
      BY <1>1, <1>2, <1>5 DEF InTxn
    <2>3. {} \in SUBSET (HasRead[t] \cup rows \cup unit[t])
      OBVIOUS
    <2> QED BY <1>3, <2>1, <2>2, <2>3 DEF Units!Read
  <1> QED BY <1>4, <1>5

LEMMA CrashIsStop == CrashDb => Units!Stop
  <1> SUFFICES ASSUME CrashDb PROVE Units!Stop
    OBVIOUS
  <1>1. InTxn' = {} /\ HasRead' = [t \in DbThreads |-> {}]
    BY DEF CrashDb, InTxn, HasRead, Closed
  <1> QED BY <1>1 DEF CrashDb, Units!Stop

LEMMA StepUnits ==
    ASSUME ~CommitMayFail, DbInv, RowsKnown, [DatabaseNext]_databaseVars
    PROVE  [Units!Next]_Units!vars
  <1>1. CASE RunScript \/ RecordScript \/ Serve \/ UNCHANGED databaseVars
    <2>1. UNCHANGED <<rows, unit, depth, cursors>>
      BY <1>1 DEF RunScript, RecordScript, Serve, databaseVars
    <2> QED BY <2>1 DEF Units!vars, InTxn, HasRead
  <1>2. CASE CrashDb
    BY <1>2, CrashIsStop DEF Units!Next
  <1>3. ASSUME NEW t \in DbThreads, EnterTxn(t) PROVE [Units!Next]_Units!vars
    BY <1>3, EnterIsBegin DEF Units!Next
  <1>4. ASSUME NEW t \in DbThreads, Execute(t) PROVE [Units!Next]_Units!vars
    BY <1>4, ExecuteIsWrite DEF Units!Next, Stamps
  <1>5. ASSUME NEW t \in DbThreads, Select(t) \/ Fetch(t) PROVE [Units!Next]_Units!vars
    BY <1>5, CursorIsRead DEF Units!Next
  <1>6. ASSUME NEW t \in DbThreads, NEW raised \in BOOLEAN, NEW commits \in {TRUE, ~CommitMayFail},
               LeaveTxn(t, raised, commits)
        PROVE  [Units!Next]_Units!vars
    <2>1. commits = TRUE
      BY DatabaseAssumption
    <2> QED BY <1>6, <2>1, LeaveIsEnd DEF Units!Next
  <1> QED BY <1>1, <1>2, <1>3, <1>4, <1>5, <1>6 DEF DatabaseNext

\* One connection, one lock and a depth for each thread implement units of work:
\* every statement, every end of a txn() and every crash is one step of them or
\* none, for any threads and nesting, as long as COMMIT does not fail.
THEOREM RefinesUnits ==
    ASSUME ~CommitMayFail
    PROVE  DatabaseSpec => ImplementsUnits
  <1>1. DatabaseInit => RowsKnown /\ Units!Init
    BY DEF DatabaseInit, RowsKnown, Units!Init, InTxn, HasRead, Closed
  <1>2. DbInv /\ RowsKnown /\ [DatabaseNext]_databaseVars => DbInv' /\ RowsKnown' /\ [Units!Next]_Units!vars
    BY StepDb, KnownStep, StepUnits
  <1> QED BY InitDb, <1>1, <1>2, PTL DEF DatabaseSpec, ImplementsUnits, Units!Spec

-----------------------------------------------------------------------------
(* The session's past                                                        *)

\* Messages are replaced from the first one on, up to where the last cut was made.
CompactionShapes ==
    /\ speakers \in Seq({"user", "assistant"}) /\ Len(speakers) <= MaxTurns
    /\ firstKept \in 0..Len(speakers)
    /\ summary \subseteq 1..Len(speakers)
    /\ compacted \subseteq 1..(firstKept - 1)

RequestsSummarized == \A i \in compacted : speakers[i] = "user" => i \in summary

\* A set of numbers with a bound has a greatest one.
LEMMA GreatestOf ==
    ASSUME NEW n \in Nat, NEW S \in SUBSET (1..n), S # {}
    PROVE  \E x \in S : \A y \in S : x >= y
  <1> DEFINE Above(x) == {y \in S : x < y}
             All == {Above(x) : x \in S}
  <1>1. All \subseteq FiniteSubsetsOf(S)
    <2>1. ASSUME NEW x \in S PROVE Above(x) \subseteq S /\ IsFiniteSet(Above(x))
      BY FS_BoundedSetOfNaturals, FS_Subset
    <2> QED BY <2>1 DEF FiniteSubsetsOf
  <1>2. PICK least \in All : \A other \in All : <<other, least>> \notin StrictSubsetOrdering(S)
    <2>1. All # {} /\ IsWellFoundedOn(StrictSubsetOrdering(S), FiniteSubsetsOf(S))
      BY FS_BoundedSetOfNaturals, FS_StrictSubsetOrderingWellFounded
    <2> HIDE DEF All
    <2> QED BY <1>1, <2>1, WFMin
  <1>3. PICK x \in S : least = Above(x)
    OBVIOUS
  <1>4. ASSUME NEW y \in S, x < y PROVE FALSE
    <2>1. \A z \in S : (y < z => x < z) /\ ~(y < y)
      BY <1>4
    <2>2. Above(y) \in All /\ Above(y) \subseteq Above(x) /\ y \in Above(x) /\ y \notin Above(y)
      BY <1>4, <2>1
    <2>3. <<Above(y), Above(x)>> \in StrictSubsetOrdering(S)
      BY <2>2 DEF StrictSubsetOrdering
    <2> QED BY <1>2, <1>3, <2>2, <2>3
  <1> QED BY <1>4

\* A cut leaves a message of the user and what comes after it.
LEMMA CutLeaves ==
    ASSUME NEW tail, NEW n \in Nat, Len(tail) = n
    PROVE  Cut(tail) \in Int /\ (Cut(tail) > 0 => Cut(tail) < n)
  <1> DEFINE I == {i \in 1..Len(tail) - KeepRecent + 1 : tail[i] = "user"}
  <1>1. Cut(tail) = IF n <= Threshold THEN 0 ELSE (IF I # {} THEN Max(I) ELSE 0) - 1
    BY DEF Cut, SelectLastInSubSeq
  <1>2. ASSUME I # {}, n > Threshold PROVE Max(I) \in 1..n
    <2>1. I \in SUBSET (1..n)
      BY CompactionAssumption
    <2>2. PICK x \in I : \A y \in I : x >= y
      <3> HIDE DEF I
      <3> QED BY <1>2, <2>1, GreatestOf
    <2>3. Max(I) \in I
      <3> HIDE DEF I
      <3> QED BY <2>2 DEF Max
    <2> HIDE DEF I
    <2> QED BY <2>1, <2>3
  <1>3. n <= Threshold \/ n > Threshold
    BY CompactionAssumption
  <1> HIDE DEF I
  <1> QED BY <1>1, <1>2, <1>3

\* A message is added, and either nothing is compacted or everything from the last
\* cut to a later one is replaced.
LEMMA CompactionStep ==
    ASSUME CompactionShapes, NEW role \in {"user", "assistant"}, NEW by \in Summarizers, RecordReply(role, by)
    PROVE  /\ speakers' \in Seq({"user", "assistant"}) /\ Len(speakers') = Len(speakers) + 1
           /\ Len(speakers') <= MaxTurns
           /\ \A i \in 1..Len(speakers) : speakers'[i] = speakers[i]
           /\ \/ UNCHANGED <<summary, firstKept, compacted>>
              \/ /\ firstKept' \in firstKept+2..Len(speakers')
                 /\ summary' = {i \in firstKept+1..firstKept'-1 : speakers[i] = "user"}
                               \cup (IF by = "deterministic" THEN summary ELSE {})
                 /\ compacted' = compacted \cup (firstKept+1..firstKept'-1)
  <1>1. /\ speakers \in Seq({"user", "assistant"}) /\ Len(speakers) \in Nat /\ firstKept \in 0..Len(speakers)
    BY DEF CompactionShapes
  <1>2. speakers' = Append(speakers, role) /\ Len(speakers) < MaxTurns
    BY DEF RecordReply
  <1>3. /\ speakers' \in Seq({"user", "assistant"}) /\ Len(speakers') = Len(speakers) + 1
        /\ Len(speakers') <= MaxTurns
        /\ \A i \in 1..Len(speakers) : speakers'[i] = speakers[i]
    BY <1>1, <1>2, CompactionAssumption
  <1>4. PICK tail : tail = SubSeq(speakers', firstKept + 1, Len(speakers'))
    OBVIOUS
  <1>5. Len(tail) = Len(speakers') - firstKept /\ Len(tail) \in Nat
    BY <1>1, <1>3, <1>4
  <1>6. PICK cut \in Int : cut = Cut(tail) /\ (cut > 0 => cut < Len(tail))
    BY <1>5, CutLeaves
  <1>7. MaybeCompact(firstKept, tail, by)
    BY <1>4 DEF RecordReply
  <1>8. CASE cut > 0
    <2>1. /\ summary' = Summarize(firstKept+1..firstKept+cut, by)
          /\ firstKept' = firstKept + cut + 1
          /\ compacted' = compacted \cup (firstKept+1..firstKept+cut)
      BY <1>6, <1>7, <1>8 DEF MaybeCompact
    <2>2. cut < Len(tail) /\ firstKept \in Nat
      BY <1>1, <1>6, <1>8
    <2>3. firstKept' \in firstKept+2..Len(speakers') /\ firstKept' - 1 = firstKept + cut
      BY <1>3, <1>5, <1>8, <2>1, <2>2
    <2> QED BY <1>3, <2>1, <2>3 DEF Summarize
  <1>9. CASE ~(cut > 0)
    BY <1>3, <1>6, <1>7, <1>9 DEF MaybeCompact
  <1> QED BY <1>6, <1>8, <1>9

LEMMA CompactionStarts == CompactionInit => CompactionShapes /\ RequestsSummarized
  <1> SUFFICES ASSUME CompactionInit PROVE CompactionShapes /\ RequestsSummarized
    OBVIOUS
  <1>1. speakers \in Seq({"user", "assistant"}) /\ Len(speakers) = 0
    BY DEF CompactionInit
  <1>2. firstKept = 0 /\ summary = {} /\ compacted = {}
    BY DEF CompactionInit
  <1> QED BY <1>1, <1>2, CompactionAssumption DEF CompactionShapes, RequestsSummarized

\* The bounds of an interval tell what it is part of.
LEMMA IntervalWithin ==
    ASSUME NEW a \in Int, NEW b \in Int, NEW c \in Int, NEW d \in Int, c <= a, b <= d
    PROVE  a..b \subseteq c..d
  OBVIOUS

LEMMA CompactionInductive == CompactionShapes /\ [CompactionNext]_compactionVars => CompactionShapes'
  <1> SUFFICES ASSUME CompactionShapes, [CompactionNext]_compactionVars PROVE CompactionShapes'
    OBVIOUS
  <1>1. ASSUME NEW role \in {"user", "assistant"}, NEW by \in Summarizers, RecordReply(role, by)
        PROVE  CompactionShapes'
    <2>1. /\ speakers' \in Seq({"user", "assistant"}) /\ Len(speakers') = Len(speakers) + 1
          /\ Len(speakers') <= MaxTurns
      BY <1>1, CompactionStep
    <2>2. /\ Len(speakers) \in Nat /\ firstKept \in 0..Len(speakers) /\ summary \subseteq 1..Len(speakers)
          /\ compacted \subseteq 1..(firstKept - 1)
      BY DEF CompactionShapes
    <2>3. CASE UNCHANGED <<summary, firstKept, compacted>>
      <3>1. firstKept' \in 0..Len(speakers') /\ summary' \subseteq 1..Len(speakers')
            /\ compacted' \subseteq 1..(firstKept' - 1)
        BY <2>1, <2>2, <2>3
      <3> QED BY <2>1, <3>1 DEF CompactionShapes
    <2>4. CASE /\ firstKept' \in firstKept+2..Len(speakers')
               /\ summary' = {i \in firstKept+1..firstKept'-1 : speakers[i] = "user"}
                             \cup (IF by = "deterministic" THEN summary ELSE {})
               /\ compacted' = compacted \cup (firstKept+1..firstKept'-1)
      <3>1. firstKept' \in 0..Len(speakers') /\ firstKept < firstKept' /\ firstKept' \in Nat
        BY <2>1, <2>2, <2>4
      <3>2. firstKept+1..firstKept'-1 \subseteq 1..(firstKept' - 1)
            /\ 1..(firstKept - 1) \subseteq 1..(firstKept' - 1)
            /\ 1..(firstKept' - 1) \subseteq 1..Len(speakers')
            /\ 1..Len(speakers) \subseteq 1..Len(speakers')
        <4>0. firstKept \in Nat /\ firstKept' \in Nat /\ Len(speakers) \in Nat
          BY <2>2, <3>1
        <4>1. PICK f \in Nat, g \in Nat, n \in Nat : f = firstKept /\ g = firstKept' /\ n = Len(speakers)
          BY <4>0, Zenon
        <4>2. f < g /\ g <= n + 1 /\ Len(speakers') = n + 1
          BY <2>1, <2>4, <3>1, <4>1
        <4>3. /\ f+1..g-1 \subseteq 1..(g - 1) /\ 1..(f - 1) \subseteq 1..(g - 1)
              /\ 1..(g - 1) \subseteq 1..(n + 1) /\ 1..n \subseteq 1..(n + 1)
          BY <4>2, IntervalWithin
        <4> QED BY <4>1, <4>2, <4>3
      <3>3. compacted' \subseteq 1..(firstKept' - 1)
        BY <2>2, <2>4, <3>2
      <3>4. summary' \subseteq 1..Len(speakers')
        BY <2>2, <2>4, <3>2
      <3> QED BY <2>1, <3>1, <3>3, <3>4 DEF CompactionShapes
    <2> QED BY <1>1, <2>3, <2>4, CompactionStep
  <1>2. CASE UNCHANGED compactionVars
    BY <1>2 DEF compactionVars, CompactionShapes
  <1> QED BY <1>1, <1>2 DEF CompactionNext

\* Whoever writes the summaries, the places of a session stay well formed.
THEOREM CompactionTypeCorrect == CompactionSpec => []CompactionTypeOK
  <1>1. CompactionShapes => CompactionTypeOK
    <2> SUFFICES ASSUME CompactionShapes PROVE CompactionTypeOK
      OBVIOUS
    <2>1. /\ speakers \in Seq({"user", "assistant"}) /\ Len(speakers) <= MaxTurns /\ Len(speakers) \in Nat
          /\ firstKept \in 0..Len(speakers) /\ summary \subseteq 1..Len(speakers)
          /\ compacted \subseteq 1..(firstKept - 1) /\ DOMAIN speakers = 1..Len(speakers)
      BY DEF CompactionShapes
    <2>2. compacted \subseteq 1..Len(speakers) /\ firstKept \in {0} \cup (1..Len(speakers))
      BY <2>1
    <2> QED BY <2>1, <2>2 DEF CompactionTypeOK
  <1> QED BY <1>1, CompactionStarts, CompactionInductive, PTL DEF CompactionSpec

\* "Compacted history ... must not re-enter the window": whoever writes the
\* summaries, the window of recent messages holds none that was compacted.
THEOREM NothingTwiceHolds == CompactionSpec => []NothingTwice
  <1>1. CompactionShapes => NothingTwice
    <2> SUFFICES ASSUME CompactionShapes, NEW i \in compacted, i \in Context.window PROVE FALSE
      BY DEF NothingTwice
    <2>1. i > firstKept
      BY DEF Context, Recent, ListAfter
    <2> QED BY <2>1 DEF CompactionShapes
  <1> QED BY <1>1, CompactionStarts, CompactionInductive, PTL DEF CompactionSpec

\* With the deterministic summarizer of SessionCompactor, every request of the user
\* that any compaction replaced is told of in the summary the agent is given, and
\* none of the messages it replaced is given once more: for any thresholds.
THEOREM ContextTellsHistoryHolds ==
    ASSUME Summarizers \subseteq {"deterministic"}
    PROVE  CompactionSpec => []ContextTellsHistory
  <1> DEFINE I == CompactionShapes /\ RequestsSummarized
  <1>1. I /\ [CompactionNext]_compactionVars => I'
    <2> SUFFICES ASSUME I, [CompactionNext]_compactionVars PROVE RequestsSummarized'
      BY CompactionInductive
    <2>1. ASSUME NEW role \in {"user", "assistant"}, NEW by \in Summarizers, RecordReply(role, by)
          PROVE  RequestsSummarized'
      <3>1. /\ compacted \subseteq 1..Len(speakers) /\ Len(speakers) \in Nat
            /\ \A i \in 1..Len(speakers) : speakers'[i] = speakers[i]
        <4>1. compacted \subseteq 1..(firstKept - 1) /\ firstKept \in 0..Len(speakers) /\ Len(speakers) \in Nat
          BY DEF CompactionShapes
        <4>2. compacted \subseteq 1..Len(speakers)
          BY <4>1
        <4> QED BY <2>1, <4>1, <4>2, CompactionStep
      <3>2. CASE UNCHANGED <<summary, firstKept, compacted>>
        BY <3>1, <3>2 DEF RequestsSummarized
      <3>3. CASE /\ firstKept' \in firstKept+2..Len(speakers')
                 /\ summary' = {i \in firstKept+1..firstKept'-1 : speakers[i] = "user"}
                               \cup (IF by = "deterministic" THEN summary ELSE {})
                 /\ compacted' = compacted \cup (firstKept+1..firstKept'-1)
        <4>1. by = "deterministic"
          OBVIOUS
        <4>2. firstKept+1..firstKept'-1 \subseteq 1..Len(speakers)
          <5>1. Len(speakers') = Len(speakers) + 1 /\ firstKept \in 0..Len(speakers)
            BY <2>1, CompactionStep DEF CompactionShapes
          <5>0. firstKept \in Nat /\ firstKept' \in Nat /\ Len(speakers) \in Nat
            BY <3>1, <3>3, <5>1
          <5>2. PICK f \in Nat, g \in Nat, n \in Nat : f = firstKept /\ g = firstKept' /\ n = Len(speakers)
            BY <5>0, Zenon
          <5>3. g <= n + 1
            BY <3>3, <5>1, <5>2
          <5>4. f+1..g-1 \subseteq 1..n
            BY <5>3, IntervalWithin
          <5> QED BY <5>2, <5>4
        <4>3. ASSUME NEW i \in compacted', speakers'[i] = "user" PROVE i \in summary'
          <5>1. speakers[i] = "user"
            BY <3>1, <3>3, <4>2, <4>3
          <5> QED BY <3>3, <4>1, <4>3, <5>1 DEF RequestsSummarized
        <4> QED BY <4>3 DEF RequestsSummarized
      <3> QED BY <2>1, <3>2, <3>3, CompactionStep
    <2>2. CASE UNCHANGED compactionVars
      BY <2>2 DEF compactionVars, RequestsSummarized
    <2> QED BY <2>1, <2>2 DEF CompactionNext
  <1>2. RequestsSummarized => SummaryKeepsRequests
    BY DEF RequestsSummarized, SummaryKeepsRequests, Context
  <1>3. CompactionSpec => []SummaryKeepsRequests
    BY <1>1, <1>2, CompactionStarts, PTL DEF CompactionSpec
  <1> QED BY <1>3, NothingTwiceHolds, PTL DEF ContextTellsHistory
=============================================================================
