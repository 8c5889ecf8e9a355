------------------------------- MODULE Database -------------------------------
(***************************************************************************)
(* The one SQLite connection all threads share (app/infrastructure/db.py)  *)
(* and txn() (app/infrastructure/repositories.py): what the actions of the *)
(* other modules take for granted when they are one step.                  *)
(*                                                                         *)
(* SQLite knows one transaction per connection, not per thread: whoever    *)
(* executes a statement while one is open takes part in it.  A re-entrant  *)
(* lock around every statement, every fetch and every transaction keeps    *)
(* the threads apart, and a depth per thread lets only the outermost txn() *)
(* commit or roll back.                                                    *)
(***************************************************************************)
EXTENDS Integers, FiniteSets

CONSTANTS
    DbThreads,          \* threads of the process
    MigrationFiles,     \* storage/migrations/*.up.sql, numbered in their order
    Rerunnable,         \* those that can be run again (CREATE TABLE IF NOT EXISTS)
    MaxDepth,           \* bound on nested txn()
    MaxStatements,      \* bound on the writes of a thread
    CommitMayFail       \* whether COMMIT may find the database locked by another process

ASSUME DatabaseAssumption ==
    /\ MigrationFiles \in Nat /\ Rerunnable \subseteq 1..MigrationFiles
    /\ MaxDepth \in Nat /\ MaxStatements \in Nat /\ CommitMayFail \in BOOLEAN

VARIABLES
    migrating,      \* the process: [up, executed and not yet recorded, schema, recorded]
    holder,         \* who holds the connection lock, or NoThread
    depth,          \* _txn_state.depth of each thread
    open,           \* whether SQLite is in a transaction
    rows,           \* rows in the database file
    pending,        \* rows of the open transaction
    unit,           \* rows a thread wrote since its outermost txn() began
    told,           \* rows whose writer went on as if they were written
    cursors         \* what the SELECT a thread is stepping through has returned

databaseVars == <<migrating, holder, depth, open, rows, pending, unit, told, cursors>>

NoThread == "nobody"

ASSUME ThreadAssumption == NoThread \notin DbThreads

Closed   == [open |-> FALSE, seen |-> {}]

DatabaseInit ==
    /\ migrating = [up |-> FALSE, script |-> 0, schema |-> {}, recorded |-> {}]
    /\ holder = NoThread
    /\ depth = [t \in DbThreads |-> 0]
    /\ open = FALSE
    /\ rows = {} /\ pending = {} /\ told = {}
    /\ unit = [t \in DbThreads |-> {}]
    /\ cursors = [t \in DbThreads |-> Closed]

-----------------------------------------------------------------------------
(* apply_migrations: the script and its record are two statements.           *)

Unrecorded == (1..MigrationFiles) \ migrating.recorded

\* Mutant: the files are not sorted.
AnyFile == CHOOSE f \in Unrecorded : \A o \in Unrecorded : o <= f

NextFile   == CHOOSE f \in Unrecorded : \A o \in Unrecorded : f <= o

\* executescript: a file that cannot be run again raises, and the process does
\* not come up.
RunScript ==
    /\ ~migrating.up /\ migrating.script = 0 /\ Unrecorded # {}
    /\ NextFile \in migrating.schema => NextFile \in Rerunnable
    /\ migrating' = [migrating EXCEPT !.script = NextFile, !.schema = @ \cup {NextFile}]
    /\ UNCHANGED <<holder, depth, open, rows, pending, unit, told, cursors>>

RecordScript ==
    /\ migrating.script # 0
    /\ migrating' = [migrating EXCEPT !.script = 0, !.recorded = @ \cup {migrating.script}]
    /\ UNCHANGED <<holder, depth, open, rows, pending, unit, told, cursors>>

Serve ==
    /\ ~migrating.up /\ Unrecorded = {}
    /\ migrating' = [migrating EXCEPT !.up = TRUE]
    /\ UNCHANGED <<holder, depth, open, rows, pending, unit, told, cursors>>

-----------------------------------------------------------------------------
\* The connection lock, which a thread may take again.
CanLock(t) == holder \in {NoThread, t}

\* Mutant: only txn() takes the lock.
AnyStatement(t) == migrating.up

\* SerializedConnection.execute, SerializedCursor: every statement and every
\* fetch takes the lock.
Statement(t) == migrating.up /\ CanLock(t)

\* txn(): the lock, then BEGIN IMMEDIATE unless the thread is in a transaction;
\* one that raises gives the lock back.
EnterTxn(t) ==
    /\ migrating.up /\ CanLock(t) /\ depth[t] < MaxDepth /\ ~cursors[t].open
    /\ depth[t] = 0 => ~open
    /\ holder' = t
    /\ depth' = [depth EXCEPT ![t] = @ + 1]
    /\ open' = TRUE
    /\ UNCHANGED <<migrating, rows, pending, unit, told, cursors>>

\* A write: into the open transaction if there is one, else committed at once.
Written(t) == Cardinality({r \in rows \cup pending \cup unit[t] : r[1] = t})
Execute(t) ==
    /\ Statement(t) /\ ~cursors[t].open
    /\ Written(t) < MaxStatements
    /\ LET row == <<t, Written(t) + 1>>
       IN  /\ IF open THEN pending' = pending \cup {row} /\ UNCHANGED rows
              ELSE rows' = rows \cup {row} /\ UNCHANGED pending
           /\ IF depth[t] = 0 THEN told' = told \cup {row} /\ UNCHANGED unit
              ELSE unit' = [unit EXCEPT ![t] = @ \cup {row}] /\ UNCHANGED told
    /\ UNCHANGED <<migrating, holder, depth, open, cursors>>

\* Mutant: every txn() ends the transaction, as `with conn:` would.
AnyTxn(t) == depth[t] > 0

\* Only the outermost txn() ends the transaction.
Outermost(t) == depth[t] = 1

\* The end of a txn(), by return or by exception.  A nested one does nothing:
\* its exception goes to the code around it, which may let it pass or not.  A
\* COMMIT that fails leaves the transaction open and the lock free.
LeaveTxn(t, raised, commits) ==
    /\ holder = t /\ depth[t] > 0 /\ ~cursors[t].open
    /\ cursors' = [cursors EXCEPT ![t] = Closed]
    /\ depth' = [depth EXCEPT ![t] = @ - 1]
    /\ holder' = IF depth[t] = 1 THEN NoThread ELSE t
    /\ IF ~Outermost(t) THEN UNCHANGED <<open, rows, pending, unit, told>>
       ELSE /\ unit' = [unit EXCEPT ![t] = {}]
            /\ open' = (~raised /\ ~commits)
            /\ rows' = IF ~raised /\ commits THEN rows \cup pending ELSE rows
            /\ pending' = IF ~raised /\ ~commits THEN pending ELSE {}
            /\ told' = IF ~raised /\ commits THEN told \cup unit[t] ELSE told
    /\ UNCHANGED migrating

\* A SELECT: execute() steps to the first row, fetchall() to the others, and the
\* lock is free in between unless the thread is in a transaction.  The rows are
\* seen as they are when they are stepped to.  Each SELECT of the code is fetched
\* in the same expression.
Select(t) ==
    /\ Statement(t) /\ ~cursors[t].open
    /\ \E first \in SUBSET (rows \cup pending) :
        /\ Cardinality(first) <= 1
        /\ cursors' = [cursors EXCEPT ![t] = [open |-> TRUE, seen |-> first]]
    /\ UNCHANGED <<migrating, holder, depth, open, rows, pending, unit, told>>

Fetch(t) ==
    /\ Statement(t) /\ cursors[t].open
    /\ cursors' = [cursors EXCEPT ![t] = [open |-> FALSE, seen |-> @.seen \cup rows \cup pending]]
    /\ UNCHANGED <<migrating, holder, depth, open, rows, pending, unit, told>>

\* The process stops and starts again: what was not committed is gone.
CrashDb ==
    /\ migrating' = [migrating EXCEPT !.up = FALSE, !.script = 0]
    /\ holder' = NoThread
    /\ depth' = [t \in DbThreads |-> 0]
    /\ open' = FALSE
    /\ pending' = {}
    /\ unit' = [t \in DbThreads |-> {}]
    /\ cursors' = [t \in DbThreads |-> Closed]
    /\ UNCHANGED <<rows, told>>

DatabaseNext ==
    \/ RunScript \/ RecordScript \/ Serve \/ CrashDb
    \/ \E t \in DbThreads :
        \/ EnterTxn(t) \/ Execute(t) \/ Select(t) \/ Fetch(t)
        \/ \E raised \in BOOLEAN, commits \in {TRUE, ~CommitMayFail} : LeaveTxn(t, raised, commits)

DatabaseSpec == DatabaseInit /\ [][DatabaseNext]_databaseVars

-----------------------------------------------------------------------------
DatabaseTypeOK ==
    /\ migrating.recorded \subseteq migrating.schema /\ migrating.schema \subseteq 1..MigrationFiles
    /\ holder \in DbThreads \cup {NoThread}
    /\ depth \in [DbThreads -> 0..MaxDepth]
    /\ open \in BOOLEAN
    /\ \A t \in DbThreads : \A r \in unit[t] : r[1] = t

\* "Multi-statement atomic units must commit together": the file holds just the
\* rows whose writers were told so, those of a transaction all at once, and none
\* of an outermost transaction that raised or was cut off; and a thread that is not in a
\* transaction has read no row that is not in the file.
TableIsWhatWasTold ==
    /\ rows = told
    /\ \A t \in DbThreads : depth[t] = 0 /\ cursors[t].seen # {} => cursors[t].seen \subseteq rows

\* Migrations build on each other: one is executed only when all before it are
\* recorded, so a crash leaves at most one that is executed and not recorded, the
\* first of those left; and the process serves when all are.
MigrationsInOrder ==
    /\ \A f \in migrating.schema : 1..f - 1 \subseteq migrating.recorded
    /\ migrating.up => 1..MigrationFiles \subseteq migrating.recorded

-----------------------------------------------------------------------------
(* Refinement                                                                *)

InTxn   == {t \in DbThreads : depth[t] > 0}
HasRead == [t \in DbThreads |-> cursors[t].seen]

Units == INSTANCE UnitsOfWork WITH
    Threads <- DbThreads,
    Rows    <- DbThreads \X (1..MaxStatements),
    file    <- rows,
    inside  <- InTxn,
    own     <- unit,
    seen    <- HasRead

\* "Concurrent webhooks/claims cannot interleave inside an open transaction", and
\* "only the outermost context commits": one connection, its lock and the depths
\* give each thread units of work of its own, committed whole or not at all.
ImplementsUnits == Units!Spec
=============================================================================
