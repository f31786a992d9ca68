----------------------------- MODULE Migrations -----------------------------
(***************************************************************************)
(* Open and Migrate: processes of possibly different releases start on one *)
(* SQLite file, each bringing the schema to the version it was built for.  *)
(* Every statement is a step, so starts interleave, fail and crash between *)
(* any two of them.  Version v stands both for the record of v in table    *)
(* schema_migrations and for the objects its script creates.               *)
(***************************************************************************)
EXTENDS Integers, FiniteSets, FiniteSetsExt

CONSTANTS
    Processes,      \* processes that open the file
    Latest,         \* LatestSchemaVersion of the release each of them runs
    NoProcess,      \* nobody
    MaxStarts       \* bound on how often each process is started

ASSUME LatestAssumption == Latest \in [Processes -> Nat \ {0}]
ASSUME StartsAssumption == MaxStarts \in Nat
ASSUME NobodyAssumption == NoProcess \notin Processes

VARIABLES
    historyTable,   \* schema_migrations exists
    history,        \* committed rows of schema_migrations
    objects,        \* versions whose objects are committed
    writeLock,      \* the process whose transaction holds SQLite's write lock
    tx,             \* uncommitted versions of each process: objects, history
    pc,             \* stage of each process
    current,        \* local variable current of Migrate
    starts          \* how often each process was started

db == <<historyTable, history, objects>>
vars == <<historyTable, history, objects, writeLock, tx, pc, current, starts>>

Migrating == {"create", "version", "apply", "record", "commit"}
Stages == Migrating \cup {"down", "ready", "failed", "refused", "lost"}

NoTransaction == [objects |-> {}, history |-> {}]

Versions == Nat \ {0}

\* Type invariant: versions are positive, as the CHECK of schema_migrations
\* demands, and the lock belongs to a process or to nobody.
TypeOK ==
    /\ historyTable \in BOOLEAN
    /\ history \in SUBSET Versions
    /\ objects \in SUBSET Versions
    /\ writeLock \in Processes \cup {NoProcess}
    /\ tx \in [Processes -> [objects : SUBSET Versions, history : SUBSET Versions]]
    /\ pc \in [Processes -> Stages]
    /\ current \in [Processes -> Nat]
    /\ starts \in [Processes -> Nat]

Init ==
    /\ historyTable = FALSE
    /\ history = {}
    /\ objects = {}
    /\ writeLock = NoProcess
    /\ tx = [p \in Processes |-> NoTransaction]
    /\ pc = [p \in Processes |-> "down"]
    /\ current = [p \in Processes |-> 0]
    /\ starts = [p \in Processes |-> 0]

-----------------------------------------------------------------------------

Goto(p, stage) == pc' = [pc EXCEPT ![p] = stage]

WriteLockFree(p) == writeLock \in {p, NoProcess}

\* The deferred Rollback, or the process going away.
Rollback(p) ==
    /\ tx' = [tx EXCEPT ![p] = NoTransaction]
    /\ writeLock' = IF writeLock = p THEN NoProcess ELSE writeLock

\* Migrate returns an error and Open closes the database.
Fail(p, stage) ==
    /\ Rollback(p)
    /\ Goto(p, stage)
    /\ UNCHANGED <<db, current, starts>>

Start(p) ==
    /\ pc[p] \notin Migrating \cup {"ready"}
    /\ starts[p] < MaxStarts
    /\ starts' = [starts EXCEPT ![p] = @ + 1]
    /\ current' = [current EXCEPT ![p] = 0]
    /\ Goto(p, "create")
    /\ UNCHANGED <<db, writeLock, tx>>

\* CREATE TABLE IF NOT EXISTS, outside a transaction.
CreateHistoryTable(p) ==
    /\ pc[p] = "create"
    /\ historyTable \/ WriteLockFree(p)
    /\ historyTable' = TRUE
    /\ Goto(p, "version")
    /\ UNCHANGED <<history, objects, writeLock, tx, current, starts>>

\* The number of records must equal the greatest version.
SchemaVersion ==
    LET greatest == Max(history \cup {0})
    IN  IF Cardinality(history) = greatest THEN greatest ELSE -1

ReadVersion(p) ==
    /\ pc[p] = "version"
    /\ SchemaVersion \in 0 .. Latest[p]
    /\ current' = [current EXCEPT ![p] = SchemaVersion]
    /\ Goto(p, "apply")
    /\ UNCHANGED <<db, writeLock, tx, starts>>

\* The schema the release was built for is refused, too.
RejectUpToDate(p) ==
    /\ pc[p] = "version"
    /\ SchemaVersion \notin 0 .. Latest[p] - 1
    /\ Fail(p, "refused")

RejectVersion(p) ==
    /\ pc[p] = "version"
    /\ SchemaVersion \notin 0 .. Latest[p]
    /\ Fail(p, "refused")

\* The script runs on the database instead of the transaction.
ApplyOutsideTransaction(p) ==
    /\ pc[p] = "apply"
    /\ current[p] < Latest[p]
    /\ WriteLockFree(p)
    /\ current[p] + 1 \notin objects
    /\ objects' = objects \cup {current[p] + 1}
    /\ Goto(p, "record")
    /\ UNCHANGED <<historyTable, history, writeLock, tx, current, starts>>

\* The script of the next version, in a transaction of its own.  It takes the
\* write lock and sees everything committed before.
ApplyMigration(p) ==
    /\ pc[p] = "apply"
    /\ current[p] < Latest[p]
    /\ WriteLockFree(p)
    /\ current[p] + 1 \notin objects
    /\ writeLock' = p
    /\ tx' = [tx EXCEPT ![p] = [objects |-> {current[p] + 1}, history |-> {}]]
    /\ Goto(p, "record")
    /\ UNCHANGED <<db, current, starts>>

\* The process tries the version again instead of giving up.
RetryLostMigration(p) ==
    /\ pc[p] = "apply"
    /\ current[p] < Latest[p]
    /\ WriteLockFree(p)
    /\ current[p] + 1 \in objects
    /\ UNCHANGED vars

\* The process takes what another one created for its own migration.
AdoptLostMigration(p) ==
    /\ pc[p] = "apply"
    /\ current[p] < Latest[p]
    /\ WriteLockFree(p)
    /\ current[p] + 1 \in objects
    /\ Fail(p, "ready")

\* CREATE TABLE without IF NOT EXISTS: another process has been faster.
MigrationLost(p) ==
    /\ pc[p] = "apply"
    /\ current[p] < Latest[p]
    /\ WriteLockFree(p)
    /\ current[p] + 1 \in objects
    /\ Fail(p, "lost")

\* A migration is recorded under the version it starts from.
RecordCurrent(p) ==
    /\ pc[p] = "record"
    /\ current[p] \notin history
    /\ tx' = [tx EXCEPT ![p] = [objects |-> @.objects, history |-> {current[p]}]]
    /\ Goto(p, "commit")
    /\ UNCHANGED <<db, writeLock, current, starts>>

\* Every migration is recorded under the version of the release.
RecordLatest(p) ==
    /\ pc[p] = "record"
    /\ Latest[p] \notin history
    /\ tx' = [tx EXCEPT ![p] = [objects |-> @.objects, history |-> {Latest[p]}]]
    /\ Goto(p, "commit")
    /\ UNCHANGED <<db, writeLock, current, starts>>

RecordVersion(p) ==
    /\ pc[p] = "record"
    /\ current[p] + 1 \notin history
    /\ tx' = [tx EXCEPT ![p] = [objects |-> @.objects, history |-> {current[p] + 1}]]
    /\ Goto(p, "commit")
    /\ UNCHANGED <<db, writeLock, current, starts>>

\* What the transaction of p leaves in the database.
Persist(p) ==
    /\ objects' = objects \cup tx[p].objects
    /\ history' = history \cup tx[p].history
    /\ UNCHANGED historyTable

\* Migrate does not advance current after it applied a version.
CommitKeepingCurrent(p) ==
    /\ pc[p] = "commit"
    /\ Persist(p)
    /\ Rollback(p)
    /\ Goto(p, "apply")
    /\ UNCHANGED <<current, starts>>

CommitVersion(p) ==
    /\ pc[p] = "commit"
    /\ Persist(p)
    /\ Rollback(p)
    /\ current' = [current EXCEPT ![p] = @ + 1]
    /\ Goto(p, "apply")
    /\ UNCHANGED starts

\* Commit reports an error although the transaction is on disk.
CommitUncertain(p) ==
    /\ pc[p] = "commit"
    /\ Persist(p)
    /\ Rollback(p)
    /\ Goto(p, "failed")
    /\ UNCHANGED <<current, starts>>

Ready(p) ==
    /\ pc[p] = "apply"
    /\ current[p] = Latest[p]
    /\ Goto(p, "ready")
    /\ UNCHANGED <<db, writeLock, tx, current, starts>>

\* The busy timeout expires while another process holds the write lock.
BusyTimeout(p) ==
    /\ \/ pc[p] = "create" /\ ~ historyTable
       \/ pc[p] = "apply" /\ current[p] < Latest[p]
    /\ ~ WriteLockFree(p)
    /\ Fail(p, "failed")

\* Any statement may fail: the disk, the context of the start.
StatementFails(p) == pc[p] \in Migrating /\ Fail(p, "failed")

\* The process dies, in Migrate or later.
Crash(p) ==
    /\ pc[p] \in Migrating \cup {"ready"}
    /\ Fail(p, "down")

Step(p) ==
    \/ CreateHistoryTable(p)
    \/ ReadVersion(p)
    \/ RejectVersion(p)
    \/ ApplyMigration(p)
    \/ MigrationLost(p)
    \/ RecordVersion(p)
    \/ CommitVersion(p)
    \/ Ready(p)
    \/ BusyTimeout(p)

Environment(p) ==
    \/ Start(p)
    \/ CommitUncertain(p)
    \/ StatementFails(p)
    \/ Crash(p)

Next == \E p \in Processes : Step(p) \/ Environment(p)

Spec == Init /\ [][Next]_vars

\* A process that runs keeps running, and busy timeouts expire.
FairSpec == Spec /\ \A p \in Processes : WF_vars(Step(p))

\* Every release is started, as often as it takes up to MaxStarts, and no
\* statement fails and no process dies.
FaultFreeSpec ==
    /\ Init
    /\ [][\E p \in Processes : Start(p) \/ Step(p)]_vars
    /\ \A p \in Processes : WF_vars(Step(p)) /\ WF_vars(Start(p))

-----------------------------------------------------------------------------
(* Properties                                                              *)

\* applyMigration: a version's objects and its record appear together, however
\* starts interleave and wherever one of them is cut off.
SchemaMatchesHistory == objects = history

\* Whatever mix of releases migrated the file, the records are 1 to n without
\* a gap, so the count that SchemaVersion compares never locks anybody out.
HistoryContiguous == history = 1 .. Cardinality(history)

\* Open returns a database only when everything its release expects is there,
\* and it stays there while the process runs.
ReadyMeansMigrated ==
    \A p \in Processes : pc[p] = "ready" => 1 .. Latest[p] \subseteq objects

\* A start that fails because an object exists has lost to a committed
\* migration and not to a half-done one: starting again goes on behind it.
LostToACommit ==
    \A p \in Processes :
        pc[p] = "lost" => 1 .. current[p] + 1 \subseteq history \cap objects

\* Only a release that is older than the schema is refused.
RefusedMeansOlder ==
    \A p \in Processes : pc[p] = "refused" => Latest[p] + 1 \in history

\* Every start ends, ready or with an error: neither the write lock nor a lost
\* migration keeps Open from returning.
EveryStartEnds ==
    \A p \in Processes : pc[p] \in Migrating ~> pc[p] \notin Migrating

\* Releases started at the same time fail each other's starts, but when nothing
\* else goes wrong they never all fail: one of them gets to serve.
SomebodyGetsReady == <>(\E p \in Processes : pc[p] = "ready")
=============================================================================
