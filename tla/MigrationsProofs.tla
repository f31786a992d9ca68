-------------------------- MODULE MigrationsProofs --------------------------
(***************************************************************************)
(* Proofs about Migrations, for every set of processes and every release.  *)
(***************************************************************************)
EXTENDS Migrations, FiniteSetTheorems, TLAPS

\* A process between the script and the end of its transaction.
Applying(p) == pc[p] \in {"record", "commit"}

\* The transaction of p holds what its stage says, and only an applying
\* process owns the write lock.
TransactionsFit ==
    \A p \in Processes :
        /\ writeLock = p <=> Applying(p)
        /\ ~ Applying(p) => tx[p] = NoTransaction
        /\ pc[p] = "record" => tx[p] = [objects |-> {current[p] + 1}, history |-> {}]
        /\ pc[p] = "commit" => tx[p] = [objects |-> {current[p] + 1},
                                        history |-> {current[p] + 1}]

\* What p has read of the schema is still true of it.
CurrentFits ==
    \A p \in Processes :
        /\ pc[p] \in {"apply", "record", "commit", "ready", "lost"} =>
              1 .. current[p] \subseteq history
        /\ Applying(p) => current[p] + 1 \notin history
        /\ pc[p] = "ready" => current[p] = Latest[p]
        /\ pc[p] = "lost" => current[p] + 1 \in history
        /\ pc[p] = "refused" => Latest[p] + 1 \in history

Gapless == \E n \in Nat : history = 1 .. n

\* The inductive invariant.  HistoryContiguous and ReadyMeansMigrated need to
\* know that the process about to commit version current + 1 holds the lock
\* (TransactionsFit) and that no version between is missing (CurrentFits).
IInv ==
    /\ TypeOK
    /\ SchemaMatchesHistory
    /\ Gapless
    /\ TransactionsFit
    /\ CurrentFits

\* The count and the greatest element of 1 .. n, which SchemaVersion compares.
LEMMA IntervalVersion ==
    ASSUME NEW n \in Nat
    PROVE  Cardinality(1 .. n) = n /\ Max(1 .. n \cup {0}) = n
<1>1. Cardinality(1 .. n) = n
  BY FS_Interval
<1>2. n \in 1 .. n \cup {0} /\ \A y \in 1 .. n \cup {0} : n >= y
  OBVIOUS
<1>3. \A x \in 1 .. n \cup {0} :
         (\A y \in 1 .. n \cup {0} : x >= y) => x = n
  OBVIOUS
<1>. QED
  BY <1>1, <1>2, <1>3 DEF Max

\* SchemaVersion returns the number of migrations of a gapless history.
LEMMA VersionOfGapless ==
    ASSUME NEW n \in Nat, history = 1 .. n
    PROVE  SchemaVersion = n
BY IntervalVersion DEF SchemaVersion

\* The invariant holds of an empty file.
LEMMA InitIInv == Init => IInv
<1>. SUFFICES ASSUME Init PROVE IInv
  OBVIOUS
<1>1. TypeOK
  BY DEF Init, TypeOK, NoTransaction, Stages, Migrating
<1>2. Gapless
  <2>1. history = 1 .. 0
    BY DEF Init
  <2>. QED
    BY <2>1 DEF Gapless
<1>. QED
  BY <1>1, <1>2, NobodyAssumption
  DEF Init, IInv, SchemaMatchesHistory, TransactionsFit, CurrentFits, Applying

\* A step that ends the attempt of p, and its transaction, keeps the invariant.
LEMMA FailKeepsIInv ==
    ASSUME IInv, NEW p \in Processes, NEW s \in {"down", "failed"}, Fail(p, s)
    PROVE  IInv'
<1>. USE DEF Fail, Rollback, Goto, db
<1>1. TypeOK'
  BY DEF IInv, TypeOK, NoTransaction, Stages
<1>2. TransactionsFit'
  BY NobodyAssumption DEF IInv, TypeOK, TransactionsFit, Applying, NoTransaction
<1>3. CurrentFits'
  BY DEF IInv, TypeOK, CurrentFits, Applying
<1>. QED
  BY <1>1, <1>2, <1>3 DEF IInv, SchemaMatchesHistory, Gapless

\* Committing the next version keeps the history gapless: the lock has kept
\* every other process from committing since the script ran.
LEMMA PersistKeepsIInv ==
    ASSUME IInv, NEW p \in Processes, pc[p] = "commit", Persist(p), Rollback(p),
           starts' = starts,
           \/ /\ pc' = [pc EXCEPT ![p] = "apply"]
              /\ current' = [current EXCEPT ![p] = @ + 1]
           \/ /\ pc' = [pc EXCEPT ![p] = "failed"]
              /\ current' = current
    PROVE  IInv'
<1>. DEFINE v == current[p] + 1
<1>1. /\ tx[p] = [objects |-> {v}, history |-> {v}]
      /\ v \in Versions /\ v \notin history
      /\ 1 .. current[p] \subseteq history
  BY DEF IInv, TypeOK, TransactionsFit, CurrentFits, Applying, Versions
<1>2. history' = history \cup {v} /\ objects' = objects \cup {v}
  BY <1>1 DEF Persist
<1>3. TypeOK'
  BY <1>1, <1>2 DEF IInv, TypeOK, Persist, Rollback, NoTransaction, Stages, Migrating
<1>4. SchemaMatchesHistory'
  BY <1>2 DEF IInv, SchemaMatchesHistory
<1>5. Gapless'
  <2>1. PICK n \in Nat : history = 1 .. n
    BY DEF IInv, Gapless
  <2>2. current[p] \in Nat
    BY DEF IInv, TypeOK
  <2>3. n = current[p]
    <3>1. ~ current[p] < n
      <4>. SUFFICES ASSUME current[p] < n PROVE FALSE
        OBVIOUS
      <4>. QED
        BY <1>1, <2>1, <2>2 DEF Versions
    <3>2. ~ current[p] > n
      <4>. SUFFICES ASSUME current[p] > n PROVE FALSE
        OBVIOUS
      <4>1. current[p] \in 1 .. current[p]
        BY <2>2
      <4>. QED
        BY <1>1, <2>1, <2>2, <4>1
    <3>. QED
      BY <3>1, <3>2, <2>2
  <2>4. history' = 1 .. n + 1
    BY <1>2, <2>1, <2>2, <2>3
  <2>. QED
    BY <2>4 DEF Gapless
<1>6. TransactionsFit'
  BY NobodyAssumption DEF IInv, TypeOK, TransactionsFit, Applying, NoTransaction, Rollback
<1>7. CurrentFits'
  <2>. SUFFICES ASSUME NEW q \in Processes
                PROVE  (/\ pc[q] \in {"apply", "record", "commit", "ready", "lost"} =>
                              1 .. current[q] \subseteq history
                        /\ Applying(q) => current[q] + 1 \notin history
                        /\ pc[q] = "ready" => current[q] = Latest[q]
                        /\ pc[q] = "lost" => current[q] + 1 \in history
                        /\ pc[q] = "refused" => Latest[q] + 1 \in history)'
    BY DEF CurrentFits
  <2>1. CASE q = p
    <3>1. ASSUME pc'[p] = "apply" PROVE 1 .. current'[p] \subseteq history'
      <4>1. current[p] \in Nat /\ current'[p] = v
        BY <3>1 DEF IInv, TypeOK
      <4>2. 1 .. v = 1 .. current[p] \cup {v}
        BY <4>1
      <4>. QED
        BY <1>1, <1>2, <4>1, <4>2
    <3>. QED
      BY <2>1, <3>1 DEF IInv, TypeOK, Applying
  <2>2. CASE q # p
    <3>1. pc'[q] = pc[q] /\ current'[q] = current[q]
      BY <2>2 DEF IInv, TypeOK
    <3>2. ~ Applying(q)
      BY <2>2 DEF IInv, TransactionsFit, Applying
    <3>. QED
      BY <1>2, <3>1, <3>2 DEF IInv, CurrentFits, Applying
  <2>. QED
    BY <2>1, <2>2
<1>. QED
  BY <1>3, <1>4, <1>5, <1>6, <1>7 DEF IInv

\* Every step keeps the invariant.
LEMMA NextIInv == IInv /\ [Next]_vars => IInv'
<1>. SUFFICES ASSUME IInv, [Next]_vars PROVE IInv'
  OBVIOUS
<1>. USE DEF Goto, db
<1>1. ASSUME NEW p \in Processes, Start(p) PROVE IInv'
  <2>1. TypeOK'
    BY <1>1 DEF Start, IInv, TypeOK, Stages, Migrating
  <2>2. TransactionsFit'
    BY <1>1 DEF Start, IInv, TypeOK, TransactionsFit, Applying, NoTransaction, Migrating
  <2>3. CurrentFits'
    BY <1>1 DEF Start, IInv, TypeOK, CurrentFits, Applying
  <2>. QED
    BY <1>1, <2>1, <2>2, <2>3 DEF Start, IInv, SchemaMatchesHistory, Gapless
<1>2. ASSUME NEW p \in Processes, CreateHistoryTable(p) PROVE IInv'
  <2>1. TypeOK'
    BY <1>2 DEF CreateHistoryTable, IInv, TypeOK, Stages, Migrating
  <2>2. TransactionsFit'
    BY <1>2 DEF CreateHistoryTable, IInv, TypeOK, TransactionsFit, Applying, NoTransaction
  <2>3. CurrentFits'
    BY <1>2 DEF CreateHistoryTable, IInv, TypeOK, CurrentFits, Applying
  <2>. QED
    BY <1>2, <2>1, <2>2, <2>3
    DEF CreateHistoryTable, IInv, SchemaMatchesHistory, Gapless
<1>3. ASSUME NEW p \in Processes, ReadVersion(p) PROVE IInv'
  <2>1. PICK n \in Nat : history = 1 .. n
    BY DEF IInv, Gapless
  <2>2. SchemaVersion = n
    BY <2>1, VersionOfGapless
  <2>3. current' = [current EXCEPT ![p] = n]
    BY <1>3, <2>2 DEF ReadVersion
  <2>4. TypeOK'
    BY <1>3, <2>3 DEF ReadVersion, IInv, TypeOK, Stages, Migrating
  <2>5. TransactionsFit'
    BY <1>3, <2>3 DEF ReadVersion, IInv, TypeOK, TransactionsFit, Applying, NoTransaction
  <2>6. CurrentFits'
    BY <1>3, <2>1, <2>3 DEF ReadVersion, IInv, TypeOK, CurrentFits, Applying
  <2>. QED
    BY <1>3, <2>4, <2>5, <2>6 DEF ReadVersion, IInv, SchemaMatchesHistory, Gapless
<1>4. ASSUME NEW p \in Processes, RejectVersion(p) PROVE IInv'
  <2>. USE <1>4 DEF RejectVersion, Fail, Rollback
  <2>1. PICK n \in Nat : history = 1 .. n
    BY DEF IInv, Gapless
  <2>2. SchemaVersion = n
    BY <2>1, VersionOfGapless
  <2>3. Latest[p] + 1 \in history
    <3>1. Latest[p] \in Nat
      BY LatestAssumption
    <3>2. n \notin 0 .. Latest[p]
      BY <2>2
    <3>. QED
      BY <2>1, <3>1, <3>2
  <2>4. TypeOK'
    BY DEF IInv, TypeOK, NoTransaction, Stages
  <2>5. TransactionsFit'
    BY NobodyAssumption DEF IInv, TypeOK, TransactionsFit, Applying, NoTransaction
  <2>6. CurrentFits'
    BY <2>3 DEF IInv, TypeOK, CurrentFits, Applying
  <2>. QED
    BY <2>4, <2>5, <2>6 DEF IInv, SchemaMatchesHistory, Gapless
<1>5. ASSUME NEW p \in Processes, ApplyMigration(p) PROVE IInv'
  <2>. USE <1>5 DEF ApplyMigration
  <2>1. current[p] \in Nat /\ current[p] + 1 \in Versions
    BY DEF IInv, TypeOK, Versions
  <2>2. TypeOK'
    BY <2>1 DEF IInv, TypeOK, Stages, Migrating
  <2>3. writeLock = NoProcess
    BY DEF WriteLockFree, IInv, TransactionsFit, Applying
  <2>4. TransactionsFit'
    <3>1. tx'[p] = [objects |-> {current[p] + 1}, history |-> {}]
      BY DEF IInv, TypeOK
    <3>2. \A q \in Processes : q # p => ~ Applying(q) /\ tx'[q] = tx[q] /\ pc'[q] = pc[q]
      BY <2>3, NobodyAssumption DEF IInv, TypeOK, TransactionsFit, Applying, NoTransaction
    <3>. QED
      BY <2>3, <3>1, <3>2 DEF IInv, TypeOK, TransactionsFit, Applying, NoTransaction
  <2>5. CurrentFits'
    BY DEF IInv, TypeOK, CurrentFits, Applying, SchemaMatchesHistory
  <2>. QED
    BY <2>2, <2>4, <2>5 DEF IInv, SchemaMatchesHistory, Gapless
<1>6. ASSUME NEW p \in Processes, MigrationLost(p) PROVE IInv'
  <2>. USE <1>6 DEF MigrationLost, Fail, Rollback
  <2>1. TypeOK'
    BY DEF IInv, TypeOK, NoTransaction, Stages
  <2>2. TransactionsFit'
    BY NobodyAssumption DEF IInv, TypeOK, TransactionsFit, Applying, NoTransaction
  <2>3. CurrentFits'
    BY DEF IInv, TypeOK, CurrentFits, Applying, SchemaMatchesHistory
  <2>. QED
    BY <2>1, <2>2, <2>3 DEF IInv, SchemaMatchesHistory, Gapless
<1>7. ASSUME NEW p \in Processes, RecordVersion(p) PROVE IInv'
  <2>. USE <1>7 DEF RecordVersion
  <2>1. current[p] \in Nat /\ current[p] + 1 \in Versions
    BY DEF IInv, TypeOK, Versions
  <2>2. TypeOK'
    BY <2>1 DEF IInv, TypeOK, Stages, Migrating
  <2>3. TransactionsFit'
    <3>1. tx[p] = [objects |-> {current[p] + 1}, history |-> {}]
      BY DEF IInv, TransactionsFit
    <3>2. tx'[p] = [objects |-> {current[p] + 1}, history |-> {current[p] + 1}]
      BY <3>1 DEF IInv, TypeOK
    <3>3. \A q \in Processes : q # p => tx'[q] = tx[q] /\ pc'[q] = pc[q]
      BY DEF IInv, TypeOK
    <3>. QED
      BY <3>2, <3>3 DEF IInv, TypeOK, TransactionsFit, Applying
  <2>4. CurrentFits'
    BY DEF IInv, TypeOK, CurrentFits, Applying
  <2>. QED
    BY <2>2, <2>3, <2>4 DEF IInv, SchemaMatchesHistory, Gapless
<1>8. ASSUME NEW p \in Processes, CommitVersion(p) \/ CommitUncertain(p) PROVE IInv'
  BY <1>8, PersistKeepsIInv DEF CommitVersion, CommitUncertain
<1>9. ASSUME NEW p \in Processes, Ready(p) PROVE IInv'
  <2>1. TypeOK'
    BY <1>9 DEF Ready, IInv, TypeOK, Stages
  <2>2. TransactionsFit'
    BY <1>9 DEF Ready, IInv, TypeOK, TransactionsFit, Applying, NoTransaction
  <2>3. CurrentFits'
    BY <1>9 DEF Ready, IInv, TypeOK, CurrentFits, Applying
  <2>. QED
    BY <1>9, <2>1, <2>2, <2>3 DEF Ready, IInv, SchemaMatchesHistory, Gapless
<1>10. ASSUME NEW p \in Processes, BusyTimeout(p) \/ StatementFails(p) \/ Crash(p)
       PROVE  IInv'
  BY <1>10, FailKeepsIInv DEF BusyTimeout, StatementFails, Crash
<1>11. CASE UNCHANGED vars
  BY <1>11 DEF vars, IInv, TypeOK, SchemaMatchesHistory, Gapless, TransactionsFit,
               CurrentFits, Applying
<1>. QED
  BY <1>1, <1>2, <1>3, <1>4, <1>5, <1>6, <1>7, <1>8, <1>9, <1>10, <1>11
  DEF Next, Step, Environment

\* The invariant holds of every reachable state.
THEOREM Invariance == Spec => []IInv
<1>. QED
  BY InitIInv, NextIInv, PTL DEF Spec

\* The type invariant holds for every set of processes and releases.
THEOREM TypeCorrect == Spec => []TypeOK
<1>1. IInv => TypeOK
  BY DEF IInv
<1>. QED
  BY <1>1, Invariance, PTL

\* applyMigration makes a version's objects and its record visible together,
\* for any number of processes starting, failing and crashing.
THEOREM MigrationsAtomic == Spec => []SchemaMatchesHistory
<1>1. IInv => SchemaMatchesHistory
  BY DEF IInv
<1>. QED
  BY <1>1, Invariance, PTL

\* The records of schema_migrations never have a gap, whatever releases wrote
\* them, so SchemaVersion never rejects a history the program itself made.
THEOREM HistoryGapless == Spec => []HistoryContiguous
<1>1. IInv => HistoryContiguous
  <2>. SUFFICES ASSUME IInv PROVE HistoryContiguous
    OBVIOUS
  <2>1. PICK n \in Nat : history = 1 .. n
    BY DEF IInv, Gapless
  <2>. QED
    BY <2>1, IntervalVersion DEF HistoryContiguous
<1>. QED
  BY <1>1, Invariance, PTL

\* Open never hands out a database that lacks something its release expects.
THEOREM ReadyIsMigrated == Spec => []ReadyMeansMigrated
<1>1. IInv => ReadyMeansMigrated
  BY DEF IInv, ReadyMeansMigrated, CurrentFits, SchemaMatchesHistory
<1>. QED
  BY <1>1, Invariance, PTL

\* A start that lost a migration lost it to a committed one.
THEOREM LosersLostToACommit == Spec => []LostToACommit
<1>1. IInv => LostToACommit
  <2>. SUFFICES ASSUME IInv, NEW p \in Processes, pc[p] = "lost"
                PROVE  1 .. current[p] + 1 \subseteq history \cap objects
    BY DEF LostToACommit
  <2>1. /\ current[p] \in Nat
        /\ 1 .. current[p] \subseteq history
        /\ current[p] + 1 \in history
        /\ objects = history
    BY DEF IInv, TypeOK, CurrentFits, SchemaMatchesHistory
  <2>2. 1 .. current[p] + 1 = 1 .. current[p] \cup {current[p] + 1}
    BY <2>1
  <2>. QED
    BY <2>1, <2>2
<1>. QED
  BY <1>1, Invariance, PTL

\* Only releases older than the schema are refused.
THEOREM RefusedAreOlder == Spec => []RefusedMeansOlder
<1>1. IInv => RefusedMeansOlder
  BY DEF IInv, RefusedMeansOlder, CurrentFits
<1>. QED
  BY <1>1, Invariance, PTL
=============================================================================
