----------------------- MODULE DecisionServiceProofs -----------------------
(***************************************************************************)
(* Proofs about DecisionService for every set of calls, keys, actions,     *)
(* evaluations and IDs, every pool size and every number of crashes.       *)
(***************************************************************************)
EXTENDS DecisionService, TLAPS

-----------------------------------------------------------------------------
(* The inductive invariant                                                 *)

\* What a call has worked out so far, by stage.
ProgressOK(c) ==
    /\ pc[c] = "idle" => request[c] = NoValue
    /\ pc[c] \in InFlight => request[c] \in Requests
    /\ pc[c] \in {"idle", "lookup", "policy"} => prepared[c] = NoValue
    /\ pc[c] \in InFlight \ {"lookup", "policy"} =>
         prepared[c] \in EvaluationCommits
    /\ outcome[c] = "none" <=> pc[c] # "returned"
    /\ outcome[c] \in {"decided", "RequestIDConflict"} => request[c] \in Requests
    /\ outcome[c] = "decided" => record[c] \in DecisionRecords

\* What its transaction holds, by stage.  A transaction whose context is done
\* may be gone while the call still believes it is inside it.
TransactionOK(c) ==
    /\ ~ tx[c].open => tx[c] = NoTransaction
    /\ tx[c].open =>
         /\ pc[c] \in InTransaction
         /\ tx[c].requests = IF pc[c] = "insertRequest" THEN {} ELSE {request[c]}
         /\ tx[c].decisions = IF pc[c] \in {"insertRequest", "insertDecision"}
                              THEN {} ELSE {DecisionRow(c)}
         /\ tx[c].effects = IF pc[c] \in {"commit", "committing"}
                            THEN EffectRows(c) ELSE {}
    /\ pc[c] = "committing" => tx[c].open
    /\ writeLock = c <=> tx[c].open /\ pc[c] # "insertRequest"

\* The constraints its rows were checked against still hold when it commits.
ReservationOK(c) ==
    tx[c].open =>
        /\ pc[c] # "insertRequest" =>
             \A r \in actionRequests : r.key # request[c].key
        /\ pc[c] \in {"insertEffects", "commit", "committing"} =>
             \A d \in decisions : d.decisionID # prepared[c].decisionID
        /\ pc[c] \in {"commit", "committing"} =>
             \A f \in EffectRows(c), g \in policyEffects :
                 g.effectID # f.effectID

CommittedOK(c) ==
    pc[c] = "committed" =>
        request[c] \in actionRequests /\ DecisionRow(c) \in decisions

CallOK(c) ==
    ProgressOK(c) /\ TransactionOK(c) /\ ReservationOK(c) /\ CommittedOK(c)

LedgerOK ==
    /\ LedgerWhole
    /\ DecisionBelongsToItsAction
    /\ AnswersAreAuthoritative
    /\ ConflictIsReal

IInv == TypeOK /\ (\A c \in Calls : CallOK(c)) /\ LedgerOK

-----------------------------------------------------------------------------
(* Type correctness                                                        *)

\* Going on, failing and deciding keep the types of the call's variables.
LEMMA ControlTypes ==
    ASSUME CallTypeOK, NEW c \in Calls
    PROVE  /\ \A s \in Stages : Goto(c, s) => CallTypeOK'
           /\ \A e \in Errors : Fail(c, e) => CallTypeOK'
           /\ \A r \in DecisionRecords : Decide(c, r) => CallTypeOK'
<1>1. ASSUME NEW s \in Stages, Goto(c, s) PROVE CallTypeOK'
  BY <1>1 DEF CallTypeOK, Goto
<1>2. ASSUME NEW e \in Errors, Fail(c, e) PROVE CallTypeOK'
  BY <1>2 DEF CallTypeOK, Fail, Outcomes, Stages
<1>3. ASSUME NEW r \in DecisionRecords, Decide(c, r) PROVE CallTypeOK'
  BY <1>3 DEF CallTypeOK, Decide, Outcomes, Stages
<1> QED BY <1>1, <1>2, <1>3

\* A step that leaves the ledger alone keeps its types.
LEMMA LedgerUnchangedType ==
    ASSUME LedgerTypeOK, UNCHANGED ledgerVars PROVE LedgerTypeOK'
BY DEF LedgerTypeOK, ledgerVars

\* Rollback keeps the types of the ledger.
LEMMA RollbackType ==
    ASSUME LedgerTypeOK, NEW c \in Calls, Rollback(c) PROVE LedgerTypeOK'
BY DEF LedgerTypeOK, Rollback, Released, NoTransaction, Transactions, tables

\* BeginTx keeps the types of the ledger.
LEMMA BeginType ==
    ASSUME LedgerTypeOK, NEW c \in Calls, BeginTx(c) PROVE LedgerTypeOK'
BY DEF LedgerTypeOK, BeginTx, NoTransaction, Transactions, tables

\* Commit keeps the types of the ledger.
LEMMA CommitType ==
    ASSUME LedgerTypeOK, NEW c \in Calls, Commit(c) PROVE LedgerTypeOK'
BY DEF LedgerTypeOK, Commit, Released, NoTransaction, Transactions

\* insertCommittedActionRequest keeps the types of the ledger.
LEMMA InsertRequestType ==
    ASSUME LedgerTypeOK, NEW c \in Calls, NEW k \in Keys, NEW d \in Digests,
           insertCommittedActionRequest(c, k, d)
    PROVE  LedgerTypeOK'
BY DEF LedgerTypeOK, insertCommittedActionRequest, Transactions, tables,
       ActionRequestRows

\* insertCommittedDecision keeps the types of the ledger.
LEMMA InsertDecisionType ==
    ASSUME LedgerTypeOK, NEW c \in Calls, NEW d \in DecisionRows,
           insertCommittedDecision(c, d)
    PROVE  LedgerTypeOK'
BY DEF LedgerTypeOK, insertCommittedDecision, Transactions, tables

\* insertPolicyEffects keeps the types of the ledger.
LEMMA InsertEffectsType ==
    ASSUME LedgerTypeOK, NEW c \in Calls, NEW rows \in SUBSET PolicyEffectRows,
           insertPolicyEffects(c, rows)
    PROVE  LedgerTypeOK'
BY DEF LedgerTypeOK, insertPolicyEffects, Transactions, tables

\* The lookups return records, and a call's own record and rows are typed.
LEMMA StoredType ==
    ASSUME NEW c \in Calls, NEW r \in Stored(c)
    PROVE  r \in DecisionRecords
BY DEF Stored, GetEvaluationByRequestID

\* The record and the rows a call builds are typed.
LEMMA OwnTypes ==
    ASSUME NEW c \in Calls, request[c] \in Requests,
           prepared[c] \in EvaluationCommits
    PROVE  /\ OwnRecord(c) \in DecisionRecords
           /\ DecisionRow(c) \in DecisionRows
           /\ EffectRows(c) \in SUBSET PolicyEffectRows
BY DEF OwnRecord, DecisionRow, EffectRows, Requests, EvaluationCommits,
       DecisionRecords, DecisionRows, PolicyEffectRows

\* resolveExisting keeps the types of the call's variables.
LEMMA ResolveType ==
    ASSUME CallTypeOK, NEW c \in Calls, NEW r \in Stored(c),
           ResolveExisting(c, r)
    PROVE  CallTypeOK'
BY ControlTypes, StoredType DEF ResolveExisting, Errors

\* A failing database operation keeps the types.
LEMMA FailureTypes ==
    ASSUME TypeOK, NEW c \in Calls, OperationFails(c)
    PROVE  TypeOK'
<1> USE ControlTypes DEF TypeOK
<1>1. CASE QueryFails(c)
  BY <1>1, LedgerUnchangedType DEF QueryFails, Errors
<1>2. CASE InsertRequestFails(c)
  BY <1>2, RollbackType DEF InsertRequestFails, Stages, InFlight
<1>3. CASE StatementFails(c)
  BY <1>3, RollbackType DEF StatementFails, Errors
<1>4. CASE CommitFails(c)
  BY <1>4, RollbackType DEF CommitFails, Stages, InFlight
<1> QED BY <1>1, <1>2, <1>3, <1>4 DEF OperationFails

\* Every step of the code keeps the types.
LEMMA StepTypes ==
    ASSUME TypeOK, NEW c \in Calls, ProgressOK(c), Step(c)
    PROVE  TypeOK'
<1> USE ControlTypes DEF TypeOK
<1>1. CASE LookUp(c)
  BY <1>1, LedgerUnchangedType, ResolveType DEF LookUp, Stages, InFlight
<1>2. CASE EvaluatePolicy(c)
  BY <1>2, LedgerUnchangedType
     DEF EvaluatePolicy, CallTypeOK, EvaluationCommits, Stages, InFlight
<1>3. CASE PreparationFails(c)
  BY <1>3, LedgerUnchangedType DEF PreparationFails, Errors
<1>4. CASE CommitLookUp(c)
  BY <1>4, LedgerUnchangedType, ResolveType DEF CommitLookUp, Stages, InFlight
<1>5. CASE Begin(c)
  BY <1>5, BeginType DEF Begin, Stages, InFlight, InTransaction
<1>6. CASE InsertRequest(c)
  <2>1. request[c].key \in Keys /\ request[c].digest \in Digests
    BY <1>6 DEF InsertRequest, ProgressOK, InFlight, InTransaction, Requests
  <2> QED BY <1>6, <2>1, InsertRequestType
          DEF InsertRequest, Stages, InFlight, InTransaction
<1>7. CASE LostRace(c)
  BY <1>7, RollbackType DEF LostRace, Stages, InFlight
<1>8. CASE Resolve(c)
  BY <1>8, LedgerUnchangedType, ResolveType DEF Resolve, Errors
<1>9. CASE BusyTimeout(c)
  BY <1>9, FailureTypes DEF BusyTimeout, OperationFails
<1>10. CASE InsertDecision(c)
  <2>1. DecisionRow(c) \in DecisionRows
    BY <1>10, OwnTypes DEF InsertDecision, ProgressOK, InFlight, InTransaction
  <2> QED BY <1>10, <2>1, InsertDecisionType
          DEF InsertDecision, Stages, InFlight, InTransaction
<1>11. CASE DecisionRejected(c)
  BY <1>11, RollbackType DEF DecisionRejected, Errors
<1>12. CASE InsertEffects(c)
  <2>1. EffectRows(c) \in SUBSET PolicyEffectRows
    BY <1>12, OwnTypes DEF InsertEffects, ProgressOK, InFlight, InTransaction
  <2> QED BY <1>12, <2>1, InsertEffectsType
          DEF InsertEffects, Stages, InFlight, InTransaction
<1>13. CASE EffectsRejected(c)
  BY <1>13, RollbackType DEF EffectsRejected, Errors
<1>14. CASE CommitTx(c) \/ CommitDurable(c)
  BY <1>14, LedgerUnchangedType, CommitType
     DEF CommitTx, CommitDurable, Stages, InFlight, InTransaction
<1>15. CASE Recover(c)
  BY <1>15, LedgerUnchangedType, StoredType DEF Recover, Errors
<1>16. CASE Return(c)
  <2>1. OwnRecord(c) \in DecisionRecords
    BY <1>16, OwnTypes DEF Return, ProgressOK, InFlight
  <2> QED BY <1>16, <2>1, LedgerUnchangedType DEF Return
<1>17. CASE ~ ContextLive(c) /\ OperationFails(c)
  BY <1>17, FailureTypes
<1> QED BY <1>1, <1>2, <1>3, <1>4, <1>5, <1>6, <1>7, <1>8, <1>9, <1>10,
           <1>11, <1>12, <1>13, <1>14, <1>15, <1>16, <1>17 DEF Step

\* Every step of the environment keeps the types.
LEMMA EnvironmentTypes ==
    ASSUME TypeOK, NEW c \in Calls, Environment(c)
    PROVE  TypeOK'
<1> USE ControlTypes DEF TypeOK
<1>1. CASE Submit(c)
  BY <1>1, LedgerUnchangedType
     DEF Submit, CallTypeOK, Requests, Stages, InFlight
<1>2. CASE SubmitInvalid(c)
  BY <1>2, LedgerUnchangedType DEF SubmitInvalid, Errors
<1>3. CASE Cancel(c)
  BY <1>3, LedgerUnchangedType DEF Cancel, CallTypeOK
<1>4. CASE AwaitDone(c)
  BY <1>4, RollbackType DEF AwaitDone, CallTypeOK, callVars
<1>5. CASE CommitUncertain(c)
  BY <1>5, CommitType DEF CommitUncertain, Stages, InFlight
<1>6. CASE ContextLive(c) /\ OperationFails(c)
  BY <1>6, FailureTypes
<1> QED BY <1>1, <1>2, <1>3, <1>4, <1>5, <1>6 DEF Environment

\* A crash keeps the types.
LEMMA CrashTypes == ASSUME TypeOK, Crash PROVE TypeOK'
<1>1. LedgerTypeOK'
  BY DEF TypeOK, Crash, LedgerTypeOK, LoseTransactions, NoTransaction,
         Transactions, tables
<1>2. CallTypeOK'
  BY CrashAssumption DEF TypeOK, Crash, CallTypeOK, Stages
<1> QED BY <1>1, <1>2 DEF TypeOK

-----------------------------------------------------------------------------
(* Preservation of CallOK                                                  *)

\* A call that a step does not touch keeps its invariant, provided no one
\* commits under it while it holds the write lock.
SameCall(b) ==
    /\ pc'[b] = pc[b]
    /\ request'[b] = request[b]
    /\ prepared'[b] = prepared[b]
    /\ outcome'[b] = outcome[b]
    /\ record'[b] = record[b]

\* A call that a step does not touch keeps its part of the invariant.
LEMMA Bystander ==
    ASSUME NEW b \in Calls, CallOK(b), SameCall(b), tx'[b] = tx[b],
           (writeLock' = b) <=> (writeLock = b),
           writeLock = b => UNCHANGED tables,
           actionRequests \subseteq actionRequests',
           decisions \subseteq decisions'
    PROVE  CallOK(b)'
<1> USE DEF CallOK, SameCall
<1>1. ProgressOK(b)'
  BY DEF ProgressOK
<1>2. TransactionOK(b)'
  BY DEF TransactionOK, DecisionRow, EffectRows
<1>3. ReservationOK(b)'
  BY DEF ReservationOK, TransactionOK, EffectRows, tables
<1>4. CommittedOK(b)'
  BY DEF CommittedOK, DecisionRow
<1> QED BY <1>1, <1>2, <1>3, <1>4

\* The control operators move one call.
OthersSame(c) == \A b \in Calls \ {c} : SameCall(b)

\* What going on, failing and deciding change.
LEMMA ControlMoves ==
    ASSUME CallTypeOK, NEW c \in Calls
    PROVE  /\ \A s : Goto(c, s) => OthersSame(c) /\ pc'[c] = s
                /\ UNCHANGED <<request, prepared, outcome, record>>
           /\ \A e : Fail(c, e) => OthersSame(c) /\ pc'[c] = "returned"
                /\ outcome'[c] = e /\ UNCHANGED <<request, prepared, record>>
           /\ \A r : Decide(c, r) => OthersSame(c) /\ pc'[c] = "returned"
                /\ outcome'[c] = "decided" /\ record'[c] = r
                /\ UNCHANGED <<request, prepared>>
BY DEF CallTypeOK, Goto, Fail, Decide, OthersSame, SameCall

\* A rollback frees what the call holds and nothing else.
LEMMA RollbackMoves ==
    ASSUME LedgerTypeOK, NEW c \in Calls, Rollback(c)
    PROVE  /\ tx'[c] = NoTransaction
           /\ writeLock' # c
           /\ UNCHANGED tables
           /\ \A b \in Calls \ {c} :
                tx'[b] = tx[b] /\ ((writeLock' = b) <=> (writeLock = b))
BY CallsAssumption DEF LedgerTypeOK, Rollback, Released, tables

\* Steps that change no table: the other calls keep their invariant.
LEMMA OthersOK ==
    ASSUME NEW c \in Calls, \A b \in Calls : CallOK(b), OthersSame(c),
           UNCHANGED tables,
           \A b \in Calls \ {c} :
               tx'[b] = tx[b] /\ ((writeLock' = b) <=> (writeLock = b))
    PROVE  \A b \in Calls \ {c} : CallOK(b)'
<1> SUFFICES ASSUME NEW b \in Calls \ {c} PROVE CallOK(b)'
  OBVIOUS
<1> QED BY Bystander DEF OthersSame, tables

\* After a rollback the moved call holds nothing.
LEMMA RolledBackOK ==
    ASSUME TypeOK, \A b \in Calls : CallOK(b), NEW c \in Calls, Rollback(c),
           OthersSame(c), ProgressOK(c)', pc'[c] \notin {"committed", "committing"}
    PROVE  \A b \in Calls : CallOK(b)'
<1>1. \A b \in Calls \ {c} : CallOK(b)'
  BY RollbackMoves, OthersOK DEF TypeOK
<1>2. CallOK(c)'
  BY RollbackMoves DEF TypeOK, CallOK, TransactionOK, ReservationOK,
     CommittedOK, NoTransaction
<1> QED BY <1>1, <1>2

\* A step outside a transaction that leaves the ledger alone.
LEMMA QuietOK ==
    ASSUME TypeOK, \A b \in Calls : CallOK(b), NEW c \in Calls,
           UNCHANGED ledgerVars, OthersSame(c), ProgressOK(c)',
           pc[c] \notin InTransaction, pc'[c] \notin {"committed", "committing"}
    PROVE  \A b \in Calls : CallOK(b)'
<1>1. \A b \in Calls \ {c} : CallOK(b)'
  BY OthersOK DEF ledgerVars, tables
<1>2. ~ tx[c].open
  BY DEF CallOK, TransactionOK
<1>3. CallOK(c)'
  BY <1>2 DEF CallOK, TransactionOK, ReservationOK, CommittedOK, ledgerVars
<1> QED BY <1>1, <1>3

-----------------------------------------------------------------------------
(* What an answer rests on                                                 *)

AnswerOK(c) ==
    outcome[c] = "decided" =>
        /\ record[c].digest = request[c].digest
        /\ [key |-> request[c].key, digest |-> record[c].digest]
             \in actionRequests
        /\ [decisionID |-> record[c].decisionID, key |-> request[c].key,
            evaluation |-> record[c].evaluation] \in decisions

ConflictOK(c) ==
    outcome[c] = "RequestIDConflict" =>
        \E a \in actionRequests :
            a.key = request[c].key /\ a.digest # request[c].digest

\* Everything a step must re-establish about the call it moves, apart from
\* what concerns its transaction.
MovedOK(c) == ProgressOK(c) /\ AnswerOK(c) /\ ConflictOK(c)

\* A call that returns an error other than a conflict needs no ground for it.
LEMMA FailMoved ==
    ASSUME CallTypeOK, NEW c \in Calls,
           NEW e \in Errors \ {"RequestIDConflict"}, Fail(c, e)
    PROVE  MovedOK(c)'
BY ControlMoves
   DEF MovedOK, ProgressOK, AnswerOK, ConflictOK, Errors, InFlight, InTransaction

\* A call that returns a conflict has read the binding that grounds it.
LEMMA ConflictMoved ==
    ASSUME TypeOK, NEW c \in Calls, request[c] \in Requests,
           NEW r \in Stored(c), r.digest # request[c].digest,
           Fail(c, "RequestIDConflict"), UNCHANGED ledgerVars
    PROVE  MovedOK(c)'
<1>1. PICK a \in actionRequests : a.key = request[c].key /\ a.digest = r.digest
  BY DEF Stored, GetEvaluationByRequestID, RecordOf
<1>2. /\ pc'[c] = "returned" /\ outcome'[c] = "RequestIDConflict"
      /\ request'[c] = request[c] /\ actionRequests' = actionRequests
  BY ControlMoves DEF TypeOK, ledgerVars
<1>3. ConflictOK(c)'
  BY <1>1, <1>2 DEF ConflictOK
<1>4. AnswerOK(c)' /\ ProgressOK(c)'
  BY <1>2 DEF AnswerOK, ProgressOK, InFlight, InTransaction
<1> QED BY <1>3, <1>4 DEF MovedOK

\* A call that returns a stored record has read it for its own action.
LEMMA DecideMoved ==
    ASSUME TypeOK, NEW c \in Calls, request[c] \in Requests,
           NEW r \in Stored(c), r.digest = request[c].digest,
           Decide(c, r), UNCHANGED ledgerVars
    PROVE  MovedOK(c)'
<1>1. PICK d \in decisions, a \in actionRequests :
         d.key = request[c].key /\ a.key = request[c].key /\ r = RecordOf(d, a)
  BY DEF Stored, GetEvaluationByRequestID
<1>2. /\ pc'[c] = "returned" /\ outcome'[c] = "decided" /\ record'[c] = r
      /\ request'[c] = request[c] /\ r \in DecisionRecords
      /\ actionRequests' = actionRequests /\ decisions' = decisions
  BY ControlMoves, StoredType DEF TypeOK, ledgerVars
<1>3. d \in DecisionRows /\ a \in ActionRequestRows
  BY DEF TypeOK, LedgerTypeOK
<1>4. /\ d = [decisionID |-> r.decisionID, key |-> request[c].key,
              evaluation |-> r.evaluation]
      /\ a = [key |-> request[c].key, digest |-> r.digest]
  BY <1>1, <1>3 DEF RecordOf, DecisionRows, ActionRequestRows
<1>5. AnswerOK(c)'
  BY <1>2, <1>4 DEF AnswerOK
<1>6. ProgressOK(c)' /\ ConflictOK(c)'
  BY <1>2 DEF ProgressOK, ConflictOK, InFlight, InTransaction
<1> QED BY <1>5, <1>6 DEF MovedOK

\* resolveExisting returns an answer that the ledger grounds.
LEMMA ResolveMoved ==
    ASSUME TypeOK, NEW c \in Calls, request[c] \in Requests,
           NEW r \in Stored(c), ResolveExisting(c, r), UNCHANGED ledgerVars
    PROVE  MovedOK(c)' /\ OthersSame(c) /\ pc'[c] = "returned"
                /\ UNCHANGED <<request, prepared>>
BY ConflictMoved, DecideMoved, ControlMoves DEF ResolveExisting, TypeOK

\* Going on to the next database operation.
LEMMA GotoMoved ==
    ASSUME CallTypeOK, NEW c \in Calls, ProgressOK(c), NEW s \in InFlight,
           Goto(c, s), pc[c] \in InFlight \ {"policy"},
           s # "lookup", pc[c] = "lookup" <=> s = "policy"
    PROVE  MovedOK(c)'
<1>1. /\ pc'[c] = s /\ request'[c] = request[c] /\ prepared'[c] = prepared[c]
      /\ outcome'[c] = outcome[c] /\ record'[c] = record[c]
  BY ControlMoves
<1>2. outcome[c] = "none" /\ s # "returned" /\ s # "idle"
  BY DEF ProgressOK, InFlight, InTransaction
<1>3. ProgressOK(c)'
  BY <1>1, <1>2 DEF ProgressOK
<1>4. AnswerOK(c)' /\ ConflictOK(c)'
  BY <1>1, <1>2 DEF AnswerOK, ConflictOK
<1> QED BY <1>3, <1>4 DEF MovedOK

-----------------------------------------------------------------------------
(* The invariants over the tables                                          *)

\* Requests and commits are written once.
KeepsOwn(c) ==
    /\ request[c] # NoValue => request'[c] = request[c]
    /\ prepared[c] # NoValue => prepared'[c] = prepared[c]

\* While the tables stay the same, what holds of them goes on to hold.
LEMMA TablesKept ==
    ASSUME LedgerTypeOK, LedgerOK, NEW c \in Calls, UNCHANGED tables,
           OthersSame(c), KeepsOwn(c), AnswerOK(c)', ConflictOK(c)'
    PROVE  LedgerOK'
<1> USE DEF LedgerOK
<1>1. LedgerWhole'
  BY DEF LedgerWhole, tables
<1>2. DecisionBelongsToItsAction'
  <2> SUFFICES ASSUME NEW a \in actionRequests, NEW d \in decisions,
                      a.key = d.key
               PROVE  \E b \in Calls :
                         /\ request'[b] = [key |-> a.key, digest |-> a.digest]
                         /\ prepared'[b] # NoValue
                         /\ prepared'[b].decisionID = d.decisionID
                         /\ prepared'[b].evaluation = d.evaluation
    BY DEF DecisionBelongsToItsAction, tables
  <2>1. PICK b \in Calls :
           /\ request[b] = [key |-> a.key, digest |-> a.digest]
           /\ prepared[b] # NoValue
           /\ prepared[b].decisionID = d.decisionID
           /\ prepared[b].evaluation = d.evaluation
    BY DEF DecisionBelongsToItsAction
  <2>2. request[b] # NoValue
    BY <2>1, NoValueAssumption DEF LedgerTypeOK, ActionRequestRows, Requests
  <2>3. request'[b] = request[b] /\ prepared'[b] = prepared[b]
    BY <2>1, <2>2 DEF OthersSame, SameCall, KeepsOwn
  <2> QED BY <2>1, <2>3
<1>3. AnswersAreAuthoritative'
  <2> SUFFICES ASSUME NEW b \in Calls PROVE AnswerOK(b)'
    BY DEF AnswersAreAuthoritative, AnswerOK
  <2> QED BY DEF AnswersAreAuthoritative, AnswerOK, OthersSame, SameCall, tables
<1>4. ConflictIsReal'
  <2> SUFFICES ASSUME NEW b \in Calls PROVE ConflictOK(b)'
    BY DEF ConflictIsReal, ConflictOK
  <2> QED BY DEF ConflictIsReal, ConflictOK, OthersSame, SameCall, tables
<1> QED BY <1>1, <1>2, <1>3, <1>4

-----------------------------------------------------------------------------
(* The steps                                                               *)

Inv2 == (\A c \in Calls : CallOK(c)) /\ LedgerOK

\* A step that leaves the ledger alone keeps the invariant.
LEMMA QuietStep ==
    ASSUME IInv, NEW c \in Calls, UNCHANGED ledgerVars, OthersSame(c),
           KeepsOwn(c), MovedOK(c)', pc[c] \notin InTransaction,
           pc'[c] \notin {"committed", "committing"}
    PROVE  Inv2'
BY QuietOK, TablesKept DEF IInv, Inv2, MovedOK, TypeOK, ledgerVars, tables

\* A step that rolls the call's transaction back keeps the invariant.
LEMMA RollbackStep ==
    ASSUME IInv, NEW c \in Calls, Rollback(c), OthersSame(c), KeepsOwn(c),
           MovedOK(c)', pc'[c] \notin {"committed", "committing"}
    PROVE  Inv2'
BY RolledBackOK, RollbackMoves, TablesKept DEF IInv, Inv2, MovedOK, TypeOK

\* A call in flight has its request; later it has its commit, too.
LEMMA HasRequest ==
    ASSUME IInv, NEW c \in Calls, pc[c] \in InFlight
    PROVE  /\ ProgressOK(c) /\ request[c] \in Requests
           /\ pc[c] \notin {"lookup", "policy"} =>
                prepared[c] \in EvaluationCommits
BY DEF IInv, CallOK, ProgressOK

\* A failing database operation keeps the invariant.
LEMMA FailureSteps ==
    ASSUME IInv, NEW c \in Calls, OperationFails(c)
    PROVE  Inv2'
<1> CallTypeOK
  BY DEF IInv, TypeOK
<1>1. CASE QueryFails(c)
  <2>1. MovedOK(c)' /\ OthersSame(c) /\ KeepsOwn(c) /\ pc'[c] = "returned"
    BY <1>1, FailMoved, ControlMoves DEF QueryFails, Errors, KeepsOwn
  <2> QED BY <1>1, <2>1, QuietStep DEF QueryFails, InTransaction
<1>2. CASE InsertRequestFails(c)
  <2>1. MovedOK(c)' /\ OthersSame(c) /\ KeepsOwn(c) /\ pc'[c] = "recover"
    BY <1>2, HasRequest, GotoMoved, ControlMoves
       DEF InsertRequestFails, KeepsOwn, InFlight, InTransaction
  <2> QED BY <1>2, <2>1, RollbackStep DEF InsertRequestFails
<1>3. CASE StatementFails(c)
  <2>1. MovedOK(c)' /\ OthersSame(c) /\ KeepsOwn(c) /\ pc'[c] = "returned"
    BY <1>3, FailMoved, ControlMoves DEF StatementFails, Errors, KeepsOwn
  <2> QED BY <1>3, <2>1, RollbackStep DEF StatementFails
<1>4. CASE CommitFails(c)
  <2>1. MovedOK(c)' /\ OthersSame(c) /\ KeepsOwn(c) /\ pc'[c] = "recover"
    BY <1>4, HasRequest, GotoMoved, ControlMoves
       DEF CommitFails, KeepsOwn, InFlight, InTransaction
  <2> QED BY <1>4, <2>1, RollbackStep DEF CommitFails
<1> QED BY <1>1, <1>2, <1>3, <1>4 DEF OperationFails

\* Reading the ledger: at the first lookup, before the transaction, after a
\* lost race and after an error.
LEMMA ReadSteps ==
    ASSUME IInv, NEW c \in Calls,
           LookUp(c) \/ CommitLookUp(c) \/ Resolve(c) \/ Recover(c)
    PROVE  Inv2'
<1> TypeOK /\ CallTypeOK /\ UNCHANGED ledgerVars
  BY DEF IInv, TypeOK, LookUp, CommitLookUp, Resolve, Recover
<1>1. /\ pc[c] \in {"lookup", "commitLookup", "resolve", "recover"}
      /\ pc[c] \in InFlight
  BY DEF LookUp, CommitLookUp, Resolve, Recover, InFlight
<1>2. ASSUME NEW s \in {"policy", "begin"}, Goto(c, s),
             pc[c] = "lookup" <=> s = "policy"
      PROVE  Inv2'
  <2>1. MovedOK(c)' /\ OthersSame(c) /\ KeepsOwn(c) /\ pc'[c] = s
    BY <1>1, <1>2, HasRequest, GotoMoved, ControlMoves DEF KeepsOwn, InFlight
  <2> QED BY <1>1, <2>1, QuietStep DEF InTransaction
<1>3. ASSUME NEW r \in Stored(c), ResolveExisting(c, r) PROVE Inv2'
  <2>1. MovedOK(c)' /\ OthersSame(c) /\ KeepsOwn(c) /\ pc'[c] = "returned"
    BY <1>1, <1>3, HasRequest, ResolveMoved DEF KeepsOwn
  <2> QED BY <1>1, <2>1, QuietStep DEF InTransaction
<1>4. ASSUME Fail(c, "LedgerFailure") PROVE Inv2'
  <2>1. MovedOK(c)' /\ OthersSame(c) /\ KeepsOwn(c) /\ pc'[c] = "returned"
    BY <1>4, FailMoved, ControlMoves DEF Errors, KeepsOwn
  <2> QED BY <1>1, <2>1, QuietStep DEF InTransaction
<1>5. ASSUME NEW r \in Stored(c), r.digest = request[c].digest, Decide(c, r)
      PROVE  Inv2'
  BY <1>3, <1>5 DEF ResolveExisting
<1> QED BY <1>1, <1>2, <1>3, <1>4, <1>5
        DEF LookUp, CommitLookUp, Resolve, Recover

\* Policy evaluation, successful or not, keeps the invariant.
LEMMA PolicySteps ==
    ASSUME IInv, NEW c \in Calls, EvaluatePolicy(c) \/ PreparationFails(c)
    PROVE  Inv2'
<1> CallTypeOK
  BY DEF IInv, TypeOK
<1>1. CASE EvaluatePolicy(c)
  <2>1. ProgressOK(c) /\ request[c] \in Requests
    BY <1>1, HasRequest DEF EvaluatePolicy, InFlight
  <2>2. /\ OthersSame(c)
        /\ pc'[c] = "commitLookup" /\ prepared'[c] \in EvaluationCommits
        /\ request'[c] = request[c] /\ outcome'[c] = outcome[c]
        /\ record'[c] = record[c]
    BY <1>1 DEF EvaluatePolicy, CallTypeOK, EvaluationCommits, OthersSame,
                SameCall
  <2>3. MovedOK(c)'
    BY <1>1, <2>1, <2>2 DEF EvaluatePolicy, MovedOK, ProgressOK, AnswerOK,
                            ConflictOK
  <2>4. KeepsOwn(c)
    BY <1>1, <2>1, <2>2 DEF KeepsOwn, ProgressOK, EvaluatePolicy
  <2> QED BY <1>1, <2>2, <2>3, <2>4, QuietStep DEF EvaluatePolicy, InTransaction
<1>2. CASE PreparationFails(c)
  <2>1. MovedOK(c)' /\ OthersSame(c) /\ KeepsOwn(c) /\ pc'[c] = "returned"
    BY <1>2, FailMoved, ControlMoves DEF PreparationFails, Errors, KeepsOwn
  <2> QED BY <1>2, <2>1, QuietStep DEF PreparationFails, InTransaction
<1> QED BY <1>1, <1>2

\* A new command, valid or not, keeps the invariant.
LEMMA SubmitSteps ==
    ASSUME IInv, NEW c \in Calls, Submit(c) \/ SubmitInvalid(c)
    PROVE  Inv2'
<1> CallTypeOK
  BY DEF IInv, TypeOK
<1>1. CASE Submit(c)
  <2>1. /\ OthersSame(c) /\ pc'[c] = "lookup" /\ request'[c] \in Requests
        /\ prepared'[c] = prepared[c] /\ outcome'[c] = outcome[c]
        /\ record'[c] = record[c]
    BY <1>1 DEF Submit, CallTypeOK, Requests, OthersSame, SameCall
  <2>2. ProgressOK(c)
    BY DEF IInv, CallOK
  <2>3. MovedOK(c)' /\ KeepsOwn(c)
    BY <1>1, <2>1, <2>2 DEF Submit, MovedOK, ProgressOK, AnswerOK, ConflictOK,
                            KeepsOwn
  <2> QED BY <1>1, <2>1, <2>3, QuietStep DEF Submit, InTransaction
<1>2. CASE SubmitInvalid(c)
  <2>1. MovedOK(c)' /\ OthersSame(c) /\ KeepsOwn(c) /\ pc'[c] = "returned"
    BY <1>2, FailMoved, ControlMoves DEF SubmitInvalid, Errors, KeepsOwn
  <2> QED BY <1>2, <2>1, QuietStep DEF SubmitInvalid, InTransaction
<1> QED BY <1>1, <1>2

\* A statement that succeeds leaves tables and other transactions alone.
LEMMA StatementStep ==
    ASSUME IInv, NEW c \in Calls, UNCHANGED tables, OthersSame(c),
           KeepsOwn(c), MovedOK(c)', pc'[c] # "committed",
           \A b \in Calls \ {c} :
               tx'[b] = tx[b] /\ ((writeLock' = b) <=> (writeLock = b)),
           TransactionOK(c)', ReservationOK(c)'
    PROVE  Inv2'
<1>1. \A b \in Calls \ {c} : CallOK(b)'
  BY OthersOK DEF IInv
<1>2. CallOK(c)'
  BY DEF CallOK, MovedOK, CommittedOK
<1>3. LedgerOK'
  BY TablesKept DEF IInv, TypeOK, MovedOK
<1> QED BY <1>1, <1>2, <1>3 DEF Inv2

\* BeginTx keeps the invariant.
LEMMA BeginStep ==
    ASSUME IInv, NEW c \in Calls, Begin(c)
    PROVE  Inv2'
<1>1. /\ MovedOK(c)' /\ OthersSame(c) /\ KeepsOwn(c)
      /\ pc'[c] = "insertRequest"
  BY HasRequest, GotoMoved, ControlMoves
     DEF Begin, KeepsOwn, InFlight, InTransaction, IInv, TypeOK
<1>2. /\ tx'[c] = [open |-> TRUE, requests |-> {}, decisions |-> {},
                   effects |-> {}]
      /\ \A b \in Calls \ {c} : tx'[b] = tx[b]
      /\ writeLock' = writeLock /\ UNCHANGED tables
  BY DEF Begin, BeginTx, IInv, TypeOK, LedgerTypeOK, NoTransaction, tables
<1>3. writeLock # c
  BY DEF Begin, IInv, CallOK, TransactionOK, InTransaction
<1>4. TransactionOK(c)' /\ ReservationOK(c)'
  BY <1>1, <1>2, <1>3 DEF TransactionOK, ReservationOK, InTransaction
<1> QED BY <1>1, <1>2, <1>4, StatementStep

\* After the insert of the request row the key is reserved by the write lock.
LEMMA InsertRequestStep ==
    ASSUME IInv, NEW c \in Calls, InsertRequest(c)
    PROVE  Inv2'
<1>1. /\ MovedOK(c)' /\ OthersSame(c) /\ KeepsOwn(c)
      /\ pc'[c] = "insertDecision" /\ request'[c] = request[c]
      /\ request[c] \in Requests
  BY HasRequest, GotoMoved, ControlMoves
     DEF InsertRequest, KeepsOwn, InFlight, InTransaction, IInv, TypeOK
<1>2. /\ tx[c].requests = {} /\ tx[c].decisions = {} /\ tx[c].effects = {}
      /\ tx[c] \in Transactions
  BY DEF InsertRequest, insertCommittedActionRequest, IInv, CallOK,
         TransactionOK, TypeOK, LedgerTypeOK
<1>3. request[c] = [key |-> request[c].key, digest |-> request[c].digest]
  BY <1>1 DEF Requests
<1>4. /\ tx'[c].open /\ tx'[c].requests = {request[c]}
      /\ tx'[c].decisions = {} /\ tx'[c].effects = {}
      /\ \A b \in Calls \ {c} : tx'[b] = tx[b]
      /\ writeLock' = c /\ writeLock \in {NoCall, c} /\ UNCHANGED tables
      /\ \A r \in actionRequests : r.key # request[c].key
  BY <1>2, <1>3 DEF InsertRequest, insertCommittedActionRequest, IInv, TypeOK,
     LedgerTypeOK, Transactions, tables, WriteLockFree, RequestRowExists
<1>5. \A b \in Calls \ {c} : (writeLock' = b) <=> (writeLock = b)
  BY <1>4, CallsAssumption
<1>6. TransactionOK(c)' /\ ReservationOK(c)'
  BY <1>1, <1>4 DEF TransactionOK, ReservationOK, InTransaction, tables
<1> QED BY <1>1, <1>4, <1>5, <1>6, StatementStep

\* After the insert of the decision its ID is reserved by the write lock.
LEMMA InsertDecisionStep ==
    ASSUME IInv, NEW c \in Calls, InsertDecision(c)
    PROVE  Inv2'
<1>1. /\ MovedOK(c)' /\ OthersSame(c) /\ KeepsOwn(c)
      /\ pc'[c] = "insertEffects" /\ request'[c] = request[c]
      /\ prepared'[c] = prepared[c]
  BY HasRequest, GotoMoved, ControlMoves
     DEF InsertDecision, KeepsOwn, InFlight, InTransaction, IInv, TypeOK
<1>2. /\ tx[c].requests = {request[c]} /\ tx[c].decisions = {}
      /\ tx[c].effects = {} /\ tx[c].open
      /\ tx[c] \in Transactions /\ writeLock = c
      /\ \A r \in actionRequests : r.key # request[c].key
  BY DEF InsertDecision, insertCommittedDecision, IInv, CallOK,
         TransactionOK, ReservationOK, TypeOK, LedgerTypeOK
<1>3. /\ tx'[c].open /\ tx'[c].requests = {request[c]}
      /\ tx'[c].decisions = {DecisionRow(c)} /\ tx'[c].effects = {}
      /\ \A b \in Calls \ {c} : tx'[b] = tx[b]
      /\ writeLock' = writeLock /\ UNCHANGED tables
  BY <1>2 DEF InsertDecision, insertCommittedDecision, IInv, TypeOK,
     LedgerTypeOK, Transactions, tables
<1>4. \A d \in decisions : d.decisionID # prepared[c].decisionID
  BY DEF InsertDecision, insertCommittedDecision, DecisionRowAllowed,
         VisibleDecisions, DecisionRow
<1>5. TransactionOK(c)' /\ ReservationOK(c)'
  BY <1>1, <1>2, <1>3, <1>4
     DEF TransactionOK, ReservationOK, InTransaction, tables, DecisionRow
<1> QED BY <1>1, <1>3, <1>5, StatementStep

\* After the insert of the effects their IDs are reserved by the write lock.
LEMMA InsertEffectsStep ==
    ASSUME IInv, NEW c \in Calls, InsertEffects(c)
    PROVE  Inv2'
<1>1. /\ MovedOK(c)' /\ OthersSame(c) /\ KeepsOwn(c)
      /\ pc'[c] = "commit" /\ request'[c] = request[c]
      /\ prepared'[c] = prepared[c]
  BY HasRequest, GotoMoved, ControlMoves
     DEF InsertEffects, KeepsOwn, InFlight, InTransaction, IInv, TypeOK
<1>2. /\ tx[c].requests = {request[c]} /\ tx[c].decisions = {DecisionRow(c)}
      /\ tx[c].effects = {} /\ tx[c].open
      /\ tx[c] \in Transactions /\ writeLock = c
      /\ \A r \in actionRequests : r.key # request[c].key
      /\ \A d \in decisions : d.decisionID # prepared[c].decisionID
  BY DEF InsertEffects, insertPolicyEffects, IInv, CallOK,
         TransactionOK, ReservationOK, TypeOK, LedgerTypeOK
<1>3. /\ tx'[c].open /\ tx'[c].requests = {request[c]}
      /\ tx'[c].decisions = {DecisionRow(c)} /\ tx'[c].effects = EffectRows(c)
      /\ \A b \in Calls \ {c} : tx'[b] = tx[b]
      /\ writeLock' = writeLock /\ UNCHANGED tables
  BY <1>2 DEF InsertEffects, insertPolicyEffects, IInv, TypeOK,
     LedgerTypeOK, Transactions, tables
<1>4. \A f \in EffectRows(c), g \in policyEffects : g.effectID # f.effectID
  BY DEF InsertEffects, insertPolicyEffects, EffectRowsAllowed, VisibleEffects
<1>5. EffectRows(c)' = EffectRows(c) /\ DecisionRow(c)' = DecisionRow(c)
  BY <1>1 DEF EffectRows, DecisionRow
<1>6. TransactionOK(c)' /\ ReservationOK(c)'
  BY <1>1, <1>2, <1>3, <1>4, <1>5
     DEF TransactionOK, ReservationOK, InTransaction, tables
<1> QED BY <1>1, <1>3, <1>6, StatementStep

\* Tx.Commit taking the transaction over keeps the invariant.
LEMMA CommittingStep ==
    ASSUME IInv, NEW c \in Calls, CommitTx(c)
    PROVE  Inv2'
<1>1. /\ MovedOK(c)' /\ OthersSame(c) /\ KeepsOwn(c)
      /\ pc'[c] = "committing" /\ request'[c] = request[c]
      /\ prepared'[c] = prepared[c]
  BY HasRequest, GotoMoved, ControlMoves
     DEF CommitTx, KeepsOwn, InFlight, InTransaction, IInv, TypeOK
<1>2. /\ pc[c] = "commit" /\ tx[c].open /\ UNCHANGED <<tx, writeLock, tables>>
  BY DEF CommitTx, ledgerVars, tables
<1>3. EffectRows(c)' = EffectRows(c) /\ DecisionRow(c)' = DecisionRow(c)
  BY <1>1 DEF EffectRows, DecisionRow
<1>4. TransactionOK(c) /\ ReservationOK(c)
  BY DEF IInv, CallOK
<1>5. TransactionOK(c)'
  BY <1>1, <1>2, <1>3, <1>4 DEF TransactionOK, InTransaction
<1>6. ReservationOK(c)'
  BY <1>1, <1>2, <1>3, <1>4 DEF ReservationOK, tables
<1> QED BY <1>1, <1>2, <1>5, <1>6, StatementStep

\* The commit: the three tables gain the rows of one call, for a key and with
\* IDs that no committed row has.  The write lock is what makes the checks of
\* the earlier statements still true here.
Fresh(c) ==
    /\ request[c] \in Requests /\ prepared[c] \in EvaluationCommits
    /\ \A a \in actionRequests : a.key # request[c].key
    /\ \A d \in decisions :
         d.key # request[c].key /\ d.decisionID # prepared[c].decisionID
    /\ \A f \in EffectRows(c), g \in policyEffects : g.effectID # f.effectID

Added(c) ==
    /\ actionRequests' = actionRequests \cup {request[c]}
    /\ decisions' = decisions \cup {DecisionRow(c)}
    /\ policyEffects' = policyEffects \cup EffectRows(c)

\* A commit adds the rows of one call, and they are new to the tables.
LEMMA CommitFacts ==
    ASSUME IInv, NEW c \in Calls, pc[c] = "committing", Commit(c)
    PROVE  /\ Fresh(c) /\ Added(c)
           /\ writeLock = c /\ writeLock' = NoCall /\ tx'[c] = NoTransaction
           /\ \A b \in Calls \ {c} : tx'[b] = tx[b]
<1>1. /\ tx[c].requests = {request[c]} /\ tx[c].decisions = {DecisionRow(c)}
      /\ tx[c].effects = EffectRows(c) /\ writeLock = c
  BY DEF IInv, CallOK, TransactionOK
<1>2. request[c] \in Requests /\ prepared[c] \in EvaluationCommits
  BY HasRequest DEF InFlight, InTransaction
<1>3. /\ \A a \in actionRequests : a.key # request[c].key
      /\ \A d \in decisions : d.decisionID # prepared[c].decisionID
      /\ \A f \in EffectRows(c), g \in policyEffects : g.effectID # f.effectID
  BY DEF IInv, CallOK, TransactionOK, ReservationOK
<1>4. \A d \in decisions : d.key # request[c].key
  BY <1>3 DEF IInv, LedgerOK, LedgerWhole
<1>5. Added(c) /\ writeLock' = NoCall /\ tx'[c] = NoTransaction
      /\ \A b \in Calls \ {c} : tx'[b] = tx[b]
  BY <1>1 DEF Commit, Released, Added, IInv, TypeOK, LedgerTypeOK
<1> QED BY <1>1, <1>2, <1>3, <1>4, <1>5 DEF Fresh

\* Adding the rows of one evaluation whole keeps the tables whole.
LEMMA AddedWhole ==
    ASSUME IInv, NEW c \in Calls, Fresh(c), Added(c)
    PROVE  LedgerWhole'
<1> DEFINE R == request[c]
           D == DecisionRow(c)
           F == EffectRows(c)
<1>1. D.key = R.key /\ D.decisionID = prepared[c].decisionID
      /\ D.evaluation = prepared[c].evaluation
  BY DEF DecisionRow
<1>2. \A f \in F : /\ f.decisionID = D.decisionID /\ f.idempotencyKey = D.key
                   /\ D.evaluation \in ReviewEvaluations
                   /\ \A g \in F : f = g
  BY DEF EffectRows, DecisionRow
<1>3. D.evaluation \in ReviewEvaluations =>
        \E f \in F : f.decisionID = D.decisionID /\ f.idempotencyKey = D.key
  BY DEF EffectRows, DecisionRow
<1>4. \A g \in policyEffects : g.decisionID # D.decisionID
  BY <1>1 DEF Fresh, IInv, LedgerOK, LedgerWhole
<1> HIDE DEF R, D, F
<1>5. /\ actionRequests' = actionRequests \cup {R}
      /\ decisions' = decisions \cup {D}
      /\ policyEffects' = policyEffects \cup F
      /\ \A a \in actionRequests : a.key # R.key
      /\ \A d \in decisions : d.key # R.key /\ d.decisionID # D.decisionID
      /\ \A f \in F, g \in policyEffects : g.effectID # f.effectID
  BY <1>1 DEF Fresh, Added, R, D, F
<1>6. \A a \in actionRequests' :
         /\ \A b \in actionRequests' : a.key = b.key => a = b
         /\ \E d \in decisions' : d.key = a.key
  BY <1>1, <1>5 DEF IInv, LedgerOK, LedgerWhole
<1>7. \A d \in decisions' :
         /\ \A e \in decisions' :
              (d.key = e.key \/ d.decisionID = e.decisionID) => d = e
         /\ \E a \in actionRequests' : a.key = d.key
         /\ d.evaluation \in ReviewEvaluations =>
              \E f \in policyEffects' :
                  f.decisionID = d.decisionID /\ f.idempotencyKey = d.key
  BY <1>1, <1>3, <1>5 DEF IInv, LedgerOK, LedgerWhole
<1>8. \A f \in policyEffects' :
         /\ \E d \in decisions' :
              /\ d.decisionID = f.decisionID
              /\ d.key = f.idempotencyKey
              /\ d.evaluation \in ReviewEvaluations
         /\ \A g \in policyEffects' :
              (f.effectID = g.effectID \/ f.decisionID = g.decisionID) => f = g
  <2> SUFFICES ASSUME NEW f \in policyEffects'
               PROVE  /\ \E d \in decisions' :
                           /\ d.decisionID = f.decisionID
                           /\ d.key = f.idempotencyKey
                           /\ d.evaluation \in ReviewEvaluations
                      /\ \A g \in policyEffects' :
                           (f.effectID = g.effectID
                              \/ f.decisionID = g.decisionID) => f = g
    OBVIOUS
  <2>1. CASE f \in F
    BY <1>2, <1>4, <1>5, <2>1
  <2>2. CASE f \in policyEffects
    BY <1>2, <1>4, <1>5, <2>2 DEF IInv, LedgerOK, LedgerWhole
  <2> QED BY <1>5, <2>1, <2>2
<1> QED BY <1>6, <1>7, <1>8 DEF LedgerWhole

\* A commit, reported as such or not, keeps the invariant.
LEMMA CommitStep ==
    ASSUME IInv, NEW c \in Calls, pc[c] = "committing", Commit(c),
           NEW s \in {"committed", "recover"}, Goto(c, s)
    PROVE  Inv2'
<1>1. /\ Fresh(c) /\ Added(c)
      /\ writeLock = c /\ writeLock' = NoCall /\ tx'[c] = NoTransaction
      /\ \A b \in Calls \ {c} : tx'[b] = tx[b]
  BY CommitFacts
<1>2. /\ MovedOK(c)' /\ OthersSame(c) /\ pc'[c] = s
      /\ UNCHANGED <<request, prepared, outcome, record>>
  BY HasRequest, GotoMoved, ControlMoves
     DEF InFlight, InTransaction, IInv, TypeOK
<1>3. /\ actionRequests \subseteq actionRequests' /\ decisions \subseteq decisions'
      /\ request[c] \in actionRequests' /\ DecisionRow(c) \in decisions'
  BY <1>1 DEF Added
<1>4. \A b \in Calls \ {c} : CallOK(b)'
  <2> SUFFICES ASSUME NEW b \in Calls \ {c} PROVE CallOK(b)'
    OBVIOUS
  <2> QED BY <1>1, <1>2, <1>3, Bystander, CallsAssumption DEF IInv, OthersSame
<1>5. CallOK(c)'
  <2>1. DecisionRow(c)' = DecisionRow(c) /\ writeLock' # c
    BY <1>1, <1>2, CallsAssumption DEF DecisionRow
  <2> QED BY <1>1, <1>2, <1>3, <2>1
          DEF CallOK, MovedOK, TransactionOK, ReservationOK, CommittedOK,
              NoTransaction
<1>6. LedgerWhole'
  BY <1>1, AddedWhole
<1>7. DecisionBelongsToItsAction'
  <2> SUFFICES ASSUME NEW a \in actionRequests', NEW d \in decisions',
                      a.key = d.key
               PROVE  \E b \in Calls :
                         /\ request[b] = [key |-> a.key, digest |-> a.digest]
                         /\ prepared[b] # NoValue
                         /\ prepared[b].decisionID = d.decisionID
                         /\ prepared[b].evaluation = d.evaluation
    BY <1>2 DEF DecisionBelongsToItsAction
  <2>1. CASE a \in actionRequests /\ d \in decisions
    BY <2>1 DEF IInv, LedgerOK, DecisionBelongsToItsAction
  <2>2. CASE a = request[c] /\ d = DecisionRow(c)
    BY <1>1, <2>2, NoValueAssumption DEF Fresh, DecisionRow, Requests
  <2>3. ~ (a = request[c] /\ d \in decisions)
    BY <1>1 DEF Fresh
  <2>4. ~ (a \in actionRequests /\ d = DecisionRow(c))
    BY <1>1 DEF Fresh, DecisionRow
  <2> QED BY <1>1, <2>1, <2>2, <2>3, <2>4 DEF Added
<1>8. AnswersAreAuthoritative' /\ ConflictIsReal'
  BY <1>2, <1>3 DEF IInv, LedgerOK, AnswersAreAuthoritative, ConflictIsReal
<1> QED BY <1>4, <1>5, <1>6, <1>7, <1>8 DEF Inv2, LedgerOK

\* Returning the committed record keeps the invariant.
LEMMA ReturnStep ==
    ASSUME IInv, NEW c \in Calls, Return(c)
    PROVE  Inv2'
<1>1. /\ request[c] \in Requests /\ prepared[c] \in EvaluationCommits
      /\ request[c] \in actionRequests /\ DecisionRow(c) \in decisions
  BY HasRequest DEF Return, InFlight, IInv, CallOK, CommittedOK
<1>2. /\ OthersSame(c) /\ pc'[c] = "returned" /\ outcome'[c] = "decided"
      /\ record'[c] = OwnRecord(c) /\ UNCHANGED <<request, prepared>>
      /\ UNCHANGED ledgerVars
  BY ControlMoves DEF Return, IInv, TypeOK
<1>3. OwnRecord(c) \in DecisionRecords
  BY <1>1, OwnTypes
<1>4. ProgressOK(c)' /\ ConflictOK(c)'
  BY <1>1, <1>2, <1>3 DEF ProgressOK, ConflictOK, InFlight, InTransaction
<1>5. request[c] = [key |-> request[c].key, digest |-> request[c].digest]
  BY <1>1 DEF Requests
<1>6. AnswerOK(c)'
  BY <1>1, <1>2, <1>5 DEF AnswerOK, OwnRecord, DecisionRow, ledgerVars
<1> QED BY <1>2, <1>4, <1>6, QuietStep
        DEF MovedOK, KeepsOwn, Return, InTransaction

\* A lost race and a refused row keep the invariant.
LEMMA RejectSteps ==
    ASSUME IInv, NEW c \in Calls,
           LostRace(c) \/ BusyTimeout(c) \/ DecisionRejected(c)
               \/ EffectsRejected(c)
    PROVE  Inv2'
<1> CallTypeOK
  BY DEF IInv, TypeOK
<1>1. CASE LostRace(c)
  <2>1. MovedOK(c)' /\ OthersSame(c) /\ KeepsOwn(c) /\ pc'[c] = "resolve"
    BY <1>1, HasRequest, GotoMoved, ControlMoves
       DEF LostRace, KeepsOwn, InFlight, InTransaction
  <2> QED BY <1>1, <2>1, RollbackStep DEF LostRace
<1>2. CASE BusyTimeout(c)
  BY <1>2, FailureSteps DEF BusyTimeout, OperationFails
<1>3. CASE DecisionRejected(c) \/ EffectsRejected(c)
  <2>1. Rollback(c) /\ Fail(c, "LedgerFailure")
    BY <1>3 DEF DecisionRejected, EffectsRejected
  <2>2. MovedOK(c)' /\ OthersSame(c) /\ KeepsOwn(c) /\ pc'[c] = "returned"
    BY <2>1, FailMoved, ControlMoves DEF Errors, KeepsOwn
  <2> QED BY <2>1, <2>2, RollbackStep
<1> QED BY <1>1, <1>2, <1>3

\* Cancellation, and what it does to the transaction, keep the invariant.
LEMMA ContextSteps ==
    ASSUME IInv, NEW c \in Calls, Cancel(c) \/ AwaitDone(c)
    PROVE  Inv2'
<1>1. UNCHANGED <<pc, request, prepared, outcome, record>>
  BY DEF Cancel, AwaitDone, callVars
<1>2. ProgressOK(c)' /\ OthersSame(c) /\ KeepsOwn(c) /\ SameCall(c)
  BY <1>1 DEF IInv, CallOK, ProgressOK, OthersSame, SameCall, KeepsOwn
<1>3. UNCHANGED tables
  BY DEF Cancel, AwaitDone, ledgerVars, tables, Rollback
<1>4. AnswerOK(c)' /\ ConflictOK(c)'
  BY <1>1, <1>3 DEF IInv, LedgerOK, AnswersAreAuthoritative, ConflictIsReal,
                    AnswerOK, ConflictOK, tables
<1>5. CASE Cancel(c)
  <2>1. \A b \in Calls : CallOK(b)'
    BY <1>2, <1>5, Bystander DEF Cancel, IInv, OthersSame, ledgerVars, tables
  <2>2. LedgerOK'
    BY <1>2, <1>3, <1>4, TablesKept DEF IInv, TypeOK
  <2> QED BY <2>1, <2>2 DEF Inv2
<1>6. CASE AwaitDone(c)
  <2>1. pc'[c] \notin {"committed", "committing"}
    BY <1>1, <1>6 DEF AwaitDone, IInv, CallOK, TransactionOK, InTransaction
  <2> QED BY <1>2, <1>4, <1>6, <2>1, RollbackStep DEF AwaitDone, MovedOK
<1> QED BY <1>5, <1>6

\* A crash keeps the invariant.
LEMMA CrashStep == ASSUME IInv, Crash PROVE Inv2'
<1>1. /\ UNCHANGED <<request, prepared, outcome, record, tables>>
      /\ tx' = [c \in Calls |-> NoTransaction] /\ writeLock' = NoCall
      /\ pc' = [c \in Calls |-> IF pc[c] \in InFlight THEN "crashed"
                                ELSE pc[c]]
  BY DEF Crash, LoseTransactions
<1>2. ASSUME NEW c \in Calls PROVE CallOK(c)'
  <2>1. /\ ~ tx'[c].open /\ tx'[c] = NoTransaction /\ writeLock' # c
        /\ pc'[c] \notin InFlight
    BY <1>1, CallsAssumption DEF NoTransaction, InFlight, InTransaction
  <2>2. ProgressOK(c)'
    BY <1>1, <2>1 DEF IInv, CallOK, ProgressOK, InFlight, InTransaction
  <2>3. TransactionOK(c)' /\ ReservationOK(c)'
    BY <2>1 DEF TransactionOK, ReservationOK, InFlight, InTransaction
  <2>4. CommittedOK(c)'
    BY <2>1 DEF CommittedOK, InFlight
  <2> QED BY <2>2, <2>3, <2>4 DEF CallOK
<1>3. LedgerOK'
  BY <1>1 DEF IInv, LedgerOK, LedgerWhole, DecisionBelongsToItsAction,
              AnswersAreAuthoritative, ConflictIsReal, tables
<1> QED BY <1>2, <1>3 DEF Inv2

\* The invariant holds of an empty ledger and idle calls.
LEMMA InitIInv == Init => IInv
<1> SUFFICES ASSUME Init PROVE IInv
  OBVIOUS
<1>1. TypeOK
  BY CrashAssumption DEF Init, LedgerInit, TypeOK, LedgerTypeOK, CallTypeOK,
     NoTransaction, Transactions, Stages, Outcomes
<1>2. \A c \in Calls : CallOK(c)
  BY CallsAssumption
     DEF Init, LedgerInit, CallOK, ProgressOK, TransactionOK, ReservationOK,
         CommittedOK, NoTransaction, InFlight, InTransaction
<1>3. LedgerOK
  BY DEF Init, LedgerInit, LedgerOK, LedgerWhole, DecisionBelongsToItsAction,
         AnswersAreAuthoritative, ConflictIsReal
<1> QED BY <1>1, <1>2, <1>3 DEF IInv

\* Every step keeps the invariant.
LEMMA NextIInv == IInv /\ [Next]_vars => IInv'
<1> SUFFICES ASSUME IInv, [Next]_vars PROVE TypeOK' /\ Inv2'
  BY DEF IInv, Inv2
<1>1. ASSUME NEW c \in Calls, Step(c) PROVE TypeOK' /\ Inv2'
  <2>1. TypeOK'
    BY <1>1, StepTypes DEF IInv, CallOK
  <2>2. CASE LookUp(c) \/ CommitLookUp(c) \/ Resolve(c) \/ Recover(c)
    BY <2>1, <2>2, ReadSteps
  <2>3. CASE EvaluatePolicy(c) \/ PreparationFails(c)
    BY <2>1, <2>3, PolicySteps
  <2>4. CASE Begin(c)
    BY <2>1, <2>4, BeginStep
  <2>5. CASE InsertRequest(c)
    BY <2>1, <2>5, InsertRequestStep
  <2>6. CASE LostRace(c) \/ BusyTimeout(c) \/ DecisionRejected(c)
                \/ EffectsRejected(c)
    BY <2>1, <2>6, RejectSteps
  <2>7. CASE InsertDecision(c)
    BY <2>1, <2>7, InsertDecisionStep
  <2>8. CASE InsertEffects(c)
    BY <2>1, <2>8, InsertEffectsStep
  <2>9. CASE CommitTx(c) \/ CommitDurable(c)
    BY <2>1, <2>9, CommittingStep, CommitStep DEF CommitDurable
  <2>10. CASE Return(c)
    BY <2>1, <2>10, ReturnStep
  <2>11. CASE ~ ContextLive(c) /\ OperationFails(c)
    BY <2>1, <2>11, FailureSteps
  <2> QED BY <1>1, <2>1, <2>2, <2>3, <2>4, <2>5, <2>6, <2>7, <2>8, <2>9,
             <2>10, <2>11 DEF Step
<1>2. ASSUME NEW c \in Calls, Environment(c) PROVE TypeOK' /\ Inv2'
  <2>1. TypeOK'
    BY <1>2, EnvironmentTypes DEF IInv
  <2>2. CASE Submit(c) \/ SubmitInvalid(c)
    BY <2>1, <2>2, SubmitSteps
  <2>3. CASE Cancel(c) \/ AwaitDone(c)
    BY <2>1, <2>3, ContextSteps
  <2>4. CASE CommitUncertain(c)
    BY <2>1, <2>4, CommitStep DEF CommitUncertain
  <2>5. CASE ContextLive(c) /\ OperationFails(c)
    BY <2>1, <2>5, FailureSteps
  <2> QED BY <1>2, <2>1, <2>2, <2>3, <2>4, <2>5 DEF Environment
<1>3. CASE Crash
  BY <1>3, CrashStep, CrashTypes DEF IInv
<1>4. CASE UNCHANGED vars
  <2>1. TypeOK'
    BY <1>4 DEF IInv, TypeOK, LedgerTypeOK, CallTypeOK, vars, ledgerVars,
                callVars
  <2>2. \A c \in Calls : CallOK(c)'
    BY <1>4, Bystander DEF IInv, SameCall, vars, ledgerVars, callVars, tables
  <2>3. LedgerOK'
    BY <1>4 DEF IInv, LedgerOK, LedgerWhole, DecisionBelongsToItsAction,
       AnswersAreAuthoritative, ConflictIsReal, vars, ledgerVars, callVars
  <2> QED BY <2>1, <2>2, <2>3 DEF Inv2
<1> QED BY <1>1, <1>2, <1>3, <1>4 DEF Next

-----------------------------------------------------------------------------
(* Theorems                                                                *)

\* IInv is an invariant of the service: what each call has written so far,
\* what it may still write and what has been answered always fit together.
THEOREM Invariance == Spec => []IInv
BY InitIInv, NextIInv, PTL DEF Spec

\* Type correctness of the service and its ledger.
THEOREM TypeCorrect == Spec => []TypeOK
<1>1. IInv => TypeOK
  BY DEF IInv
<1> QED BY <1>1, Invariance, PTL

\* CommitEvaluation stores evaluations whole, whatever fails in between.
THEOREM LedgerAlwaysWhole == Spec => []LedgerWhole
<1>1. IInv => LedgerWhole
  BY DEF IInv, LedgerOK
<1> QED BY <1>1, Invariance, PTL

\* A stored decision was evaluated for the action it is stored with.
THEOREM DecisionsBelong == Spec => []DecisionBelongsToItsAction
<1>1. IInv => DecisionBelongsToItsAction
  BY DEF IInv, LedgerOK
<1> QED BY <1>1, Invariance, PTL

\* Every decision Evaluate returns is the durable one of the caller's request.
THEOREM AnswersAuthoritative == Spec => []AnswersAreAuthoritative
<1>1. IInv => AnswersAreAuthoritative
  BY DEF IInv, LedgerOK
<1> QED BY <1>1, Invariance, PTL

\* Every conflict Evaluate returns is one the ledger shows.
THEOREM ConflictsReal == Spec => []ConflictIsReal
<1>1. IInv => ConflictIsReal
  BY DEF IInv, LedgerOK
<1> QED BY <1>1, Invariance, PTL

\* Any number of retries, before or after a crash, agree.
THEOREM AllRetriesAgree == Spec => []RetriesAgree
<1>1. IInv => RetriesAgree
  <2> SUFFICES ASSUME IInv, NEW b \in Calls, NEW c \in Calls,
                      outcome[b] = "decided", outcome[c] = "decided",
                      request[b].key = request[c].key
               PROVE  record[b] = record[c]
    BY DEF RetriesAgree
  <2>1. record[b] \in DecisionRecords /\ record[c] \in DecisionRecords
    BY DEF IInv, CallOK, ProgressOK
  <2> DEFINE D(x) == [decisionID |-> record[x].decisionID,
                      key |-> request[x].key,
                      evaluation |-> record[x].evaluation]
             A(x) == [key |-> request[x].key, digest |-> record[x].digest]
  <2>2. /\ D(b) \in decisions /\ D(c) \in decisions
        /\ A(b) \in actionRequests /\ A(c) \in actionRequests
    BY DEF IInv, LedgerOK, AnswersAreAuthoritative
  <2>3. \A d, e \in decisions : d.key = e.key => d = e
    BY DEF IInv, LedgerOK, LedgerWhole
  <2>4. \A d, e \in actionRequests : d.key = e.key => d = e
    BY DEF IInv, LedgerOK, LedgerWhole
  <2>5. D(b) = D(c) /\ A(b) = A(c)
    BY <2>2, <2>3, <2>4
  <2>6. /\ record[b].decisionID = record[c].decisionID
        /\ record[b].evaluation = record[c].evaluation
        /\ record[b].digest = record[c].digest
    BY <2>5
  <2> QED BY <2>1, <2>6 DEF DecisionRecords
<1> QED BY <1>1, Invariance, PTL
=============================================================================
