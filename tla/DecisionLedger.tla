--------------------------- MODULE DecisionLedger ---------------------------
(***************************************************************************)
(* The SQLite decision ledger (internal/storage/sqlite): three committed   *)
(* tables, the transactions that are open on pooled connections, and the   *)
(* one write lock of the database file.  The statements of                 *)
(* DecisionLedger.CommitEvaluation are the operators of this module; the   *)
(* order in which a call issues them is in DecisionService.                *)
(*                                                                         *)
(* A table is the set of its committed rows.  A transaction keeps the rows *)
(* it has inserted and nobody else sees them before it commits (WAL mode). *)
(* The columns kept are the ones that keys, constraints and answers depend *)
(* on; an Evaluation stands for what a policy evaluation stores with the   *)
(* decision (decision, reasons, rules, policy version, time).              *)
(***************************************************************************)
EXTENDS Naturals, FiniteSets

CONSTANTS
    Calls,              \* concurrent invocations of DecisionService.Evaluate
    Runtimes,           \* authenticated runtime IDs
    RequestIDs,         \* request IDs, unique only within a runtime
    Digests,            \* action digests, one per normalized action
    Evaluations,        \* policy evaluations (decision, rules, version)
    ReviewEvaluations,  \* the evaluations that carry a safety-review effect
    DecisionIDs,        \* values IDGenerator may return for a decision
    EffectIDs,          \* values IDGenerator may return for an effect
    MaxOpenConns,       \* sql.DB.SetMaxOpenConns
    NoCall, NoValue     \* nobody holds the write lock; field not set yet

ASSUME CallsAssumption == NoCall \notin Calls
ASSUME ReviewAssumption == ReviewEvaluations \subseteq Evaluations
ASSUME PoolAssumption == MaxOpenConns \in Nat \ {0}

VARIABLES
    actionRequests,     \* committed rows of table action_requests
    decisions,          \* committed rows of table decisions
    policyEffects,      \* committed rows of table policy_effects
    tx,                 \* tx[c]: the transaction of call c
    writeLock           \* the call whose transaction may write

tables == <<actionRequests, decisions, policyEffects>>
ledgerVars == <<actionRequests, decisions, policyEffects, tx, writeLock>>

Keys == Runtimes \X RequestIDs

ActionRequestRows == [key : Keys, digest : Digests]
DecisionRows ==
    [decisionID : DecisionIDs, key : Keys, evaluation : Evaluations]
\* idempotency_key is a hash of runtime, request and effect type, and there
\* is one effect type: it is as unique as the key.
PolicyEffectRows ==
    [effectID : EffectIDs, decisionID : DecisionIDs, idempotencyKey : Keys]

\* application.DecisionRecord: what a caller is told.
DecisionRecords ==
    [decisionID : DecisionIDs, evaluation : Evaluations, digest : Digests]

Transactions ==
    [open : BOOLEAN, requests : SUBSET ActionRequestRows,
     decisions : SUBSET DecisionRows, effects : SUBSET PolicyEffectRows]

NoTransaction ==
    [open |-> FALSE, requests |-> {}, decisions |-> {}, effects |-> {}]

LedgerTypeOK ==
    /\ actionRequests \subseteq ActionRequestRows
    /\ decisions \subseteq DecisionRows
    /\ policyEffects \subseteq PolicyEffectRows
    /\ tx \in [Calls -> Transactions]
    /\ writeLock \in Calls \cup {NoCall}

LedgerInit ==
    /\ actionRequests = {}
    /\ decisions = {}
    /\ policyEffects = {}
    /\ tx = [c \in Calls |-> NoTransaction]
    /\ writeLock = NoCall

-----------------------------------------------------------------------------
(* Reading                                                                 *)

\* The pool is exhausted while every connection carries a transaction.
ConnectionFree == Cardinality({c \in Calls : tx[c].open}) < MaxOpenConns

RecordOf(d, a) ==
    [decisionID |-> d.decisionID, evaluation |-> d.evaluation,
     digest |-> a.digest]

\* The lookup forgets that request IDs are scoped by runtime.
LookupByRequestIDOnly(k) ==
    {r \in DecisionRecords :
        \E d \in decisions, a \in actionRequests :
            d.key[2] = k[2] /\ a.key[2] = k[2] /\ r = RecordOf(d, a)}

\* The join of a request with its decision.
GetEvaluationByRequestID(k) ==
    {r \in DecisionRecords :
        \E d \in decisions, a \in actionRequests :
            d.key = k /\ a.key = k /\ r = RecordOf(d, a)}

-----------------------------------------------------------------------------
(* Transactions                                                            *)

BeginTx(c) ==
    /\ ConnectionFree
    /\ tx' = [tx EXCEPT ![c] = [NoTransaction EXCEPT !.open = TRUE]]
    /\ UNCHANGED <<tables, writeLock>>

Released(c) == IF writeLock = c THEN NoCall ELSE writeLock

Rollback(c) ==
    /\ tx' = [tx EXCEPT ![c] = NoTransaction]
    /\ writeLock' = Released(c)
    /\ UNCHANGED tables

\* Two transactions may write at a time.
WriteLockIgnored(c) == tx[c].open

\* A writing statement waits for the write lock, and keeps it until the
\* transaction ends.
WriteLockFree(c) == writeLock \in {NoCall, c}

\* The unique index leaves out the runtime.
RequestRowOfAnyRuntime(k) == \E r \in actionRequests : r.key[2] = k[2]

RequestRowExists(k) == \E r \in actionRequests : r.key = k

\* The row is inserted on the database instead of the transaction.
insertOutsideTransaction(c, k, digest) ==
    /\ tx[c].open
    /\ WriteLockFree(c)
    /\ ~ RequestRowExists(k)
    /\ actionRequests' = actionRequests \cup {[key |-> k, digest |-> digest]}
    /\ UNCHANGED <<decisions, policyEffects, tx, writeLock>>

\* INSERT ... ON CONFLICT (runtime_id, request_id) DO NOTHING, one row.
insertCommittedActionRequest(c, k, digest) ==
    /\ tx[c].open
    /\ WriteLockFree(c)
    /\ ~ RequestRowExists(k)
    /\ tx' = [tx EXCEPT ![c].requests = @ \cup {[key |-> k, digest |-> digest]}]
    /\ writeLock' = c
    /\ UNCHANGED tables

\* A constraint check sees the committed rows and the transaction's own.
VisibleDecisions(c) == decisions \cup tx[c].decisions
VisibleEffects(c) == policyEffects \cup tx[c].effects

DecisionRowAllowed(c, d) ==
    /\ \A e \in VisibleDecisions(c) :
         e.decisionID # d.decisionID /\ e.key # d.key
    /\ \E r \in actionRequests \cup tx[c].requests : r.key = d.key

insertCommittedDecision(c, d) ==
    /\ tx[c].open
    /\ DecisionRowAllowed(c, d)
    /\ tx' = [tx EXCEPT ![c].decisions = @ \cup {d}]
    /\ UNCHANGED <<tables, writeLock>>

EffectRowsAllowed(c, rows) ==
    \A f \in rows :
        /\ \A g \in VisibleEffects(c) :
             g.effectID # f.effectID /\ g.idempotencyKey # f.idempotencyKey
        /\ \E d \in VisibleDecisions(c) : d.decisionID = f.decisionID

insertPolicyEffects(c, rows) ==
    /\ tx[c].open
    /\ EffectRowsAllowed(c, rows)
    /\ tx' = [tx EXCEPT ![c].effects = @ \cup rows]
    /\ UNCHANGED <<tables, writeLock>>

\* COMMIT: every row of the transaction becomes durable, in one step.
Commit(c) ==
    /\ actionRequests' = actionRequests \cup tx[c].requests
    /\ decisions' = decisions \cup tx[c].decisions
    /\ policyEffects' = policyEffects \cup tx[c].effects
    /\ tx' = [tx EXCEPT ![c] = NoTransaction]
    /\ writeLock' = Released(c)

\* The process dies: SQLite discards what was not committed.
LoseTransactions ==
    /\ tx' = [c \in Calls |-> NoTransaction]
    /\ writeLock' = NoCall
    /\ UNCHANGED tables
=============================================================================
