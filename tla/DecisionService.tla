--------------------------- MODULE DecisionService ---------------------------
(***************************************************************************)
(* DecisionService.Evaluate running concurrently over one DecisionLedger.  *)
(*                                                                         *)
(* Each member of Calls is one invocation: it normalizes its command,      *)
(* looks the request up, asks the policy evaluator, draws IDs, and commits *)
(* through CommitEvaluation, one database operation per step.  pc[c] names *)
(* the operation c is about to issue.  A retry by the client, or a reuse   *)
(* of the request ID for another action, is another member of Calls.       *)
(*                                                                         *)
(* The environment may cancel a call's context (the client disconnected),  *)
(* fail any database operation, let a policy evaluation come out one way   *)
(* for one call and another way for the next, repeat an ID, and kill the   *)
(* process.                                                                *)
(***************************************************************************)
EXTENDS DecisionLedger

CONSTANTS
    MaxCrashes,         \* bound on process crashes
    CutShort            \* the fail-closed denial of a call whose own context
                        \* ended the Osprey request
ASSUME CrashAssumption == MaxCrashes \in Nat
ASSUME CutShortAssumption == CutShort \in Evaluations \ ReviewEvaluations

VARIABLES
    pc,         \* the operation each call is about to issue
    request,    \* request[c]: runtime-scoped key and action digest of c
    prepared,   \* prepared[c]: the EvaluationCommit c has built
    cancelled,  \* cancelled[c]: the context of c is done
    outcome,    \* what Evaluate returned to c
    record,     \* the DecisionRecord it returned with, if any
    crashes     \* crashes so far

callVars == <<pc, request, prepared, cancelled, outcome, record>>
vars == <<ledgerVars, callVars, crashes>>

Requests == [key : Keys, digest : Digests]
EvaluationCommits ==
    [evaluation : Evaluations, decisionID : DecisionIDs, effectID : EffectIDs]

ASSUME NoValueAssumption ==
    NoValue \notin Requests \cup EvaluationCommits \cup DecisionRecords

InTransaction ==
    {"insertRequest", "insertDecision", "insertEffects", "commit", "committing"}
InFlight ==
    {"lookup", "policy", "commitLookup", "begin", "resolve", "recover",
     "committed"} \cup InTransaction
Stages == InFlight \cup {"idle", "returned", "crashed"}

Errors ==
    {"InvalidInput", "RuntimeIdentityConflict", "RequestIDConflict",
     "LedgerFailure", "PolicyUnavailable", "IDGeneration", "ClockFailure"}
Outcomes == Errors \cup {"none", "decided"}

CallTypeOK ==
    /\ pc \in [Calls -> Stages]
    /\ request \in [Calls -> Requests \cup {NoValue}]
    /\ prepared \in [Calls -> EvaluationCommits \cup {NoValue}]
    /\ cancelled \in [Calls -> BOOLEAN]
    /\ outcome \in [Calls -> Outcomes]
    /\ record \in [Calls -> DecisionRecords \cup {NoValue}]
    /\ crashes \in 0 .. MaxCrashes

\* The type invariant of the service and its ledger: among others, whatever
\* Evaluate returns as a DecisionRecord has all its fields.
TypeOK == LedgerTypeOK /\ CallTypeOK

Init ==
    /\ LedgerInit
    /\ pc = [c \in Calls |-> "idle"]
    /\ request = [c \in Calls |-> NoValue]
    /\ prepared = [c \in Calls |-> NoValue]
    /\ cancelled = [c \in Calls |-> FALSE]
    /\ outcome = [c \in Calls |-> "none"]
    /\ record = [c \in Calls |-> NoValue]
    /\ crashes = 0

-----------------------------------------------------------------------------
(* Control                                                                 *)

Goto(c, stage) ==
    /\ pc' = [pc EXCEPT ![c] = stage]
    /\ UNCHANGED <<request, prepared, cancelled, outcome, record, crashes>>

Fail(c, error) ==
    /\ pc' = [pc EXCEPT ![c] = "returned"]
    /\ outcome' = [outcome EXCEPT ![c] = error]
    /\ UNCHANGED <<request, prepared, cancelled, record, crashes>>

Decide(c, r) ==
    /\ pc' = [pc EXCEPT ![c] = "returned"]
    /\ outcome' = [outcome EXCEPT ![c] = "decided"]
    /\ record' = [record EXCEPT ![c] = r]
    /\ UNCHANGED <<request, prepared, cancelled, crashes>>

\* The ledger is given a context that outlives its caller.
DetachedContext(c) == TRUE

\* The ledger runs under the context of the caller.
ContextLive(c) == ~ cancelled[c]

\* A database operation needs a live context and a pooled connection.
CanQuery(c) == ContextLive(c) /\ ConnectionFree

Stored(c) == GetEvaluationByRequestID(request[c].key)

\* The digest is left out of the record.
OwnRecordWithoutDigest(c) ==
    [decisionID |-> prepared[c].decisionID,
     evaluation |-> prepared[c].evaluation]

\* decisionRecordFromCommit
OwnRecord(c) ==
    [decisionID |-> prepared[c].decisionID,
     evaluation |-> prepared[c].evaluation,
     digest |-> request[c].digest]

\* A losing call answers what it has evaluated itself.
ResolveWithOwn(c, stored) ==
    Decide(c, IF prepared[c] = NoValue THEN stored ELSE OwnRecord(c))

\* The stored evaluation is returned whatever action it is for.
ResolveWithoutDigest(c, stored) == Decide(c, stored)

\* resolveStoredEvaluation and resolveExisting agree: an evaluation of the
\* same action is the answer, one of another action is a conflict.
ResolveExisting(c, stored) ==
    \/ stored.digest = request[c].digest /\ Decide(c, stored)
    \/ stored.digest # request[c].digest /\ Fail(c, "RequestIDConflict")

-----------------------------------------------------------------------------
(* Evaluate up to the commit                                               *)

Submit(c) ==
    /\ pc[c] = "idle"
    /\ \E k \in Keys, d \in Digests :
         request' = [request EXCEPT ![c] = [key |-> k, digest |-> d]]
    /\ pc' = [pc EXCEPT ![c] = "lookup"]
    /\ UNCHANGED <<prepared, cancelled, outcome, record, crashes, ledgerVars>>

\* The request ID or the proposed action does not normalize, or it claims to
\* come from another runtime.
SubmitInvalid(c) ==
    /\ pc[c] = "idle"
    /\ \E error \in {"InvalidInput", "RuntimeIdentityConflict"} : Fail(c, error)
    /\ UNCHANGED ledgerVars

LookUp(c) ==
    /\ pc[c] = "lookup"
    /\ CanQuery(c)
    /\ \/ Stored(c) = {} /\ Goto(c, "policy")
       \/ \E stored \in Stored(c) : ResolveExisting(c, stored)
    /\ UNCHANGED ledgerVars

\* Evaluator, validation and composer succeed and IDs and time are drawn.
\* Nothing here looks at the context: the Osprey adapter turns a cancelled one,
\* as it does a timeout, into a fail-closed evaluation.
EvaluatePolicy(c) ==
    /\ pc[c] = "policy"
    /\ \E e \in Evaluations, d \in DecisionIDs, f \in EffectIDs :
         /\ e = CutShort => cancelled[c]
         /\ prepared' = [prepared EXCEPT ![c] =
                [evaluation |-> e, decisionID |-> d, effectID |-> f]]
    /\ pc' = [pc EXCEPT ![c] = "commitLookup"]
    /\ UNCHANGED <<request, cancelled, outcome, record, crashes, ledgerVars>>

PreparationFails(c) ==
    /\ pc[c] = "policy"
    /\ \E error \in {"PolicyUnavailable", "IDGeneration", "ClockFailure"} :
         Fail(c, error)
    /\ UNCHANGED ledgerVars

-----------------------------------------------------------------------------
(* CommitEvaluation                                                        *)

CommitLookUp(c) ==
    /\ pc[c] = "commitLookup"
    /\ CanQuery(c)
    /\ \/ Stored(c) = {} /\ Goto(c, "begin")
       \/ \E stored \in Stored(c) : ResolveExisting(c, stored)
    /\ UNCHANGED ledgerVars

Begin(c) ==
    /\ pc[c] = "begin"
    /\ ContextLive(c)
    /\ BeginTx(c)
    /\ Goto(c, "insertRequest")

InsertRequest(c) ==
    /\ pc[c] = "insertRequest"
    /\ ContextLive(c)
    /\ insertCommittedActionRequest(c, request[c].key, request[c].digest)
    /\ Goto(c, "insertDecision")

\* resolveCommitRace runs before the deferred Rollback.
LostRaceKeepingTransaction(c) ==
    /\ pc[c] = "insertRequest"
    /\ ContextLive(c)
    /\ WriteLockFree(c)
    /\ RequestRowExists(request[c].key)
    /\ UNCHANGED ledgerVars
    /\ Goto(c, "resolve")

\* Zero rows inserted: another call has committed this request meanwhile.
LostRace(c) ==
    /\ pc[c] = "insertRequest"
    /\ ContextLive(c)
    /\ WriteLockFree(c)
    /\ RequestRowExists(request[c].key)
    /\ Rollback(c)
    /\ Goto(c, "resolve")

\* resolveCommitRace after zero rows: what it finds is returned, errors too.
Resolve(c) ==
    /\ pc[c] = "resolve"
    /\ CanQuery(c)
    /\ \/ Stored(c) = {} /\ Fail(c, "LedgerFailure")
       \/ \E stored \in Stored(c) : ResolveExisting(c, stored)
    /\ UNCHANGED ledgerVars

\* The insert fails: roll back, then resolveCommitRace.
InsertRequestFails(c) ==
    /\ pc[c] = "insertRequest"
    /\ Rollback(c)
    /\ Goto(c, "recover")

\* busy_timeout passes while another transaction holds the write lock.
BusyTimeout(c) ==
    /\ ~ WriteLockFree(c)
    /\ InsertRequestFails(c)

DecisionRow(c) ==
    [decisionID |-> prepared[c].decisionID, key |-> request[c].key,
     evaluation |-> prepared[c].evaluation]

EffectRows(c) ==
    IF prepared[c].evaluation \in ReviewEvaluations
    THEN {[effectID |-> prepared[c].effectID,
           decisionID |-> prepared[c].decisionID,
           idempotencyKey |-> request[c].key]}
    ELSE {}

InsertDecision(c) ==
    /\ pc[c] = "insertDecision"
    /\ ContextLive(c)
    /\ insertCommittedDecision(c, DecisionRow(c))
    /\ Goto(c, "insertEffects")

\* A constraint, typically a decision ID that is already taken.
DecisionRejected(c) ==
    /\ pc[c] = "insertDecision"
    /\ ~ DecisionRowAllowed(c, DecisionRow(c))
    /\ Rollback(c)
    /\ Fail(c, "LedgerFailure")

InsertEffects(c) ==
    /\ pc[c] = "insertEffects"
    /\ ContextLive(c)
    /\ insertPolicyEffects(c, EffectRows(c))
    /\ Goto(c, "commit")

EffectsRejected(c) ==
    /\ pc[c] = "insertEffects"
    /\ ~ EffectRowsAllowed(c, EffectRows(c))
    /\ Rollback(c)
    /\ Fail(c, "LedgerFailure")

\* Tx.Commit looks at the context once and marks the transaction done: from
\* here on a cancellation neither stops the COMMIT nor rolls it back.
CommitTx(c) ==
    /\ pc[c] = "commit"
    /\ ContextLive(c)
    /\ tx[c].open
    /\ Goto(c, "committing")
    /\ UNCHANGED ledgerVars

\* The driver's COMMIT succeeds.
CommitDurable(c) ==
    /\ pc[c] = "committing"
    /\ Commit(c)
    /\ Goto(c, "committed")

\* The driver reports an error after the rows became durable.
CommitUncertain(c) ==
    /\ pc[c] = "committing"
    /\ Commit(c)
    /\ Goto(c, "recover")

\* The error of Commit is dropped.
CommitErrorIgnored(c) ==
    /\ pc[c] \in {"commit", "committing"}
    /\ Rollback(c)
    /\ Goto(c, "committed")

\* Tx.Commit finds its context done, or the driver reports an error and
\* nothing became durable.
CommitFails(c) ==
    /\ \/ pc[c] = "commit" /\ ~ ContextLive(c)
       \/ pc[c] = "committing"
    /\ Rollback(c)
    /\ Goto(c, "recover")

\* resolveCommitRace after an insert or commit error: an evaluation of the
\* same action is returned, everything else becomes the ledger failure.
Recover(c) ==
    /\ pc[c] = "recover"
    /\ CanQuery(c)
    /\ \/ \E stored \in Stored(c) :
            stored.digest = request[c].digest /\ Decide(c, stored)
       \/ /\ \A stored \in Stored(c) : stored.digest # request[c].digest
          /\ Fail(c, "LedgerFailure")
    /\ UNCHANGED ledgerVars

Return(c) ==
    /\ pc[c] = "committed"
    /\ Decide(c, OwnRecord(c))
    /\ UNCHANGED ledgerVars

-----------------------------------------------------------------------------
(* Failures                                                                *)

\* A read, or the begin of the transaction, fails.
QueryFails(c) ==
    /\ pc[c] \in {"lookup", "commitLookup", "begin", "resolve", "recover"}
    /\ Fail(c, "LedgerFailure")
    /\ UNCHANGED ledgerVars

\* A statement after the first fails; the deferred Rollback runs.
StatementFails(c) ==
    /\ pc[c] \in {"insertDecision", "insertEffects"}
    /\ Rollback(c)
    /\ Fail(c, "LedgerFailure")

OperationFails(c) ==
    QueryFails(c) \/ InsertRequestFails(c) \/ StatementFails(c) \/ CommitFails(c)

\* The client goes away.
Cancel(c) ==
    /\ pc[c] \in InFlight
    /\ ~ cancelled[c]
    /\ cancelled' = [cancelled EXCEPT ![c] = TRUE]
    /\ UNCHANGED <<pc, request, prepared, outcome, record, crashes, ledgerVars>>

\* database/sql rolls a transaction back as soon as its context is done, unless
\* Tx.Commit was faster.
AwaitDone(c) ==
    /\ ~ ContextLive(c)
    /\ tx[c].open
    /\ pc[c] # "committing"
    /\ Rollback(c)
    /\ UNCHANGED <<callVars, crashes>>

Crash ==
    /\ crashes < MaxCrashes
    /\ crashes' = crashes + 1
    /\ LoseTransactions
    /\ pc' = [c \in Calls |-> IF pc[c] \in InFlight THEN "crashed" ELSE pc[c]]
    /\ UNCHANGED <<request, prepared, cancelled, outcome, record>>

-----------------------------------------------------------------------------

\* What the code does next by itself.
Step(c) ==
    \/ LookUp(c)
    \/ EvaluatePolicy(c)
    \/ PreparationFails(c)
    \/ CommitLookUp(c)
    \/ Begin(c)
    \/ InsertRequest(c)
    \/ LostRace(c)
    \/ Resolve(c)
    \/ BusyTimeout(c)
    \/ InsertDecision(c)
    \/ DecisionRejected(c)
    \/ InsertEffects(c)
    \/ EffectsRejected(c)
    \/ CommitTx(c)
    \/ CommitDurable(c)
    \/ Recover(c)
    \/ Return(c)
    \/ ~ ContextLive(c) /\ OperationFails(c)

\* What the environment may do to it.
Environment(c) ==
    \/ Submit(c)
    \/ SubmitInvalid(c)
    \/ Cancel(c)
    \/ AwaitDone(c)
    \/ CommitUncertain(c)
    \/ ContextLive(c) /\ OperationFails(c)

Next ==
    \/ \E c \in Calls : Step(c) \/ Environment(c)
    \/ Crash

Spec == Init /\ [][Next]_vars

FairSpec == Spec /\ \A c \in Calls : WF_vars(Step(c))
-----------------------------------------------------------------------------
(* Properties                                                              *)

\* The committed tables hold evaluations whole: a request has one row and one
\* decision, a decision has a request, and the effects stored for a decision
\* are those its evaluation called for, no fewer, no more, none left over.
\* CommitEvaluation writes them in three statements, any of which can fail.
LedgerWhole ==
    /\ \A a \in actionRequests :
         /\ \A b \in actionRequests : a.key = b.key => a = b
         /\ \E d \in decisions : d.key = a.key
    /\ \A d \in decisions :
         /\ \A e \in decisions :
              (d.key = e.key \/ d.decisionID = e.decisionID) => d = e
         /\ \E a \in actionRequests : a.key = d.key
         /\ d.evaluation \in ReviewEvaluations =>
              \E f \in policyEffects :
                  f.decisionID = d.decisionID /\ f.idempotencyKey = d.key
    /\ \A f \in policyEffects :
         /\ \E d \in decisions :
              /\ d.decisionID = f.decisionID
              /\ d.key = f.idempotencyKey
              /\ d.evaluation \in ReviewEvaluations
         /\ \A g \in policyEffects :
              (f.effectID = g.effectID \/ f.decisionID = g.decisionID) => f = g

\* The decision stored for a request is the one that some call evaluated for
\* exactly the action the request is bound to: rows of racing calls for
\* different actions never mix, so an ALLOW is never attached to an action
\* nobody evaluated it for.
DecisionBelongsToItsAction ==
    \A a \in actionRequests, d \in decisions :
        a.key = d.key =>
            \E c \in Calls :
                /\ request[c] = [key |-> a.key, digest |-> a.digest]
                /\ prepared[c] # NoValue
                /\ prepared[c].decisionID = d.decisionID
                /\ prepared[c].evaluation = d.evaluation

\* What Evaluate returns is durable and is for the action asked about: the
\* ledger holds the returned decision under the caller's key and digest, also
\* after later crashes, whichever path (lookup, commit, lost race, commit
\* error) the answer came by.
AnswersAreAuthoritative ==
    \A c \in Calls :
        outcome[c] = "decided" =>
            /\ record[c].digest = request[c].digest
            /\ [key |-> request[c].key, digest |-> record[c].digest]
                 \in actionRequests
            /\ [decisionID |-> record[c].decisionID, key |-> request[c].key,
                evaluation |-> record[c].evaluation] \in decisions

\* Exact retries are told the same decision, and two different actions are
\* never both decided under one runtime-scoped request ID.
RetriesAgree ==
    \A b, c \in Calls :
        /\ outcome[b] = "decided"
        /\ outcome[c] = "decided"
        /\ request[b].key = request[c].key
        => record[b] = record[c]

\* A caller told ErrRequestIDConflict has reused its own runtime's request ID:
\* the ledger binds that key to another action.  Another runtime's use of the
\* same request ID never causes one.
ConflictIsReal ==
    \A c \in Calls :
        outcome[c] = "RequestIDConflict" =>
            \E a \in actionRequests :
                a.key = request[c].key /\ a.digest # request[c].digest

\* A decision made only because the caller went away is never stored.  The
\* Osprey adapter answers a cancelled context with the same fail-closed
\* POLICY_UNAVAILABLE as an outage, and Evaluate goes on to commit it: if the
\* ledger took it, every retry of the request would be denied for good.
CutShortNeverStored == \A d \in decisions : d.evaluation # CutShort

\* A call whose insert found the key taken finds the winner's evaluation: the
\* winner's rows became visible together, nobody removes them, and the rows
\* that ON CONFLICT looks at are the ones the lookup joins, so the not-found
\* error of resolveCommitRace never reaches a caller who lost a race.
LosersFindTheWinner == \A c \in Calls : pc[c] = "resolve" => Stored(c) # {}

\* Every call returns unless the process dies under it: calls that wait for a
\* pooled connection or for the write lock do not wait for each other.
EveryCallReturns ==
    \A c \in Calls :
        pc[c] \in InFlight ~> pc[c] \in {"returned", "crashed"}

\* api/openapi.yaml answers 409 when "The runtime-scoped request ID is already
\* bound to a different action digest", and the service's tests want "only
\* request ID conflict" for one discovered during commit: whenever resolving
\* a commit reads such a binding, the call returns ErrRequestIDConflict.
ConflictDuringCommitReported ==
    [][\A c \in Calls :
          /\ Resolve(c) \/ Recover(c)
          /\ \E stored \in Stored(c) : stored.digest # request[c].digest
          => outcome'[c] = "RequestIDConflict"]_vars

-----------------------------------------------------------------------------
(* Refinement                                                              *)

\* The binding of a key is the join of its committed rows.
Bindings ==
    {b \in [key : Keys, record : DecisionRecords] :
        \E d \in decisions, a \in actionRequests :
            d.key = b.key /\ a.key = b.key /\ b.record = RecordOf(d, a)}

Authority == INSTANCE AuthoritativeDecisions WITH bound <- Bindings, asked <- request

\* The service implements the abstract promise: every step of Evaluate and
\* CommitEvaluation, of the environment and every crash is one abstract step
\* or invisible to callers.
ImplementsAuthority == Authority!AbsSpec
=============================================================================
