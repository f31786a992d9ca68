# Verification of Agent Action Control

Agent Action Control answers one question for an agent runtime: may this exact
action be executed now?  A runtime posts a proposed action under a request ID of
its own choosing; the service normalizes it, asks a policy evaluator, composes a
decision, commits the decision to a SQLite ledger, and returns it.  The
committed decision is authoritative: every exact retry gets it again, and the
same request ID for another action is a conflict.

This directory holds TLA+ models of that program, TLC configurations, and TLAPS
proofs.  Paths below are relative to the repository, which is `src/` in
`PROJECT.json`.

## 1. Inventory

| Component | State | Operations | Hard behaviour | What makes it correct |
|---|---|---|---|---|
| Decision service (`internal/application/decision_service.go`) | none of its own; a call's locals | `Evaluate` | calls run concurrently; the lookup is stale after policy evaluation; contexts are cancelled; the process dies | answers are durable, retries agree, conflicts are real, every call returns |
| Decision ledger (`internal/storage/sqlite/ledger.go`, `serialization.go`, `migrations/0001_minimal_ledger.sql`) | tables `action_requests`, `decisions`, `policy_effects`; open transactions; SQLite's write lock; a pool of four connections | `GetEvaluationByRequestID`, `CommitEvaluation` | check-then-insert race, failure between three inserts, commit with uncertain outcome, busy timeout | evaluations are stored whole or not at all, once per runtime-scoped request ID, and never change |
| Composer and decision value (`decision_composer.go`, `domain/decision.go`) | none | `Compose`, `NewDenyDecision`, `decodeDecision`, `Validate` | the rule about a decision's shape exists four times | what one copy produces the others accept |
| Osprey adapter (`internal/policy/osprey`) | none | `Evaluate`, `mapVerdicts` | timeouts, malformed, repeated and reordered verdicts | fails closed, order irrelevant |
| Embedded rules (`internal/policy/embedded`) | none | `Evaluate` | evidence of several issuers and scopes | allows exactly what is clear |
| Opening and migrations (`database.go`, `migrations.go`) | `schema_migrations` and the schema | `Open`, `Migrate` | several processes and releases start on one file and die anywhere | schema and history agree, a ready process has its schema |
| HTTP transport (`internal/transport/http`) | none | `evaluateAction` and the error mapping | errors wrapped several times | right status for each outcome |
| Normalizer and digest (`action_normalizer.go`, `domain/*.go`, `decodeAction` in `serialization.go`) | none | `Normalize`, `ComputeActionDigest`, `decodeAction` | equivalent spellings, ordering, limits, times at the ends of the calendar; the facts are written out four times | equal actions have equal digests, different ones do not; a stored action can be read back |
| Runtime authentication (`internal/auth`) | fixed token table | `Authenticate` | none | a credential names one runtime |
| Process (`cmd/action-control/main.go`) | listener, database, Osprey connection | `run` | shutdown gives up after ten seconds and closes database and connection under running handlers; a listener that fails does so at once | no answer without a durable decision, no decision made of the shutdown itself, and it stops |

The HTTP handler calls `Evaluate` with the request's context, so a client that
goes away cancels everything below it.  `Evaluate` calls the evaluator and the
ledger; calls share nothing but the ledger.  Several processes share nothing but
the database file.  The hazards this leads to are listed, each at its line, in
`PROJECT.json`.

## 2. Modules

| Module | Models |
|---|---|
| `DecisionLedger` | tables, transactions, write lock and pool; one operator per statement |
| `DecisionService` | concurrent calls of `Evaluate` and `CommitEvaluation`; extends `DecisionLedger` |
| `AuthoritativeDecisions` | the promise to callers, without tables, transactions or races |
| `Decisions` | the decision value, the composer, the CHECKs, `decodeDecision`, `Validate` |
| `OspreyEvaluator`, `EmbeddedEvaluator` | the two policy evaluators as functions |
| `PolicyDecision` | one action through evaluation, composition, storage, reply and retries; extends the three above |
| `ActionNormalizer` | constructors, limits, canonical form, digest and `decodeAction` as operators |
| `ActionEndpoint` | the endpoint from the Authorization header to the status code; extends `ActionNormalizer`, refines `AuthoritativeDecisions` |
| `ServiceLifecycle` | `run()` with the requests that are under way |
| `Migrations` | starts of several releases on one file |
| `DecisionServiceProofs`, `DecisionRefinementProofs`, `DecisionsProofs`, `PolicyDecisionProofs`, `ActionNormalizerProofs`, `ActionEndpointProofs`, `ServiceLifecycleProofs`, `MigrationsProofs` | TLAPS proofs |
| `MCDecisionService`, `MCPolicyDecision`, `MCActionEndpoint`, `MCMigrations` | instances for TLC |

### DecisionService and DecisionLedger

A member of `Calls` is one invocation of `Evaluate`; a client's retry is another
member.  `pc[c]` is the database operation the call issues next, so every
interleaving of database operations is explored:

| `pc` | Code |
|---|---|
| `lookup` | first `GetEvaluationByRequestID` in `Evaluate` |
| `policy` | evaluator, composer, IDs, clock |
| `commitLookup`, `begin` | second lookup and `BeginTx` in `CommitEvaluation` |
| `insertRequest`, `insertDecision`, `insertEffects`, `commit` | the statements of the transaction |
| `resolve` | `resolveCommitRace` after zero rows were inserted |
| `recover` | `resolveCommitRace` after an insert or commit error |
| `committing` | `Tx.Commit` has looked at the context, the driver's COMMIT is on its way |
| `committed` | back from `Commit` |

A table is the set of its committed rows.  A transaction holds its own rows until
`Commit` adds them to the tables in one step.  The first writing statement takes
the write lock and a call that meets the lock of another waits until it is
released or its busy timeout expires (`BusyTimeout`).  A connection of the pool is
occupied by each open transaction; reads and `BeginTx` need a free one
(`ConnectionFree`).  The action, the decision and the matched rules are abstracted
to a digest and an `Evaluation`, which two calls for one action may draw
differently: policy is consulted each time and may have changed.  IDs may
collide.

`Tx.Commit` is two steps, as in `database/sql`: it looks at the context and marks the
transaction done (`CommitTx`), then the driver executes COMMIT without the context
(`CommitDurable`, `CommitUncertain` or `CommitFails`).  A call that is cancelled in
between does store its evaluation.  What must not be stored is `CutShort`, the
fail-closed denial that the Osprey adapter makes of a context that ended during its
own call: it can only be drawn by a call that is cancelled already, and every
operation of the ledger up to `CommitTx` needs a live context (`ContextLive`).

The environment may submit, cancel (`Cancel`; `AwaitDone` is the rollback
`database/sql` performs when the context is done, unless `Tx.Commit` came first), fail any operation
(`OperationFails`), report an error for a commit that became durable
(`CommitUncertain`), and kill the process (`Crash`).

### PolicyDecision

One request with its retries.  `Answers` is everything the coordinator can do to
the adapter: any sequence of verdicts, or a failed call.  A verdict is a family
(its prefix) and a key; the key is one of the reason codes, a string that matches
the key pattern, or one that does not.  The embedded rules see an action's
parameters, whether the payload is SECRET, and its evidence.  The first attempt is
answered from the decision in memory, later ones from `decodeDecision` of the
row, as in the code.

A loop of the code that keeps some elements of a list, in order, is
`Picked(s, I)`: the elements of `s` at the indexes `I`.  It says which elements are
kept and at which position each ends up, without recursion, so it can be reasoned
about for lists of any length.

### ActionNormalizer and ActionEndpoint

`ActionEndpoint` handles requests one after the other: `DecisionService` has the
races and takes digests as given, this module has the digests.  `stage` is
`received` until the lookup, then `policy`, `commit` and `committed`.

A string is a text with a spelling, `[text, padded, lower]`: `TrimSpace` and
`ToUpper` change the spelling, `Length` gives the length in bytes that the limits
are compared with.  A digest is valid in lower case and without padding only.  A
time is what a clock showed and its offset; the years 0 to 9999 are
`0 .. LastTime` in units of the largest offset, so a time near either end leaves
them when it is converted to UTC.  A list that the code sorts and rids of
repetitions is a set.  `Valid...` operators are the error returns of a
constructor, the operator with the constructor's name is its value.  JSON syntax,
unknown fields, trailing data and the size limit of the body are the one bit
`wellFormed`.  The canonical form keeps every fact, so it stands for its SHA-256
digest.

Of the CHECKs of `action_requests`, all but two hold by construction.  `length(trim(x))`
stops at U+0000 where Go's `TrimSpace` and `len` do not, so a request ID that begins
with it (`NulTexts`) passes the service's checks and is refused by the table
(`Storable`, `CommitRefused`): 500 on every attempt, and nothing is bound.

Errors are sets: what `errors.Is` would find in the wrapped error.
`writeApplicationError` takes the first that counts.

The reference the code is held against does not use the normalizer.  `Meaning` says
what a client means by an action, in one expression per fact; `Deserved` is given
with each request in `MCActionEndpoint` and says the status it deserves when
nothing fails.  `AuthoritativeDecisions` is instantiated with meanings for
digests.

### ServiceLifecycle

`process` is how far `run()` is, `deferred` the number of `Close` calls it has
deferred and not yet executed; `Resources` gives their order.  Each client has one
request and repeats it until it is told a decision; `stage` is what its handler
does next.  Handlers go on until the process is gone: `LookUp` and `BeginTx` fail
on a closed database, `EvaluatePolicy` on a closed connection yields the adapter's
fail-closed denial (`"own outage"`), and a transaction that was begun can still
commit, because `database/sql` closes only idle connections.  `RunFails` is an
error return before the service listens, or the listener's own error, on which
`run()` returns without `Shutdown`.  `accepting` says that connections bring new
requests: from the start of the listener until `Shutdown`, which closes the
idle connections too, or until the process is gone.  After a failure of the listener
connections that are kept alive can still bring requests while `run()` closes
its resources.  The policy is Osprey; the embedded rules need
no connection and their `Close` does nothing, so their `own outage` cannot occur.

### Migrations

Each process runs `Migrate` statement by statement.  `Latest[p]` is the
`LatestSchemaVersion` of the release it runs; the repository's is 1, but the code
is written for any, and rolling upgrades put different ones on one file.
A start that finds the object it wants to create fails (`MigrationLost`), because
scripts say `CREATE TABLE` without `IF NOT EXISTS`.

## 3. Runs

| Run | Bounds | Shows |
|---|---|---|
| `decision_race` | 3 calls, 1 key, 2 actions, 2 evaluations and the cut-short one, 2 decision IDs, 1 effect ID, 2 connections, 1 crash | `TypeOK`, `LedgerWhole`, `DecisionBelongsToItsAction`, `AnswersAreAuthoritative`, `RetriesAgree`, `CutShortNeverStored` |
| `decision_scopes` | 2 calls, 2 runtimes with one request ID, 2 actions, 2 decision and 2 effect IDs that may collide, 1 crash | `ConflictIsReal`, `LosersFindTheWinner`, refinement of `AuthoritativeDecisions` |
| `decision_liveness` | 3 calls on 2 connections | `EveryCallReturns` |
| `decision_conflict` | 2 calls, 2 actions | **violated:** `ConflictDuringCommitReported` |
| `policy_osprey` | answers of up to 3 of 16 verdicts, 3 attempts | `TypeOK`, `FailsClosed`, `ApprovalNeverCuresTerminal`, `DecisionsSurviveStorage`, `VerdictOrderIrrelevant`, `RulesExplainReasons` |
| `policy_embedded` | every action with up to 2 of 64 items of evidence, 2 attempts | `AllowOnlyWhenClear`, `ClearIsAllowed`, `RetriesReplyAlike`, `SecretsAreReviewed` |
| `policy_terminal` | as `policy_osprey` | **violated:** `DenyVerdictIsTerminal` |
| `endpoint` | 2 attempts out of 121 requests, either evaluator, 2 credentials, lists of at most 3 items and 2 labels | `TypeOK`, `StatusDeserved`, `StoredActionsReadable`, `ErrorsBindNothing`, `PolicySeesTheAction`, refinement of `AuthoritativeDecisions` |
| `endpoint_retry` | as `endpoint`, embedded rules | **violated:** `ExactRetryStable` |
| `lifecycle` | 3 clients, 2 starts | `TypeOK`, `OwnOutageNeverStored`, `DecisionsToldAreStored`, `CleanExitLosesNobody`, `StopsWhenTold` |
| `migration_race` | releases with schema 1, 2 and 3, two starts each | `TypeOK`, `SchemaMatchesHistory`, `HistoryContiguous`, `ReadyMeansMigrated`, `LostToACommit`, `RefusedMeansOlder`, `EveryStartEnds` |
| `migration_fault_free` | three processes, one start each, without failures and crashes | `SomebodyGetsReady` |

Three calls are enough for a winner, a loser and a caller that comes later, and for
more calls than connections; the theorems of section 4 carry the safety
properties to any number.  One key suffices where calls must meet, two where they
must not.  Three verdicts give every pair of families with a third to come
before, between or after them.  Two items of evidence separate "issued by the
runtime" from "matches the action".  Three releases give one that is older, one
that is newer and one between.

The requests of `MCActionEndpoint` are one action per type, and for every fact of an
action a variant that is spelled differently, one that means something else, one
at the limit and one past it; two attempts compare any two of them, under one
request ID or two and by one runtime or two.  The limits of 100 items and 32 labels
are scaled down, those on lengths are the code's.  Two starts are enough for a
process that is left behind and one that answers the retries.

Where the bound of an action's counter is reached
(crashes, starts, attempts) or all calls have returned the model has nothing left
to do, so deadlock is not checked.

Symmetry is used in `decision_race` and `decision_scopes`, over calls, digests and
IDs, which the model compares and never orders.  Their `PROPERTIES` are of the form
`[][A]_v` or `I /\ [][N]_v`, without fairness, and treat these values alike, so
symmetry is sound for them; `decision_liveness` uses none.

Fairness.  `FairSpec` assumes weak fairness of what each call does by itself
(`Step`): goroutines keep running, statements return, and the busy timeout of
SQLite expires.  Failures, cancellation and crashes are never assumed to happen
and never assumed to stop, except that a call whose context is done gets an error
from its next operation.  `Migrations!FairSpec` is the same for starts;
`FaultFreeSpec` adds that somebody starts the processes and leaves the faults out.
`ServiceLifecycle!FairSpec` is weak fairness of the main goroutine alone, its
ten-second timer included: no client is assumed to finish its body and no handler
to return.

### What the violated runs show

* `decision_conflict`: a call for another action waits at the insert behind the
  winner's transaction until its busy timeout expires.  It rolls back, reads the
  ledger again, and by now finds the winner's binding.  `CommitEvaluation`
  (`ledger.go:154`) uses that read only if it resolves to a decision, and returns
  `ErrLedgerFailure` otherwise; the client gets 500 where `api/openapi.yaml:118`
  and the service's test speak of a conflict.  A retry gets the conflict.
* `policy_terminal`: the README calls `deny.<reason_code>` "a terminal deny", but
  `deny.external_destination`, `deny.visibility_expansion` and
  `deny.destructive_operation` become approvable as soon as an approval verdict
  comes with them, because `containsTerminalReason` looks at the reason and not at
  the verdict it came from.
* `endpoint_retry`: `requestedAt` `9999-12-31T23:59:59-01:00` is valid RFC 3339 and is
  the year 10000 in UTC.  The embedded rules decide it, the row is stored and the
  client gets 200; `decodeAction` (`serialization.go:229`) cannot parse the time that
  `CanonicalActionBytes` formatted, so every retry, and any other use of that
  request ID, gets 500.  With Osprey the first attempt already fails, because the
  facts cannot be marshalled, and nothing is stored.  `StoredActionsReadable` shows
  that these times are the only obstacle: every other stored action is read back
  exactly.

## 4. Theorems

Every invariant, every action property and both refinements that the passing runs
check are proved, for every value of the constants that satisfies the `ASSUME`s of the
modules: `NoCall` is not a call and `NoValue` not a value, review evaluations are
evaluations and the cut-short one is an evaluation without review, the pool has at least one connection, bounds and limits are natural
numbers, every release has a positive schema version, the acting runtime is an
issuer and `PRIVATE` a scope, the length of a text is a natural number, the
calendar has at least two units, requests are records of inputs, and a table of
credentials has one valid runtime per token.  Nothing is assumed of the clients of
`ServiceLifecycle`, of the number or length of Osprey's verdicts, or of the set of
requests.

`DecisionServiceProofs` proves `Spec => []P` for `TypeOK`, `LedgerWhole`,
`DecisionBelongsToItsAction`, `AnswersAreAuthoritative`, `ConflictIsReal` and
`RetriesAgree`.  None is inductive.  The invariant `IInv` adds, for each call,
what its stage says about it:

* `ProgressOK`: which of request, commit and answer exist;
* `TransactionOK`: the transaction holds exactly the rows of the statements
  executed so far, and the call owns the write lock from its first insert on;
* `ReservationOK`: the key and the IDs it has inserted are still absent from the
  tables.  This is the heart of the argument: constraints are checked when a row is
  inserted and rows become visible at commit, and what bridges the two is that
  nobody else can commit while the call owns the write lock (`Bystander`);
* `CommittedOK`: between commit and return its rows are in the tables.

`RetriesAgree` then follows from `AnswersAreAuthoritative` and the uniqueness in
`LedgerWhole`.  `DecisionRefinementProofs` proves `Spec => ImplementsAuthority` with
the same invariant: a commit is the abstract step that binds a key, a return is one
that tells a caller, and everything else is invisible.

It also proves `CutShortNeverStored` and `LosersFindTheWinner`, by a second invariant
beside `IInv`.  `RaceInv` says that a call that was cut short is cancelled and gets no
further than the second lookup (`CutShortStops`), although the commit itself would not
stop it, and that a call that lost a race lost it to a committed row
(`LoserHasWinner`).  That row stays, and by `LedgerWhole` it has a decision, so the
lookup of `resolveCommitRace` finds the join of the two.

`MigrationsProofs` proves the type invariant and the five safety properties of
`migration_race`.  Its invariant says that the process between script and commit
owns the lock and holds exactly version `current + 1` (`TransactionsFit`), that what
a process has read of the schema is still part of it (`CurrentFits`), and that the
history is `1 .. n` for some `n` (`Gapless`).  `ReadVersion` needs that the count
and the maximum of `1 .. n` are `n` (`IntervalVersion`).

`ServiceLifecycleProofs` proves all safety properties of the run `lifecycle`.
`OwnOutageNeverStored` rests on the order of the deferred calls: a handler holds a
denial of the process's own making only when nothing is open any more
(`OutageMeansClosed`, from the two lemmas about `Open`), a transaction is begun only
while everything is open, so it holds policy's verdict (`StagesAgree`).
`SuccessIsDrained` says that an exit without error has no handler left and gets no new
one; `AcceptingServes` that requests come only to a process that serves or closes.  `ClientStep`
states once what a step of one client has to show for all of them.

`DecisionsProofs` begins with lemmas about `Picked` (its length, its elements, that
it is the list itself when every index is kept) and proves
`ComposedDecisionsSurvive`: for reasons of any number and order, what `Compose` makes
of them passes the CHECKs, is decoded to itself and is a valid response.  The
argument is one lemma about each copy of the rule and one about the shape that
`Compose` yields; the key fact is that a list without repetitions is left alone by
the second normalization.

`PolicyDecisionProofs` proves all properties of `policy_osprey` and
`policy_embedded`.  Its invariant relates what an attempt holds to what the evaluator
and the composer make of the action and the answer (`Evaluated`, `Decided`):
`AttemptFits` for each stage, `RowFits` for the row, `RepliesFit` for the replies.
Without it a reply is any decision.  `VerdictOrderIrrelevant` and
`RulesExplainReasons` are theorems for the Osprey adapter and
`SecretsAreReviewed` for the embedded rules, since each speaks of one evaluator; the
others hold for either.

`ActionNormalizerProofs` proves `DecodeUndoesEncode`: the stored form of an action
can be read, passes every constructor again and gives back the action, unless its
time lies outside the calendar.  There is one lemma per type of value (`StringsAgain`,
`PrincipalsAgain`, `ScopeAgain`, `EvidenceAgain`, `ParametersAgain`, `PayloadAgain`):
normalizing a normal value changes nothing, and a normal value stays within the
limits, because trimming and dropping repetitions never add to it.  The exception
is the finding of `endpoint_retry`.

`ActionEndpointProofs` proves first that normalization keeps exactly the meaning
(`NormalizationIsMeaning`, again one lemma per type of value) and that neither the
digest nor Osprey's JSON loses anything of the normalized action
(`FormsInjective`).  The invariant says that only the latest attempt may be without a
reply and is past the checks exactly when its request passes them (`AttemptFits`),
that a row is made of the request of the attempt whose number it bears
(`LedgerFits`), that a reply with status 200 has a row and an error without a fault has none
(`RepliesFit`), and that the evaluator was given the action of the attempt
(`FactsFit`).  The refinement maps `Send` to the abstract request, `Commit` to the
step that binds a key to a meaning and a decision, and each reply to the step that
tells an attempt what the binding says or an error; `NormalizationIsMeaning` turns
"same digest" into "same meaning" there.

`StatusesAreDeserved` and `Refinement` have the hypothesis `TableAgrees`: the status
that the table gives to a request is the one that the checks before the ledger give
it by themselves.  That is a statement about a finite table and not about the
system, and the run `endpoint` establishes it for the table of `MCActionEndpoint`:
each of its requests is the first attempt of some behaviour without a fault, and
`StatusDeserved` compares the reply with the table.  What the theorems add is that
nothing else matters: not the attempts before, the ledger, the evaluator or the
faults of other attempts.

Checked by TLC only: the liveness properties `EveryCallReturns`, `EveryStartEnds`,
`SomebodyGetsReady` and `StopsWhenTold` (fairness is out of the prover's reach), and the
table of `MCActionEndpoint`.  Properties of the code that do not hold
(`ConflictDuringCommitReported`, `DenyVerdictIsTerminal`, `ExactRetryStable`) have a
violated run and no theorem.

## 5. Not modelled, and the plan

Left out on purpose: generated protocol stubs; logging; the text of errors; the
health endpoint, which keeps and reads no state; JSON syntax below the level of
fields; the columns of the tables that no key, constraint or answer depends on;
parsing of the names of the embedded migration files, which has one outcome per
build; collisions of SHA-256.

What could still be proved:

1. The weaker statements that do hold where a run is violated: a conflict that is
   found during commit is reported unless the insert itself failed, and an exact
   retry is stable for every request whose time can be expressed.
2. Lemmas that would carry the liveness arguments as far as the prover goes: that
   the holder of the write lock is never itself waiting, and that each step of a call
   or of a start brings it nearer to its end.
