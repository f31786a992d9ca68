---------------------------- MODULE ActionEndpoint ----------------------------
(***************************************************************************)
(* POST /v1/action-decisions from the Authorization header to the status   *)
(* code: authentication, decoding, mapping, normalization, lookup, policy, *)
(* storage, and the classification of errors.  Clients send requests, the  *)
(* same ones again, or the same action spelled differently.                *)
(*                                                                         *)
(* Attempts follow one another here; DecisionService models how they race, *)
(* and takes for granted the digests that this module computes.            *)
(***************************************************************************)
EXTENDS ActionNormalizer

CONSTANTS
    Requests,           \* what clients send
    Credentials,        \* the configured tokens and their runtimes
    Deserved,           \* the status each deserves when nothing fails
    NulTexts,           \* the texts that begin with U+0000
    PolicyEvaluators,   \* "osprey", "embedded", or either
    Evaluations,        \* what policy may say of an action
    MaxAttempts,        \* bound on the requests sent
    NoValue

ASSUME RequestsAssumption ==
    \A r \in Requests :
        /\ r.header \in Seq(Strings)
        /\ r.wellFormed \in BOOLEAN
        /\ r.apiVersion \in STRING
        /\ r.requestID \in Strings
        /\ r.action \in ProposedActionInputs
        /\ Deserved[r] \in {200, 400, 401, 403, 422}
\* main.go configures one credential; a larger table has one entry per token.
ASSUME CredentialsAssumption ==
    /\ \A c \in Credentials :
         /\ c.token \in Strings /\ c.runtimeID \in Strings
         /\ TrimSpace(c.token) # Empty /\ ValidIdentifier(c.runtimeID)
    /\ \A c, d \in Credentials : TrimSpace(c.token) = TrimSpace(d.token) => c = d
ASSUME NulAssumption == NulTexts \subseteq DOMAIN Length
ASSUME PolicyAssumption == PolicyEvaluators \subseteq {"osprey", "embedded"}
ASSUME AttemptsAssumption == MaxAttempts \in Nat

VARIABLES
    policyEvaluator,    \* the one that is configured
    stage,      \* where the latest attempt is
    sent,       \* the requests sent so far; an attempt is a position in it
    replies,    \* the replies to them
    ledger,     \* the rows of action_requests with their decisions
    facts,      \* what the evaluator was given, per attempt
    evaluation, \* what it said to the latest attempt
    faulty      \* the attempts that met a failing database

vars == <<policyEvaluator, stage, sent, replies, ledger, facts, evaluation, faulty>>

Init ==
    /\ policyEvaluator \in PolicyEvaluators
    /\ stage = "idle"
    /\ sent = <<>>
    /\ replies = <<>>
    /\ ledger = {}
    /\ facts = <<>>
    /\ evaluation = NoValue
    /\ faulty = {}

attempt == Len(sent)
request == sent[attempt]

-----------------------------------------------------------------------------
(* Who is asking                                                           *)

\* The header holds a scheme and a token.
bearerCredential(header) == Len(header) = 2 /\ ToUpper(header[1]) = Text("BEARER")

\* The table of NewStaticRuntimeAuthenticator.
runtimesByToken ==
    [t \in {TrimSpace(c.token) : c \in Credentials} |->
        TrimSpace((CHOOSE c \in Credentials : TrimSpace(c.token) = t).runtimeID)]

Authenticates(r) ==
    bearerCredential(r.header) /\ TrimSpace(r.header[2]) \in DOMAIN runtimesByToken

Authenticate(r) == runtimesByToken[TrimSpace(r.header[2])]

(* What the body says                                                      *)

\* DecodeEvaluateActionRequest, with the parameters read against the action's
\* type: those of another type have fields that are not known.
Decoded(r) ==
    /\ r.wellFormed
    /\ r.apiVersion = "v1"
    /\ r.action.type \in ActionTypes
    /\ r.action.parameters.type = r.action.type

\* toEvaluateActionCommand knows all types the body names.
Mapped(r) ==
    /\ r.action.parameters.type = "UPDATE_RESOURCE_ACCESS" =>
         \A p \in ToSet(r.action.parameters.targetPrincipals) : p.type \in PrincipalTypes
    /\ \A e \in ToSet(r.action.evidence) :
         e.scope.actionType \in ActionTypes /\ e.issuedBy.type \in PrincipalTypes
    /\ r.action.delegation.delegator.type \in PrincipalTypes

normalizeDecisionRequestID(s) == TrimSpace(s)

\* The errors of Evaluate before it looks up anything.
InputErrors(r) ==
    IF ~ ValidIdentifier(r.requestID) THEN {"InvalidInput"}
    ELSE NormalizeErrors(Authenticate(r), r.action)

Key(r) ==
    [runtimeID |-> Authenticate(r), requestID |-> normalizeDecisionRequestID(r.requestID)]

NormalizedAction(r) == normalizeAction(Authenticate(r), r.action)

Digest(r) == ComputeActionDigest(NormalizedAction(r))

Accepted(r) == Authenticates(r) /\ Decoded(r) /\ Mapped(r) /\ InputErrors(r) = {}

-----------------------------------------------------------------------------
(* Replies                                                                 *)

\* The next attempt starts with what policy said to this one.
ReplyKeepingEvaluation(reply) ==
    /\ replies' = Append(replies, reply)
    /\ stage' = "idle"
    /\ UNCHANGED <<sent, evaluation>>

Reply(reply) ==
    /\ replies' = Append(replies, reply)
    /\ stage' = "idle"
    /\ evaluation' = NoValue
    /\ UNCHANGED sent

Refuse(status) == Reply([status |-> status, record |-> NoValue])

\* Invalid input is looked for first.
invalidInputFirst(errors) ==
    IF "InvalidInput" \in errors THEN 422
    ELSE IF "RuntimeIdentityConflict" \in errors THEN 403
    ELSE IF "RequestIDConflict" \in errors THEN 409
    ELSE 500

\* Whoever wrapped the error, the first of these that it contains counts.
writeApplicationError(errors) ==
    IF "RuntimeIdentityConflict" \in errors THEN 403
    ELSE IF "RequestIDConflict" \in errors THEN 409
    ELSE IF "InvalidInput" \in errors THEN 422
    ELSE 500

RecordOf(row) ==
    [decisionID |-> row.decisionID, evaluation |-> row.evaluation, digest |-> row.digest]

Send ==
    /\ stage = "idle"
    /\ attempt < MaxAttempts
    /\ \E r \in Requests : sent' = Append(sent, r)
    /\ stage' = "received"
    /\ UNCHANGED <<replies, ledger, facts, evaluation, faulty>>

Unauthenticated ==
    /\ stage = "received"
    /\ ~ Authenticates(request)
    /\ Refuse(401)
    /\ UNCHANGED <<ledger, facts, faulty>>

Malformed ==
    /\ stage = "received"
    /\ Authenticates(request)
    /\ ~ Decoded(request)
    /\ Refuse(400)
    /\ UNCHANGED <<ledger, facts, faulty>>

Unmappable ==
    /\ stage = "received"
    /\ Authenticates(request)
    /\ Decoded(request)
    /\ ~ Mapped(request)
    /\ Refuse(422)
    /\ UNCHANGED <<ledger, facts, faulty>>

RefuseInput ==
    /\ stage = "received"
    /\ Authenticates(request)
    /\ Decoded(request)
    /\ Mapped(request)
    /\ InputErrors(request) # {}
    /\ Refuse(writeApplicationError(InputErrors(request)))
    /\ UNCHANGED <<ledger, facts, faulty>>

-----------------------------------------------------------------------------
(* Lookup, policy, storage                                                 *)

\* GetEvaluationByRequestID rebuilds the action and compares digests.
Readable(row) ==
    Decodes(row.action) /\ ComputeActionDigest(decodeAction(row.action)) = row.digest

LookupErrors(row, digest) ==
    IF ~ Readable(row) THEN {"LedgerFailure"}
    ELSE IF row.digest # digest THEN {"RequestIDConflict"}
    ELSE {}

Found ==
    /\ stage = "received"
    /\ Accepted(request)
    /\ \E row \in ledger :
         /\ row.key = Key(request)
         /\ LET errors == LookupErrors(row, Digest(request))
            IN  IF errors = {} THEN Reply([status |-> 200, record |-> RecordOf(row)])
                ELSE Refuse(writeApplicationError(errors))
    /\ UNCHANGED <<ledger, facts, faulty>>

NotFound ==
    /\ stage = "received"
    /\ Accepted(request)
    /\ \A row \in ledger : row.key # Key(request)
    /\ stage' = "policy"
    /\ UNCHANGED <<sent, replies, ledger, facts, evaluation, faulty>>

LookupFails ==
    /\ stage = "received"
    /\ Accepted(request)
    /\ Refuse(writeApplicationError({"LedgerFailure"}))
    /\ faulty' = faulty \cup {attempt}
    /\ UNCHANGED <<ledger, facts>>

\* The scope of the evidence is not sent.
marshalWithoutScopes(action) ==
    [action EXCEPT
        !.requestedAt = Instant(@),
        !.evidence = {[type |-> e.type, id |-> e.id, issuedBy |-> e.issuedBy] : e \in @}]

\* What the Osprey adapter sends to the coordinator; an empty session ID is
\* omitted.
marshalAction(action) ==
    [action EXCEPT
        !.requestedAt = Instant(@),
        !.actor = [agentID |-> @.agentID, runtimeID |-> @.runtimeID,
                   sessionID |-> IF @.sessionID = Empty THEN <<>> ELSE <<@.sessionID>>]]

\* The embedded rules are given the action itself.
EvaluatorInput(action) ==
    IF policyEvaluator = "osprey" THEN marshalAction(action) ELSE action

\* marshalAction fails on a time that JSON cannot express; the embedded rules
\* fail on references to two items of evidence with one ID.
EvaluatorFails(action) ==
    IF policyEvaluator = "osprey" THEN ~ Representable(Instant(action.requestedAt))
    ELSE /\ Text("SECRET") \in action.payload.classification
         /\ \E a, b \in action.evidence : a # b /\ a.id = b.id

\* The failure is recorded under the request ID.
PolicyFailsBinding ==
    /\ stage = "policy"
    /\ EvaluatorFails(NormalizedAction(request))
    /\ Refuse(writeApplicationError({"PolicyUnavailable"}))
    /\ \E e \in Evaluations :
         ledger' = ledger \cup
             {[key |-> Key(request), digest |-> Digest(request),
               action |-> CanonicalAction(NormalizedAction(request)),
               decisionID |-> attempt, evaluation |-> e]}
    /\ UNCHANGED <<facts, faulty>>

PolicyFails ==
    /\ stage = "policy"
    /\ EvaluatorFails(NormalizedAction(request))
    /\ Refuse(writeApplicationError({"PolicyUnavailable"}))
    /\ UNCHANGED <<ledger, facts, faulty>>

EvaluatePolicy ==
    /\ stage = "policy"
    /\ ~ EvaluatorFails(NormalizedAction(request))
    /\ evaluation' \in Evaluations
    /\ facts' = Append(facts, [attempt |-> attempt,
                               input |-> EvaluatorInput(NormalizedAction(request))])
    /\ stage' = "commit"
    /\ UNCHANGED <<sent, replies, ledger, faulty>>

\* encodeEvaluation checks the commit once more.
EncodeErrors ==
    IF NormalizedAction(request).actor.runtimeID # Key(request).runtimeID
    THEN {"InvalidInput", "LedgerFailure"} ELSE {}

Row ==
    [key |-> Key(request), digest |-> Digest(request),
     action |-> CanonicalAction(NormalizedAction(request)),
     decisionID |-> attempt, evaluation |-> evaluation]

\* The CHECKs of action_requests: length(trim(x)) counts the characters before
\* the first U+0000, which Go's TrimSpace and len() do not stop at.  What the
\* other CHECKs ask for is so by construction.
Storable(r) ==
    \A s \in {Key(r).runtimeID, Key(r).requestID} : s # Empty /\ s.text \notin NulTexts

Commit ==
    /\ stage = "commit"
    /\ IF EncodeErrors = {}
       THEN /\ Storable(request)
            /\ ledger' = ledger \cup {Row}
            /\ stage' = "committed"
            /\ UNCHANGED <<sent, replies, evaluation>>
       ELSE /\ Refuse(writeApplicationError(EncodeErrors))
            /\ UNCHANGED ledger
    /\ UNCHANGED <<facts, faulty>>

\* The insert violates a CHECK: ON CONFLICT DO NOTHING is not about those, and
\* resolveCommitRace finds nothing.
CommitRefused ==
    /\ stage = "commit"
    /\ EncodeErrors = {}
    /\ ~ Storable(request)
    /\ Refuse(writeApplicationError({"LedgerFailure"}))
    /\ UNCHANGED <<ledger, facts, faulty>>

CommitFails ==
    /\ stage = "commit"
    /\ EncodeErrors = {}
    /\ Refuse(writeApplicationError({"LedgerFailure"}))
    /\ faulty' = faulty \cup {attempt}
    /\ UNCHANGED <<ledger, facts>>

Return ==
    /\ stage = "committed"
    /\ \E row \in ledger :
         /\ row.decisionID = attempt
         /\ Reply([status |-> 200, record |-> RecordOf(row)])
    /\ UNCHANGED <<ledger, facts, faulty>>

\* The commit became durable and an error was reported all the same.
CommitUncertain ==
    /\ stage = "committed"
    /\ Refuse(writeApplicationError({"LedgerFailure"}))
    /\ faulty' = faulty \cup {attempt}
    /\ UNCHANGED <<ledger, facts>>

Next ==
    /\ \/ Send
       \/ Unauthenticated
       \/ Malformed
       \/ Unmappable
       \/ RefuseInput
       \/ Found
       \/ NotFound
       \/ LookupFails
       \/ PolicyFails
       \/ EvaluatePolicy
       \/ Commit
       \/ CommitRefused
       \/ CommitFails
       \/ Return
       \/ CommitUncertain
    /\ UNCHANGED policyEvaluator

Spec == Init /\ [][Next]_vars

-----------------------------------------------------------------------------
(* What a client means, said without the steps of the normalizer: spaces   *)
(* around a word never matter, its case does except in a vocabulary, lists *)
(* are sets, and a time is an instant.                                     *)

Word(s) == <<s.text, s.lower>>

Words(list) == {Word(s) : s \in ToSet(list)}

PrincipalMeant(p) == <<p.type, Word(p.id)>>

PrincipalsMeant(list) == {PrincipalMeant(p) : p \in ToSet(list)}

ScopeMeant(s) ==
    <<s.actionType,
      CASE s.actionType = "EXTERNAL_SEND" -> s.destinationScope.text
        [] s.actionType = "UPDATE_RESOURCE_ACCESS" -> s.requestedScope.text
        [] s.actionType = "DELETE" -> s.deleteMode.text>>

ItemMeant(e) ==
    <<e.type.text, Word(e.id), PrincipalMeant(e.issuedBy), ScopeMeant(e.scope)>>

EvidenceMeant(items) == {ItemMeant(e) : e \in ToSet(items)}

ParametersMeant(p) ==
    CASE p.type = "EXTERNAL_SEND" ->
           <<p.type, p.destinationScope.text, Words(p.recipients)>>
      [] p.type = "UPDATE_RESOURCE_ACCESS" ->
           <<p.type, p.currentScope.text, p.requestedScope.text,
             PrincipalsMeant(p.targetPrincipals)>>
      [] p.type = "DELETE" -> <<p.type, p.deleteMode.text, p.recoverable>>

Meaning(a) ==
    [at |-> a.requestedAt.wall - a.requestedAt.offset,
     agent |-> Word(a.actor.agentID),
     session |-> Word(a.actor.sessionID),
     delegation |-> <<Word(a.delegation.id), PrincipalMeant(a.delegation.delegator)>>,
     target |-> <<Word(a.target.resourceType), Word(a.target.resourceID)>>,
     parameters |-> ParametersMeant(a.parameters),
     payload |-> <<Word(a.payload.digest), a.payload.sizeBytes,
                   Words(a.payload.classification)>>,
     evidence |-> EvidenceMeant(a.evidence)]

Acceptable(r) == Deserved[r] = 200

KeyMeant(r) == <<Authenticate(r), Word(r.requestID)>>

RecordMeant(record) ==
    [decisionID |-> record.decisionID, evaluation |-> record.evaluation,
     digest |-> Meaning(sent[record.decisionID].action)]

KeysMeant == {KeyMeant(r) : r \in {x \in Requests : Acceptable(x)}}
Meanings == {Meaning(r.action) : r \in {x \in Requests : Acceptable(x)}}

ASSUME NoValueAssumption == NoValue \notin [key : KeysMeant, digest : Meanings]

AskedFor(r) == [key |-> KeyMeant(r), digest |-> Meaning(r.action)]

BindingOf(row) ==
    [key |-> KeyMeant(sent[row.decisionID]), record |-> RecordMeant(RecordOf(row))]

OutcomeOf(reply) ==
    IF reply.status = 200 THEN "decided"
    ELSE IF reply.status = 409 THEN "RequestIDConflict"
    ELSE "refused"

Bound == {BindingOf(row) : row \in ledger}

Asked ==
    [i \in 1..MaxAttempts |->
        IF i \in DOMAIN sent /\ Acceptable(sent[i]) THEN AskedFor(sent[i]) ELSE NoValue]

Outcome ==
    [i \in 1..MaxAttempts |-> IF i \in DOMAIN replies THEN OutcomeOf(replies[i]) ELSE "none"]

Told ==
    [i \in 1..MaxAttempts |->
        IF i \in DOMAIN replies /\ replies[i].status = 200
        THEN RecordMeant(replies[i].record) ELSE NoValue]

Authority == INSTANCE AuthoritativeDecisions WITH
    Calls <- 1..MaxAttempts,
    Keys <- KeysMeant,
    Digests <- Meanings,
    DecisionIDs <- 1..MaxAttempts,
    Errors <- {"RequestIDConflict", "refused"},
    bound <- Bound, asked <- Asked, outcome <- Outcome, record <- Told

-----------------------------------------------------------------------------
(* Properties                                                              *)

\* Type invariant: attempts are handled one after the other and nothing of one
\* is left when the next begins; a request ID is bound once.
TypeOK ==
    /\ policyEvaluator \in PolicyEvaluators
    /\ stage \in {"idle", "received", "policy", "commit", "committed"}
    /\ sent \in Seq(Requests)
    /\ Len(replies) = IF stage = "idle" THEN Len(sent) ELSE Len(sent) - 1
    /\ \A i \in DOMAIN replies : replies[i].status \in {200, 400, 401, 403, 409, 422, 500}
    /\ evaluation \in IF stage \in {"commit", "committed"} THEN Evaluations ELSE {NoValue}
    /\ faulty \subseteq DOMAIN sent
    /\ \A row \in ledger : row.decisionID \in DOMAIN sent /\ row.evaluation \in Evaluations
    /\ \A x, y \in ledger : x.key = y.key => x = y

\* What the service promises, in terms of what clients mean.  A retry that is
\* spelled differently (Normalize) is told the decision of the first attempt and
\* never a conflict; the same request ID for an action that differs in any fact,
\* however small, is a conflict and never told that decision; a request that
\* should be refused binds nothing.
EndpointImplementsAuthority == Authority!AbsSpec

\* No evaluator takes the action, the table does not take the request ID, or the
\* request ID is bound to an action whose time cannot be read back.
Hopeless(r) ==
    \/ ~ Storable(r)
    \/ EvaluatorFails(NormalizedAction(r))
    \/ \E row \in ledger :
         row.key = Key(r) /\ ~ Representable(row.action.requestedAt)

\* writeApplicationError and the checks before it: while the database works, a
\* client is blamed exactly for what it did.  Limits are met to the byte and to
\* the item, a foreign runtime is 403 although the error is invalid input too,
\* and an acceptable action is never refused as invalid by any later layer.
StatusDeserved ==
    \A i \in DOMAIN replies \ faulty :
        IF Acceptable(sent[i])
        THEN \/ replies[i].status \in {200, 409}
             \/ replies[i].status = 500 /\ Hopeless(sent[i])
        ELSE replies[i].status = Deserved[sent[i]]

\* decodeAction undoes CanonicalActionBytes: the action that
\* GetEvaluationByRequestID rebuilds from a row is the one that was evaluated,
\* and passes the constructors and the comparison of digests again.
StoredActionsReadable ==
    \A row \in ledger :
        Representable(row.action.requestedAt) =>
            /\ Readable(row)
            /\ decodeAction(row.action) = NormalizedAction(sent[row.decisionID])

\* marshalAction: what policy is shown and what the digest binds are the same
\* facts.  Two actions the coordinator cannot tell apart are one action, and an
\* action is shown alike every time, however it is spelled.
PolicySeesTheAction ==
    \A x, y \in ToSet(facts) :
        x.input = y.input <=>
            /\ Authenticate(sent[x.attempt]) = Authenticate(sent[y.attempt])
            /\ Meaning(sent[x.attempt].action) = Meaning(sent[y.attempt].action)

\* An attempt that is answered with an error while the database works leaves its
\* request ID free: an action no evaluator takes can be corrected and sent again.
ErrorsBindNothing ==
    \A i \in DOMAIN replies \ faulty :
        replies[i].status # 200 => \A row \in ledger : row.decisionID # i

\* README.md, line 12: requestId "remains stable across exact retries", and
\* milestone1_test.go, line 188: a retry that differs is "not stable".  The
\* same request again is answered like the first time.
ExactRetryStable ==
    \A i, j \in DOMAIN replies :
        i < j /\ j \notin faulty /\ sent[i] = sent[j] /\ replies[i].status = 200
            => replies[j] = replies[i]
=============================================================================
