------------------------- MODULE EmbeddedEvaluator -------------------------
(***************************************************************************)
(* The embedded policy rules, over the facts of a normalized action that   *)
(* they look at: its parameters, whether the payload is SECRET, and its    *)
(* authorization evidence.                                                 *)
(***************************************************************************)
EXTENDS Decisions, FiniteSets

CONSTANTS
    EvidenceTypes, EvidenceIDs, \* evidence is identified by type and ID
    Issuers,                    \* principals that issue evidence
    OwnRuntime,                 \* the issuer that is the acting runtime
    AccessScopes,               \* access scopes of a resource
    MaxEvidence                 \* bound on evidence items of an action

ASSUME RuntimeAssumption == OwnRuntime \in Issuers
ASSUME ScopesAssumption == "PRIVATE" \in AccessScopes

\* One parameters record per action type.
Parameters ==
    [type : {"EXTERNAL_SEND"}, destination : {"INTERNAL", "EXTERNAL"}]
    \cup {p \in [type : {"UPDATE_RESOURCE_ACCESS"}, current : AccessScopes,
                 requested : AccessScopes] : p.current # p.requested}
    \cup [type : {"DELETE"}, mode : {"SOFT", "HARD"}, recoverable : BOOLEAN]

\* An authorization scope names an action type and the one parameter value it
\* authorizes.
Scopes ==
    [type : {"EXTERNAL_SEND"}, value : {"INTERNAL", "EXTERNAL"}]
    \cup [type : {"UPDATE_RESOURCE_ACCESS"}, value : AccessScopes]
    \cup [type : {"DELETE"}, value : {"SOFT", "HARD"}]

Evidence ==
    [type : EvidenceTypes, id : EvidenceIDs, issuer : Issuers, scope : Scopes]

\* NormalizeAuthorizationEvidence: type and ID identify an item.
EvidenceNormal(items) ==
    \A a, b \in items : a.type = b.type /\ a.id = b.id => a = b

EvidenceSets ==
    {items \in {ToSet(list) : list \in SeqOf(Evidence, MaxEvidence)} :
        EvidenceNormal(items)}

Actions == [parameters : Parameters, secret : BOOLEAN, evidence : EvidenceSets]

AuthorizedValue(p) ==
    CASE p.type = "EXTERNAL_SEND" -> p.destination
      [] p.type = "UPDATE_RESOURCE_ACCESS" -> p.requested
      [] p.type = "DELETE" -> p.mode

scopeMatchesAction(scope, p) ==
    scope.type = p.type /\ scope.value = AuthorizedValue(p)

\* The issuer of the evidence is not looked at.
matchingEvidenceOfAnyone(action) ==
    \E item \in action.evidence :
        scopeMatchesAction(item.scope, action.parameters)

\* The loop gives up at the first item that does not match.
everyEvidenceMatches(action) ==
    \A item \in action.evidence :
        /\ item.issuer = OwnRuntime
        /\ scopeMatchesAction(item.scope, action.parameters)

hasMatchingRuntimeEvidence(action) ==
    \E item \in action.evidence :
        /\ item.issuer = OwnRuntime
        /\ scopeMatchesAction(item.scope, action.parameters)

isHighImpactVisibilityExpansion(current, requested) ==
    current = "PRIVATE" /\ requested \in {"WORKSPACE", "PUBLIC"}

RuleIDs ==
    {"mvp.permission-mismatch", "mvp.external-send-approval",
     "mvp.visibility-expansion-approval", "mvp.destructive-delete-approval",
     "mvp.secret-payload-review"}

NoRule == [reasons |-> <<>>, rules |-> <<>>]

ApprovalRule(reason, rule) ==
    [reasons |-> <<Approval, reason>>, rules |-> <<rule>>]

evaluateActionRules(action) ==
    LET p == action.parameters
    IN  CASE p.type = "EXTERNAL_SEND" ->
               IF p.destination = "EXTERNAL" /\ action.evidence = {}
               THEN ApprovalRule("EXTERNAL_DESTINATION", "mvp.external-send-approval")
               ELSE NoRule
          [] p.type = "UPDATE_RESOURCE_ACCESS" ->
               IF isHighImpactVisibilityExpansion(p.current, p.requested)
               THEN ApprovalRule("VISIBILITY_EXPANSION", "mvp.visibility-expansion-approval")
               ELSE NoRule
          [] p.type = "DELETE" ->
               IF p.mode = "HARD" \/ ~ p.recoverable
               THEN ApprovalRule("DESTRUCTIVE_OPERATION", "mvp.destructive-delete-approval")
               ELSE NoRule

\* NewSafetyReviewRequirement refuses a reference that occurs twice, and the
\* references are evidence IDs without their types.
ReviewReferencesValid(action) ==
    \A a, b \in action.evidence : a.id = b.id => a = b

\* Evaluate returns an error.
EvaluateFails(action) == action.secret /\ ~ ReviewReferencesValid(action)

\* The secret-payload review is skipped when a denial was found.
EvaluateUnlessDenied(action) ==
    LET denied == action.evidence # {} /\ ~ hasMatchingRuntimeEvidence(action)
        found == IF denied
                 THEN [reasons |-> <<"ACTOR_NOT_AUTHORIZED">>,
                       rules |-> <<"mvp.permission-mismatch">>]
                 ELSE evaluateActionRules(action)
        review == action.secret /\ ~ denied
    IN  [reasons |-> found.reasons,
         effects |-> IF review THEN <<"CREATE_SAFETY_REVIEW">> ELSE <<>>,
         rules |-> found.rules \o
                   IF review THEN <<"mvp.secret-payload-review">> ELSE <<>>]

Evaluate(action) ==
    LET found ==
          IF action.evidence # {} /\ ~ hasMatchingRuntimeEvidence(action)
          THEN [reasons |-> <<"ACTOR_NOT_AUTHORIZED">>,
                rules |-> <<"mvp.permission-mismatch">>]
          ELSE evaluateActionRules(action)
    IN  [reasons |-> found.reasons,
         effects |-> IF action.secret THEN <<"CREATE_SAFETY_REVIEW">> ELSE <<>>,
         rules |-> found.rules \o
                   IF action.secret THEN <<"mvp.secret-payload-review">> ELSE <<>>]
=============================================================================
