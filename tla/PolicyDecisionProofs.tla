----------------------- MODULE PolicyDecisionProofs -----------------------
(***************************************************************************)
(* Proofs about PolicyDecision, for answers and evidence of any length,    *)
(* any set of policy keys and any number of attempts.                      *)
(***************************************************************************)
EXTENDS PolicyDecision, DecisionsProofs

-----------------------------------------------------------------------------
(* The inductive invariant                                                 *)

\* What the evaluator makes of the action and of the coordinator's answer.
Evaluated ==
    IF PolicyEvaluator = "osprey"
    THEN IF answer.failed THEN FailClosed ELSE mapVerdicts(answer.verdicts)
    ELSE Evaluate(action)

Decided == Compose(Evaluated.reasons)

RowOfEvaluated ==
    [type |-> Decided.type, reasons |-> Decided.reasons,
     actions |-> Decided.actions, effects |-> Evaluated.effects,
     rules |-> Evaluated.rules]

InputsFit ==
    /\ PolicyEvaluator = "embedded" => action \in Actions /\ answer = NoAnswer
    /\ answer.failed \in BOOLEAN /\ answer.verdicts \in Seq(Verdicts)

\* The attempt carries the evaluation of its own action and answer.
AttemptFits ==
    /\ stage \in Stages
    /\ evaluation = IF stage \in {"compose", "store", "reply"}
                    THEN Evaluated ELSE NoEvaluation
    /\ stage \in {"store", "reply"} => decision = Decided

\* The row is that of the answer on record, and no attempt evaluates beside it.
RowFits ==
    /\ row \in {<<>>, <<RowOfEvaluated>>}
    /\ stage \in {"policy", "compose", "store"} => row = <<>>
    /\ stage = "reply" => row # <<>>

Responses ==
    [type : {"ALLOW", "DENY", "INVALID"}, reasons : Seq(ReasonCodes),
     actions : {<<>>, <<RequireApproval>>}]

\* Every reply is an error or the one decision that is stored.
RepliesFit ==
    /\ replies \in Seq(Responses)
    /\ \A i \in DOMAIN replies :
         replies[i] # Invalid => row # <<>> /\ replies[i] = Decided
    /\ Len(replies) <= MaxAttempts
    /\ stage # "idle" => Len(replies) < MaxAttempts

IInv == InputsFit /\ AttemptFits /\ RowFits /\ RepliesFit

-----------------------------------------------------------------------------
(* The evaluators                                                          *)

LEMMA VerdictReasons ==
    ASSUME NEW v \in Verdicts, WellFormed(v)
    PROVE  /\ v.family \in {"deny", "approval", "review"}
           /\ ReasonOf(v) \in ReasonCodes \ {"POLICY_UNAVAILABLE"}
           /\ v.family = "deny" => ReasonOf(v) = v.key
<1>1. v.family \in {"deny", "approval", "review"}
  BY DEF WellFormed
<1>2. v.family = "deny" => ReasonOf(v) = v.key /\ v.key \in ReasonCodes \ {"POLICY_UNAVAILABLE"}
  BY DEF ReasonOf, WellFormed, parseTerminalReason
<1>3. v.family # "deny" => ReasonOf(v) = Approval
  BY DEF ReasonOf
<1>4. Approval \in ReasonCodes \ {"POLICY_UNAVAILABLE"}
  BY DEF Approval, ReasonCodes
<1>. QED
  BY <1>1, <1>2, <1>3, <1>4

ReviewsFor(verdicts) ==
    IF \E v \in verdicts : v.family = "review" THEN <<"CREATE_SAFETY_REVIEW">> ELSE <<>>

LEMMA MapMalformed ==
    ASSUME NEW vs \in Seq(Verdicts), \E v \in ToSet(vs) : ~ WellFormed(v)
    PROVE  mapVerdicts(vs) = FailClosed
<1>1. ToSet(FirstSeen(vs)) = ToSet(vs)
  BY FirstSeenElements
<1>. QED
  BY <1>1 DEF mapVerdicts

\* mapVerdicts keeps every verdict as a matched rule and every verdict but a
\* review as a reason.
LEMMA MapWellFormed ==
    ASSUME NEW vs \in Seq(Verdicts), \A v \in ToSet(vs) : WellFormed(v)
    PROVE  /\ mapVerdicts(vs).reasons \in Seq(ReasonCodes)
           /\ ToSet(mapVerdicts(vs).reasons) =
                {ReasonOf(v) : v \in {u \in ToSet(vs) : u.family # "review"}}
           /\ mapVerdicts(vs).effects = ReviewsFor(ToSet(vs))
           /\ mapVerdicts(vs).rules \in Seq(Verdicts)
           /\ ToSet(mapVerdicts(vs).rules) = ToSet(vs)
<1> DEFINE seen == FirstSeen(vs)
           I == {i \in DOMAIN seen : seen[i].family # "review"}
           den == Denials(seen)
           reasons == [i \in DOMAIN den |-> ReasonOf(den[i])]
<1>1. seen \in Seq(Verdicts) /\ ToSet(seen) = ToSet(vs)
  BY FirstSeenElements
<1>2. mapVerdicts(vs) = [reasons |-> reasons,
                         effects |-> ReviewsFor(ToSet(seen)),
                         rules |-> seen]
  BY <1>1 DEF mapVerdicts, ReviewsFor
<1>. HIDE DEF seen
<1>3. I \in SUBSET DOMAIN seen
  OBVIOUS
<1>4. den \in Seq(Verdicts) /\ ToSet(den) = {seen[i] : i \in I}
  <2>1. den = Picked(seen, I)
    BY DEF Denials
  <2>. HIDE DEF I
  <2>. QED BY <1>1, <1>3, <2>1, PickedElements
<1>5. {seen[i] : i \in I} = {u \in ToSet(vs) : u.family # "review"}
  BY <1>1 DEF ToSet
<1>. HIDE DEF I, den
<1>6. \A i \in DOMAIN den : den[i] \in {u \in ToSet(vs) : u.family # "review"}
  BY <1>4, <1>5 DEF ToSet
<1>7. ToSet(vs) \subseteq Verdicts
  BY DEF ToSet
<1>8. \A i \in DOMAIN den : ReasonOf(den[i]) \in ReasonCodes
  BY <1>6, <1>7, VerdictReasons
<1>9. reasons \in Seq(ReasonCodes)
  BY <1>4, <1>8
<1>10. ToSet(reasons) = {ReasonOf(v) : v \in ToSet(den)}
  BY DEF ToSet
<1>11. ToSet(reasons) = {ReasonOf(v) : v \in {u \in ToSet(vs) : u.family # "review"}}
  BY <1>4, <1>5, <1>10, Zenon
<1>. HIDE DEF reasons
<1>12. /\ mapVerdicts(vs).reasons = reasons
       /\ mapVerdicts(vs).effects = ReviewsFor(ToSet(seen))
       /\ mapVerdicts(vs).rules = seen
  BY <1>2
<1>. QED
  BY <1>1, <1>9, <1>11, <1>12

LEMMA FailClosedShape ==
    /\ FailClosed.reasons \in Seq(ReasonCodes)
    /\ ToSet(FailClosed.reasons) = {"POLICY_UNAVAILABLE"}
    /\ FailClosed.reasons = <<"POLICY_UNAVAILABLE">>
    /\ FailClosed.effects = <<>>
    /\ FailClosed.rules = <<>>
<1>1. FailClosed.reasons = <<"POLICY_UNAVAILABLE">>
  BY DEF FailClosed
<1>2. FailClosed.effects = <<>> /\ FailClosed.rules = <<>>
  BY DEF FailClosed
<1>3. "POLICY_UNAVAILABLE" \in ReasonCodes
  BY DEF ReasonCodes
<1>4. ToSet(<<"POLICY_UNAVAILABLE">>) = {"POLICY_UNAVAILABLE"}
  BY DEF ToSet
<1>. QED
  BY <1>1, <1>2, <1>3, <1>4

LEMMA ParameterTypes ==
    ASSUME NEW p \in Parameters
    PROVE  p.type \in {"EXTERNAL_SEND", "UPDATE_RESOURCE_ACCESS", "DELETE"}
BY DEF Parameters

LEMMA RuleReasons ==
    /\ NoRule.reasons = <<>>
    /\ NoRule.rules \in Seq(RuleIDs)
    /\ \A reason \in ReasonCodes, rule \in RuleIDs :
         /\ ApprovalRule(reason, rule).reasons \in Seq(ReasonCodes)
         /\ ApprovalRule(reason, rule).reasons # <<>>
         /\ ApprovalRule(reason, rule).rules \in Seq(RuleIDs)
<1>1. NoRule.reasons = <<>> /\ NoRule.rules \in Seq(RuleIDs)
  BY DEF NoRule
<1>2. Approval \in ReasonCodes
  BY DEF ReasonCodes
<1>3. ASSUME NEW reason \in ReasonCodes, NEW rule \in RuleIDs
      PROVE  /\ ApprovalRule(reason, rule).reasons = <<Approval, reason>>
             /\ ApprovalRule(reason, rule).rules = <<rule>>
  BY DEF ApprovalRule
<1>4. ASSUME NEW reason \in ReasonCodes, NEW rule \in RuleIDs
      PROVE  /\ <<Approval, reason>> \in Seq(ReasonCodes)
             /\ <<Approval, reason>> # <<>>
             /\ <<rule>> \in Seq(RuleIDs)
  BY <1>2
<1>. QED
  BY <1>1, <1>3, <1>4

\* The conditions under which evaluateActionRules asks for approval.
NeedsApproval(a) ==
    LET p == a.parameters
    IN  \/ p.type = "EXTERNAL_SEND" /\ p.destination = "EXTERNAL" /\ a.evidence = {}
        \/ /\ p.type = "UPDATE_RESOURCE_ACCESS"
           /\ isHighImpactVisibilityExpansion(p.current, p.requested)
        \/ p.type = "DELETE" /\ (p.mode = "HARD" \/ ~ p.recoverable)

LEMMA ActionRules ==
    ASSUME NEW a \in Actions
    PROVE  \/ ~ NeedsApproval(a) /\ evaluateActionRules(a) = NoRule
           \/ /\ NeedsApproval(a)
              /\ \E reason \in ReasonCodes, rule \in RuleIDs :
                   evaluateActionRules(a) = ApprovalRule(reason, rule)
<1>1. a.parameters \in Parameters
  BY DEF Actions
<1>2. a.parameters.type \in {"EXTERNAL_SEND", "UPDATE_RESOURCE_ACCESS", "DELETE"}
  BY <1>1, ParameterTypes
<1>3. /\ {"EXTERNAL_DESTINATION", "VISIBILITY_EXPANSION", "DESTRUCTIVE_OPERATION"}
           \subseteq ReasonCodes
      /\ {"mvp.external-send-approval", "mvp.visibility-expansion-approval",
          "mvp.destructive-delete-approval"} \subseteq RuleIDs
  BY DEF ReasonCodes, RuleIDs
<1> DEFINE p == a.parameters
<1>4. CASE p.type = "EXTERNAL_SEND"
  <2>1. evaluateActionRules(a) =
          IF p.destination = "EXTERNAL" /\ a.evidence = {}
          THEN ApprovalRule("EXTERNAL_DESTINATION", "mvp.external-send-approval")
          ELSE NoRule
    BY <1>4, Zenon DEF evaluateActionRules
  <2>2. NeedsApproval(a) <=> p.destination = "EXTERNAL" /\ a.evidence = {}
    BY <1>4 DEF NeedsApproval
  <2>. QED BY <1>3, <2>1, <2>2
<1>5. CASE p.type = "UPDATE_RESOURCE_ACCESS"
  <2>1. evaluateActionRules(a) =
          IF isHighImpactVisibilityExpansion(p.current, p.requested)
          THEN ApprovalRule("VISIBILITY_EXPANSION", "mvp.visibility-expansion-approval")
          ELSE NoRule
    BY <1>5, Zenon DEF evaluateActionRules
  <2>2. NeedsApproval(a) <=> isHighImpactVisibilityExpansion(p.current, p.requested)
    BY <1>5 DEF NeedsApproval
  <2>. QED BY <1>3, <2>1, <2>2
<1>6. CASE p.type = "DELETE"
  <2>1. evaluateActionRules(a) =
          IF p.mode = "HARD" \/ ~ p.recoverable
          THEN ApprovalRule("DESTRUCTIVE_OPERATION", "mvp.destructive-delete-approval")
          ELSE NoRule
    BY <1>6, Zenon DEF evaluateActionRules
  <2>2. NeedsApproval(a) <=> p.mode = "HARD" \/ ~ p.recoverable
    BY <1>6 DEF NeedsApproval
  <2>. QED BY <1>3, <2>1, <2>2
<1>. QED
  BY <1>2, <1>4, <1>5, <1>6

Mismatched(a) == a.evidence # {} /\ ~ hasMatchingRuntimeEvidence(a)

\* Evaluate denies what is mismatched or needs approval, and nothing else, and
\* asks for a review of every secret payload.
LEMMA EmbeddedShape ==
    ASSUME NEW a \in Actions
    PROVE  /\ Evaluate(a).reasons \in Seq(ReasonCodes)
           /\ Evaluate(a).reasons = <<>> <=> ~ Mismatched(a) /\ ~ NeedsApproval(a)
           /\ Evaluate(a).effects =
                IF a.secret THEN <<"CREATE_SAFETY_REVIEW">> ELSE <<>>
           /\ Evaluate(a).rules \in Seq(RuleIDs)
<1> DEFINE found ==
             IF a.evidence # {} /\ ~ hasMatchingRuntimeEvidence(a)
             THEN [reasons |-> <<"ACTOR_NOT_AUTHORIZED">>,
                   rules |-> <<"mvp.permission-mismatch">>]
             ELSE evaluateActionRules(a)
           review == IF a.secret THEN <<"mvp.secret-payload-review">> ELSE <<>>
<1>1. Evaluate(a) = [reasons |-> found.reasons,
                     effects |-> IF a.secret THEN <<"CREATE_SAFETY_REVIEW">> ELSE <<>>,
                     rules |-> found.rules \o review]
  BY DEF Evaluate
<1>2. review \in Seq(RuleIDs)
  <2>1. "mvp.secret-payload-review" \in RuleIDs
    BY DEF RuleIDs
  <2>. QED BY <2>1
<1>3. /\ found.reasons \in Seq(ReasonCodes)
      /\ found.reasons = <<>> <=> ~ Mismatched(a) /\ ~ NeedsApproval(a)
      /\ found.rules \in Seq(RuleIDs)
  <2>1. CASE Mismatched(a)
    <3>1. "ACTOR_NOT_AUTHORIZED" \in ReasonCodes /\ "mvp.permission-mismatch" \in RuleIDs
      BY DEF ReasonCodes, RuleIDs
    <3>2. found.reasons = <<"ACTOR_NOT_AUTHORIZED">> /\ found.rules = <<"mvp.permission-mismatch">>
      BY <2>1 DEF Mismatched
    <3>. HIDE DEF found
    <3>. QED BY <2>1, <3>1, <3>2
  <2>2. CASE ~ Mismatched(a)
    <3>1. found = evaluateActionRules(a)
      BY <2>2 DEF Mismatched
    <3>. HIDE DEF found
    <3>2. CASE ~ NeedsApproval(a) /\ evaluateActionRules(a) = NoRule
      BY <2>2, <3>1, <3>2, RuleReasons
    <3>3. CASE /\ NeedsApproval(a)
               /\ \E reason \in ReasonCodes, rule \in RuleIDs :
                    evaluateActionRules(a) = ApprovalRule(reason, rule)
      BY <2>2, <3>1, <3>3, RuleReasons
    <3>. QED BY <3>2, <3>3, ActionRules
  <2>. QED BY <2>1, <2>2
<1>. HIDE DEF found, review
<1>4. /\ Evaluate(a).reasons = found.reasons
      /\ Evaluate(a).effects = IF a.secret THEN <<"CREATE_SAFETY_REVIEW">> ELSE <<>>
      /\ Evaluate(a).rules = found.rules \o review
  BY <1>1
<1>. QED
  BY <1>2, <1>3, <1>4

-----------------------------------------------------------------------------
(* What is decided                                                         *)

LEMMA EvaluatedShape ==
    ASSUME InputsFit
    PROVE  /\ Evaluated.reasons \in Seq(ReasonCodes)
           /\ Evaluated.effects \in Effects
           /\ Evaluated.rules \in Seq(Verdicts) \cup Seq(RuleIDs)
<1>1. CASE PolicyEvaluator = "osprey" /\ (answer.failed \/ Malformed)
  <2>1. Evaluated = FailClosed
    BY <1>1, MapMalformed DEF Evaluated, InputsFit, Malformed
  <2>. QED BY <2>1, FailClosedShape DEF Effects
<1>2. CASE PolicyEvaluator = "osprey" /\ ~ answer.failed /\ ~ Malformed
  <2>1. Evaluated = mapVerdicts(answer.verdicts)
    BY <1>2 DEF Evaluated
  <2>2. answer.verdicts \in Seq(Verdicts) /\ \A v \in ToSet(answer.verdicts) : WellFormed(v)
    BY <1>2 DEF InputsFit, Malformed
  <2>3. /\ Evaluated.reasons \in Seq(ReasonCodes)
        /\ Evaluated.effects = ReviewsFor(ToSet(answer.verdicts))
        /\ Evaluated.rules \in Seq(Verdicts)
    BY <2>1, <2>2, MapWellFormed
  <2>. QED BY <2>3 DEF ReviewsFor, Effects
<1>3. CASE PolicyEvaluator # "osprey"
  <2>1. Evaluated = Evaluate(action) /\ action \in Actions
    BY <1>3, EvaluatorAssumption DEF Evaluated, InputsFit
  <2>2. /\ Evaluated.reasons \in Seq(ReasonCodes)
        /\ Evaluated.effects = IF action.secret THEN <<"CREATE_SAFETY_REVIEW">> ELSE <<>>
        /\ Evaluated.rules \in Seq(RuleIDs)
    BY <2>1, EmbeddedShape
  <2>. QED BY <2>2 DEF Effects
<1>. QED
  BY <1>1, <1>2, <1>3

LEMMA DecidedShape ==
    ASSUME InputsFit
    PROVE  /\ IsDecision(Decided)
           /\ Evaluated.reasons = <<>> => Decided = NewAllowDecision
           /\ Evaluated.reasons # <<>> =>
                /\ IsDenial(Decided)
                /\ ToSet(Decided.reasons) = ReasonsFor(ToSet(Evaluated.reasons))
                /\ Decided.actions = ActionsFor(ToSet(Evaluated.reasons))
           /\ Decided # Invalid
           /\ DecisionRowValid(Decided)
           /\ decodeDecision(RowOfEvaluated) = Decided
           /\ ResponseValid(Decided)
           /\ Decided \in Responses
<1>1. Evaluated.reasons \in Seq(ReasonCodes)
  BY EvaluatedShape
<1>2. /\ Evaluated.reasons = <<>> => Decided = NewAllowDecision
      /\ Evaluated.reasons # <<>> =>
           /\ IsDenial(Decided)
           /\ ToSet(Decided.reasons) = ReasonsFor(ToSet(Evaluated.reasons))
           /\ Decided.actions = ActionsFor(ToSet(Evaluated.reasons))
  BY <1>1, ComposeShape DEF Decided
<1>3. IsDecision(Decided)
  BY <1>2 DEF IsDecision
<1>4. /\ RowOfEvaluated.type = Decided.type
      /\ RowOfEvaluated.reasons = Decided.reasons
      /\ RowOfEvaluated.actions = Decided.actions
  BY DEF RowOfEvaluated
<1>5. /\ Decided # Invalid
      /\ DecisionRowValid(Decided)
      /\ decodeDecision(RowOfEvaluated) = Decided
      /\ ResponseValid(Decided)
  BY <1>3, <1>4, DecisionSurvives
<1>6. NewAllowDecision \in Responses
  BY DEF NewAllowDecision, Responses
<1>7. \A d : IsDenial(d) => d \in Responses
  BY DEF IsDenial, Responses
<1>. QED
  BY <1>2, <1>3, <1>5, <1>6, <1>7 DEF IsDecision

-----------------------------------------------------------------------------
(* The invariant is inductive                                              *)

LEMMA SameInputs ==
    ASSUME UNCHANGED <<action, answer>>
    PROVE  /\ Evaluated' = Evaluated
           /\ Decided' = Decided
           /\ RowOfEvaluated' = RowOfEvaluated
           /\ InputsFit => InputsFit'
<1>1. Evaluated' = Evaluated
  BY DEF Evaluated
<1>2. Decided' = Decided
  BY <1>1 DEF Decided
<1>. QED
  BY <1>1, <1>2 DEF RowOfEvaluated, InputsFit

LEMMA InvalidIsResponse == Invalid \in Responses
BY DEF Invalid, Responses

LEMMA AnswersTyped ==
    ASSUME NEW a \in Answers
    PROVE  a.failed \in BOOLEAN /\ a.verdicts \in Seq(Verdicts)
<1>1. ASSUME NEW s \in SeqOf(Verdicts, MaxVerdicts) PROVE s \in Seq(Verdicts)
  <2>1. PICK m \in 0 .. MaxVerdicts : s \in [1 .. m -> Verdicts]
    BY DEF SeqOf
  <2>2. m \in Nat
    BY BoundsAssumption
  <2>. QED BY <2>1, <2>2
<1>2. CASE a \in [failed : {FALSE}, verdicts : SeqOf(Verdicts, MaxVerdicts)]
  BY <1>1, <1>2
<1>3. CASE a = [failed |-> TRUE, verdicts |-> <<>>]
  BY <1>3
<1>. QED
  BY <1>2, <1>3 DEF Answers

LEMMA InitEstablishes == Init => IInv
<1> SUFFICES ASSUME Init PROVE IInv
  OBVIOUS
<1>1. InputsFit
  <2>1. PolicyEvaluator = "embedded" => action \in Actions /\ answer = NoAnswer
    BY DEF Init
  <2>2. answer.failed \in BOOLEAN /\ answer.verdicts \in Seq(Verdicts)
    BY DEF Init, NoAnswer
  <2>. QED BY <2>1, <2>2 DEF InputsFit
<1>2. AttemptFits
  BY DEF Init, AttemptFits, Stages
<1>3. RowFits
  BY DEF Init, RowFits
<1>4. RepliesFit
  BY BoundsAssumption DEF Init, RepliesFit
<1>. QED
  BY <1>1, <1>2, <1>3, <1>4 DEF IInv

\* A reply that ends an attempt is an error or the stored decision.
LEMMA Replying ==
    ASSUME InputsFit, RepliesFit, stage # "idle",
           NEW r \in Responses, Respond(r), r # Invalid => row' # <<>> /\ r = Decided,
           row' \in {<<>>, <<RowOfEvaluated>>}, row # <<>> => row' = row,
           UNCHANGED action,
           answer' = answer \/ (row' = <<>> /\ answer' = NoAnswer)
    PROVE  IInv'
<1>1. /\ stage' = "idle"
      /\ replies' = Append(replies, r)
      /\ evaluation' = NoEvaluation
  BY DEF Respond
<1>2. AttemptFits'
  BY <1>1 DEF AttemptFits, Stages
<1>3. InputsFit'
  <2>1. NoAnswer.failed \in BOOLEAN /\ NoAnswer.verdicts \in Seq(Verdicts)
    BY DEF NoAnswer
  <2>. QED BY <2>1 DEF InputsFit
<1>4. row' # <<>> => Evaluated' = Evaluated /\ Decided' = Decided /\ RowOfEvaluated' = RowOfEvaluated
  BY SameInputs
<1>5. RowFits'
  BY <1>1, <1>4 DEF RowFits
<1>6. RepliesFit'
  <2>1. replies \in Seq(Responses) /\ Len(replies) < MaxAttempts
    BY DEF RepliesFit
  <2>2. replies' \in Seq(Responses) /\ Len(replies') <= MaxAttempts
    BY <1>1, <2>1, BoundsAssumption
  <2>3. \A i \in DOMAIN replies' :
          replies'[i] = r \/ (i \in DOMAIN replies /\ replies'[i] = replies[i])
    BY <1>1, <2>1
  <2>4. ASSUME NEW i \in DOMAIN replies', replies'[i] # Invalid
        PROVE  row' # <<>> /\ replies'[i] = Decided'
    <3>1. row' # <<>> /\ replies'[i] = Decided
      BY <2>3, <2>4 DEF RepliesFit
    <3>. QED BY <1>4, <3>1
  <2>5. stage' = "idle"
    BY <1>1
  <2>6. Invalid' = Invalid /\ Responses' = Responses
    BY DEF Invalid, Responses
  <2>. QED BY <2>2, <2>4, <2>5, <2>6 DEF RepliesFit
<1>. QED
  BY <1>2, <1>3, <1>5, <1>6 DEF IInv

LEMMA NextPreserves == IInv /\ [Next]_vars => IInv'
<1> SUFFICES ASSUME IInv, [Next]_vars PROVE IInv'
  OBVIOUS
<1>0. InputsFit /\ AttemptFits /\ RowFits /\ RepliesFit
  BY DEF IInv
<1>d. /\ Decided # Invalid /\ Decided \in Responses
      /\ ResponseValid(Decided) /\ decodeDecision(RowOfEvaluated) = Decided
  BY <1>0, DecidedShape
<1>1. CASE Request
  <2>1. UNCHANGED <<action, answer, evaluation, decision, row, replies>>
        /\ stage = "idle" /\ stage' = "lookup" /\ Len(replies) < MaxAttempts
    BY <1>1 DEF Request
  <2>. QED
    BY <1>0, <2>1, SameInputs DEF IInv, AttemptFits, RowFits, RepliesFit, Stages
<1>2. CASE AnswerFromRow
  <2>1. stage = "lookup" /\ row # <<>> /\ UNCHANGED <<action, answer, row>>
        /\ Respond(PublicResponse(decodeDecision(row[1])))
    BY <1>2 DEF AnswerFromRow
  <2>2. row = <<RowOfEvaluated>>
    BY <1>0, <2>1 DEF RowFits
  <2>3. PublicResponse(decodeDecision(row[1])) = Decided
    BY <1>d, <2>2 DEF PublicResponse
  <2>. QED
    BY <1>0, <1>d, <2>1, <2>2, <2>3, Replying
<1>3. CASE NotFound
  <2>1. UNCHANGED <<action, answer, evaluation, decision, row, replies>>
        /\ stage = "lookup" /\ stage' = "policy" /\ row = <<>>
    BY <1>3 DEF NotFound
  <2>. QED
    BY <1>0, <2>1, SameInputs DEF IInv, AttemptFits, RowFits, RepliesFit, Stages
<1>4. CASE OspreyEvaluates
  <2>1. /\ UNCHANGED <<action, decision, row, replies>>
        /\ stage = "policy" /\ stage' = "compose"
        /\ PolicyEvaluator = "osprey"
    BY <1>4 DEF OspreyEvaluates
  <2>2. PICK a \in Answers :
          answer' = a /\ evaluation' = IF a.failed THEN FailClosed ELSE mapVerdicts(a.verdicts)
    BY <1>4 DEF OspreyEvaluates
  <2>3. a.failed \in BOOLEAN /\ a.verdicts \in Seq(Verdicts)
    BY AnswersTyped
  <2>4. evaluation' = Evaluated'
    BY <2>1, <2>2 DEF Evaluated
  <2>5. row = <<>> /\ \A i \in DOMAIN replies : replies[i] = Invalid
    BY <1>0, <2>1 DEF RowFits, RepliesFit
  <2>6. InputsFit'
    BY <1>0, <2>1, <2>2, <2>3 DEF InputsFit
  <2>7. AttemptFits'
    BY <2>1, <2>4 DEF AttemptFits, Stages
  <2>8. RowFits'
    BY <2>1, <2>5 DEF RowFits
  <2>9. RepliesFit'
    BY <1>0, <2>1, <2>5 DEF RepliesFit
  <2>. QED
    BY <2>6, <2>7, <2>8, <2>9 DEF IInv
<1>5. CASE EmbeddedEvaluates
  <2>1. /\ UNCHANGED <<action, answer, decision, row, replies>>
        /\ stage = "policy" /\ stage' = "compose"
        /\ PolicyEvaluator = "embedded" /\ evaluation' = Evaluate(action)
    BY <1>5 DEF EmbeddedEvaluates
  <2>2. evaluation' = Evaluated
    BY <2>1 DEF Evaluated
  <2>. QED
    BY <1>0, <2>1, <2>2, SameInputs DEF IInv, AttemptFits, RowFits, RepliesFit, Stages
<1>6. CASE EmbeddedFails
  <2>1. stage = "policy" /\ Respond(Invalid) /\ UNCHANGED <<action, answer, row>>
    BY <1>6 DEF EmbeddedFails
  <2>2. row = <<>>
    BY <1>0, <2>1 DEF RowFits
  <2>. QED
    BY <1>0, <2>1, <2>2, Replying, InvalidIsResponse
<1>7. CASE ComposeDecision
  <2>1. /\ UNCHANGED <<action, answer, evaluation, row, replies>>
        /\ stage = "compose" /\ stage' = "store"
        /\ decision' = Compose(evaluation.reasons)
    BY <1>7 DEF ComposeDecision
  <2>2. evaluation = Evaluated /\ decision' = Decided
    BY <1>0, <2>1 DEF AttemptFits, Decided
  <2>. QED
    BY <1>0, <2>1, <2>2, SameInputs DEF IInv, AttemptFits, RowFits, RepliesFit, Stages
<1>s. stage = "store" => StoredRow = RowOfEvaluated
  BY <1>0 DEF AttemptFits, StoredRow, RowOfEvaluated
<1>8. CASE StoreDecision
  <2>1. /\ UNCHANGED <<action, answer, evaluation, decision, replies>>
        /\ stage = "store" /\ stage' = "reply" /\ row' = <<StoredRow>>
    BY <1>8 DEF StoreDecision
  <2>2. row' = <<RowOfEvaluated>> /\ row' # <<>>
    BY <1>s, <2>1
  <2>. QED
    BY <1>0, <2>1, <2>2, SameInputs DEF IInv, AttemptFits, RowFits, RepliesFit, Stages
<1>9. CASE StoreFails
  <2>1. /\ stage = "store" /\ Respond(Invalid) /\ UNCHANGED action
        /\ row' \in {row, <<StoredRow>>}
        /\ answer' = IF row' = <<>> THEN NoAnswer ELSE answer
    BY <1>9 DEF StoreFails
  <2>2. row = <<>>
    BY <1>0, <2>1 DEF RowFits
  <2>3. row' \in {<<>>, <<RowOfEvaluated>>}
    BY <1>s, <2>1, <2>2
  <2>. QED
    BY <1>0, <2>1, <2>2, <2>3, Replying, InvalidIsResponse
<1>10. CASE ReplyWithDecision
  <2>1. stage = "reply" /\ Respond(PublicResponse(decision)) /\ UNCHANGED <<action, answer, row>>
    BY <1>10 DEF ReplyWithDecision
  <2>2. decision = Decided /\ row = <<RowOfEvaluated>> /\ row # <<>>
    BY <1>0, <2>1 DEF AttemptFits, RowFits
  <2>3. PublicResponse(decision) = Decided
    BY <1>d, <2>2 DEF PublicResponse
  <2>. QED
    BY <1>0, <1>d, <2>1, <2>2, <2>3, Replying
<1>11. CASE UNCHANGED vars
  <2>1. UNCHANGED <<action, stage, answer, evaluation, decision, row, replies>>
    BY <1>11 DEF vars
  <2>. QED
    BY <1>0, <2>1, SameInputs DEF IInv, AttemptFits, RowFits, RepliesFit
<1>. QED
  BY <1>1, <1>2, <1>3, <1>4, <1>5, <1>6, <1>7, <1>8, <1>9, <1>10, <1>11 DEF Next

\* Whatever an attempt holds, stores or replies is what the evaluator and the
\* composer make of one action and one answer.
THEOREM Invariance == Spec => []IInv
BY InitEstablishes, NextPreserves, PTL DEF Spec

-----------------------------------------------------------------------------
(* What the invariant implies                                              *)

LEMMA StoredDecision ==
    ASSUME IInv, row # <<>>
    PROVE  /\ row = <<RowOfEvaluated>>
           /\ row[1].type = Decided.type
           /\ row[1].reasons = Decided.reasons
           /\ row[1].actions = Decided.actions
           /\ row[1].effects = Evaluated.effects
           /\ row[1].rules = Evaluated.rules
BY DEF IInv, RowFits, RowOfEvaluated

LEMMA DecisionFields ==
    ASSUME NEW d, IsDecision(d)
    PROVE  /\ d.type \in {"ALLOW", "DENY"}
           /\ d.reasons \in Seq(ReasonCodes)
           /\ d.actions \in {<<>>, <<RequireApproval>>}
<1>1. CASE d = NewAllowDecision
  BY <1>1 DEF NewAllowDecision
<1>2. CASE IsDenial(d)
  BY <1>2 DEF IsDenial
<1>. QED
  BY <1>1, <1>2 DEF IsDecision

LEMMA IInvTypeOK == IInv => TypeOK
<1> SUFFICES ASSUME IInv PROVE TypeOK
  OBVIOUS
<1>1. InputsFit /\ AttemptFits /\ RowFits /\ RepliesFit
  BY DEF IInv
<1>2. /\ Evaluated.effects \in Effects
      /\ Evaluated.rules \in Seq(Verdicts) \cup Seq(RuleIDs)
      /\ IsDecision(Decided)
  BY <1>1, EvaluatedShape, DecidedShape
<1>3. evaluation.effects \in Effects
  <2>1. NoEvaluation.effects \in Effects
    BY DEF NoEvaluation, Effects
  <2>. QED BY <1>1, <1>2, <2>1 DEF AttemptFits
<1>4. row # <<>> => row[1] \in Rows
  <2>1. RowOfEvaluated \in Rows
    BY <1>2, DecisionFields DEF RowOfEvaluated, Rows
  <2>. QED BY <2>1, StoredDecision
<1>5. \A i \in DOMAIN replies : replies[i].type \in {"ALLOW", "DENY", "INVALID"}
  <2>1. \A i \in DOMAIN replies : replies[i] \in Responses
    BY <1>1 DEF RepliesFit
  <2>. QED BY <2>1 DEF Responses
<1>. QED
  BY <1>1, <1>3, <1>4, <1>5 DEF TypeOK, InputsFit, AttemptFits, RepliesFit

LEMMA FailClosedDecided ==
    ASSUME InputsFit, Evaluated = FailClosed
    PROVE  /\ Decided.type = "DENY"
           /\ Decided.reasons = <<"POLICY_UNAVAILABLE">>
           /\ Decided.actions = <<>>
<1> DEFINE s == <<"POLICY_UNAVAILABLE">>
<1>1. /\ s \in Seq(ReasonCodes) /\ s # <<>>
      /\ ToSet(s) = {"POLICY_UNAVAILABLE"} /\ Evaluated.reasons = s
  BY FailClosedShape
<1>2. containsTerminalReason(s)
  BY <1>1 DEF containsTerminalReason, Approval
<1>3. DOMAIN s = {1} /\ s[1] # Approval
  BY DEF Approval
<1>4. {i \in DOMAIN s : s[i] # Approval} = DOMAIN s
  BY <1>3
<1>5. withoutReason(s, Approval) = s
  BY <1>1, <1>4, PickedAll DEF withoutReason
<1>6. Decided = NewDenyDecision(s, <<>>)
  BY <1>1, <1>2, <1>5 DEF Decided, Compose
<1>7. Approval \notin ToSet(s)
  BY <1>1 DEF Approval
<1>8. WithoutRepetition(s)
  BY <1>3 DEF WithoutRepetition
<1>9. FirstSeen(s) = s
  BY <1>1, <1>8, FirstSeenStable
<1>. HIDE DEF s
<1>10. Decided = [type |-> "DENY", reasons |-> s, actions |-> <<>>]
  BY <1>1, <1>6, <1>7, <1>9, DenyDecision
<1>. QED
  BY <1>10 DEF s

LEMMA RefusedAnswer ==
    ASSUME InputsFit, PolicyEvaluator = "osprey", answer.failed \/ Malformed
    PROVE  Evaluated = FailClosed
BY MapMalformed DEF Evaluated, InputsFit, Malformed

LEMMA WellFormedAnswer ==
    ASSUME InputsFit, PolicyEvaluator = "osprey", ~ answer.failed, ~ Malformed
    PROVE  /\ ToSet(Evaluated.reasons) =
                {ReasonOf(v) : v \in {u \in ToSet(answer.verdicts) : u.family # "review"}}
           /\ Evaluated.reasons \in Seq(ReasonCodes)
           /\ Evaluated.effects = ReviewsFor(ToSet(answer.verdicts))
           /\ ToSet(Evaluated.rules) = ToSet(answer.verdicts)
BY MapWellFormed DEF Evaluated, InputsFit, Malformed

LEMMA NothingAnswered ==
    ASSUME InputsFit, PolicyEvaluator = "embedded"
    PROVE  ~ answer.failed /\ ~ Malformed /\ ToSet(answer.verdicts) = {}
<1>1. answer.failed = FALSE /\ answer.verdicts = <<>>
  BY DEF InputsFit, NoAnswer
<1>2. ToSet(answer.verdicts) = {}
  BY <1>1, SingleAction
<1>. QED
  BY <1>1, <1>2 DEF Malformed

LEMMA AuthorizedMeans ==
    ASSUME action \in Actions
    PROVE  Authorized <=> hasMatchingRuntimeEvidence(action)
<1>1. \A e \in action.evidence : e \in Evidence
  <2>1. action.evidence \in EvidenceSets
    BY DEF Actions
  <2>2. PICK list \in SeqOf(Evidence, MaxEvidence) : action.evidence = ToSet(list)
    BY <2>1 DEF EvidenceSets
  <2>3. PICK m \in 0 .. MaxEvidence : list \in [1 .. m -> Evidence]
    BY DEF SeqOf
  <2>. QED BY <2>2, <2>3 DEF ToSet
<1>2. \A e \in action.evidence : e.scope \in Scopes
  BY <1>1 DEF Evidence
<1>3. ASSUME NEW scope \in Scopes, NEW t, NEW x
      PROVE  scope = [type |-> t, value |-> x] <=> scope.type = t /\ scope.value = x
  BY DEF Scopes
<1>. QED
  BY <1>2, <1>3 DEF Authorized, hasMatchingRuntimeEvidence, scopeMatchesAction

\* The embedded rules find nothing against an action just when the policy,
\* said without their control flow, has nothing against it.
LEMMA EmbeddedClear ==
    ASSUME InputsFit, PolicyEvaluator = "embedded"
    PROVE  Clear <=> Evaluated.reasons = <<>>
<1> DEFINE p == action.parameters
<1>1. action \in Actions /\ p \in Parameters
  BY DEF InputsFit, Actions
<1>2. Evaluated.reasons = <<>> <=> ~ Mismatched(action) /\ ~ NeedsApproval(action)
  BY <1>1, EmbeddedShape DEF Evaluated
<1>3. Authorized <=> hasMatchingRuntimeEvidence(action)
  BY <1>1, AuthorizedMeans
<1>4. Authorized => action.evidence # {}
  BY DEF Authorized
<1>5. Mismatched(action) <=> ~ (action.evidence # {} => Authorized)
  BY <1>3 DEF Mismatched
<1>6. CASE p.type = "EXTERNAL_SEND"
  <2>1. Clear <=> /\ action.evidence # {} => Authorized
                  /\ p.destination = "EXTERNAL" => Authorized
    BY <1>6, Zenon DEF Clear
  <2>2. NeedsApproval(action) <=> p.destination = "EXTERNAL" /\ action.evidence = {}
    BY <1>6 DEF NeedsApproval
  <2>. QED BY <1>2, <1>4, <1>5, <2>1, <2>2
<1>7. CASE p.type = "UPDATE_RESOURCE_ACCESS"
  <2>1. Clear <=> /\ action.evidence # {} => Authorized
                  /\ p.current = "PRIVATE" => p.requested \notin {"WORKSPACE", "PUBLIC"}
    BY <1>7, Zenon DEF Clear
  <2>2. NeedsApproval(action) <=> isHighImpactVisibilityExpansion(p.current, p.requested)
    BY <1>7 DEF NeedsApproval
  <2>. QED BY <1>2, <1>5, <2>1, <2>2 DEF isHighImpactVisibilityExpansion
<1>8. CASE p.type = "DELETE"
  <2>1. Clear <=> /\ action.evidence # {} => Authorized
                  /\ p.mode = "SOFT" /\ p.recoverable
    BY <1>8, Zenon DEF Clear
  <2>2. NeedsApproval(action) <=> p.mode = "HARD" \/ ~ p.recoverable
    BY <1>8 DEF NeedsApproval
  <2>3. p.mode \in {"SOFT", "HARD"}
    BY <1>1, <1>8 DEF Parameters
  <2>. QED BY <1>2, <1>5, <2>1, <2>2, <2>3
<1>. QED
  BY <1>1, <1>6, <1>7, <1>8, ParameterTypes

LEMMA OspreyClear ==
    ASSUME InputsFit, PolicyEvaluator = "osprey"
    PROVE  Clear <=> Evaluated.reasons = <<>>
<1>1. CASE answer.failed \/ Malformed
  <2>1. Evaluated.reasons = <<"POLICY_UNAVAILABLE">>
    BY <1>1, RefusedAnswer, FailClosedShape
  <2>. QED BY <1>1, <2>1 DEF Clear
<1>2. CASE ~ answer.failed /\ ~ Malformed
  <2>1. Evaluated.reasons = <<>> <=> ToSet(Evaluated.reasons) = {}
    BY <1>2, WellFormedAnswer, EmptyToSet
  <2>2. ToSet(Evaluated.reasons) = {} <=> \A v \in ToSet(answer.verdicts) : v.family = "review"
    BY <1>2, WellFormedAnswer
  <2>. QED BY <1>2, <2>1, <2>2 DEF Clear
<1>. QED
  BY <1>1, <1>2

LEMMA ClearMeansAllowed ==
    ASSUME InputsFit
    PROVE  Clear <=> Decided.type = "ALLOW"
<1>1. Clear <=> Evaluated.reasons = <<>>
  BY EvaluatorAssumption, EmbeddedClear, OspreyClear
<1>2. NewAllowDecision.type = "ALLOW"
  BY DEF NewAllowDecision
<1>3. \A d : IsDenial(d) => d.type = "DENY"
  BY DEF IsDenial
<1>. QED
  BY <1>1, <1>2, <1>3, DecidedShape

-----------------------------------------------------------------------------
(* Theorems                                                                *)

\* Type correctness: in particular every evaluation asks for at most one review
\* and the stored row stays within the value sets of table decisions.
THEOREM TypeCorrectness == Spec => []TypeOK
BY Invariance, IInvTypeOK, PTL

\* An answer that failed or has one malformed verdict, however long, is stored
\* as a denial for POLICY_UNAVAILABLE alone.
THEOREM FailingClosed == Spec => []FailsClosed
<1>1. IInv => FailsClosed
  <2> SUFFICES ASSUME IInv, row # <<>>, answer.failed \/ Malformed
               PROVE  /\ row[1].type = "DENY"
                      /\ row[1].reasons = <<"POLICY_UNAVAILABLE">>
                      /\ row[1].actions = <<>>
                      /\ row[1].effects = <<>>
                      /\ row[1].rules = <<>>
    BY DEF FailsClosed
  <2>1. InputsFit
    BY DEF IInv
  <2>2. Evaluated = FailClosed
    BY <2>1, EvaluatorAssumption, NothingAnswered, RefusedAnswer
  <2>. QED
    BY <2>1, <2>2, FailClosedDecided, FailClosedShape, StoredDecision
<1>. QED
  BY <1>1, Invariance, PTL

\* ALLOW is never replied unless the evaluator found nothing against the action.
THEOREM AllowIsDeserved == Spec => []AllowOnlyWhenClear
<1>1. IInv => AllowOnlyWhenClear
  <2> SUFFICES ASSUME IInv, NEW i \in DOMAIN replies, replies[i].type = "ALLOW"
               PROVE  Clear
    BY DEF AllowOnlyWhenClear
  <2>1. InputsFit /\ RepliesFit
    BY DEF IInv
  <2>2. replies[i] # Invalid
    BY DEF Invalid
  <2>3. replies[i] = Decided
    BY <2>1, <2>2 DEF RepliesFit
  <2>. QED
    BY <2>1, <2>3, ClearMeansAllowed
<1>. QED
  BY <1>1, Invariance, PTL

\* An action that nothing speaks against is stored as ALLOW.
THEOREM AllowIsGranted == Spec => []ClearIsAllowed
<1>1. IInv => ClearIsAllowed
  <2> SUFFICES ASSUME IInv, row # <<>>, Clear
               PROVE  row[1].type = "ALLOW"
    BY DEF ClearIsAllowed
  <2>1. InputsFit
    BY DEF IInv
  <2>. QED
    BY <2>1, ClearMeansAllowed, StoredDecision
<1>. QED
  BY <1>1, Invariance, PTL

\* The first reply and every retry that is answered at all are one decision.
THEOREM RetriesAgree == Spec => []RetriesReplyAlike
<1>1. IInv => RetriesReplyAlike
  BY DEF IInv, RepliesFit, RetriesReplyAlike
<1>. QED
  BY <1>1, Invariance, PTL

\* No decision the evaluators and the composer can produce is refused by
\* encodeEffects or by a CHECK constraint, and every row can be decoded and sent.
THEOREM NothingGetsStuck == Spec => []DecisionsSurviveStorage
<1>1. IInv => DecisionsSurviveStorage
  <2> SUFFICES ASSUME IInv PROVE DecisionsSurviveStorage
    OBVIOUS
  <2>1. InputsFit /\ AttemptFits /\ RowFits
    BY DEF IInv
  <2>2. /\ Decided # Invalid /\ DecisionRowValid(Decided)
        /\ decodeDecision(RowOfEvaluated) = Decided /\ ResponseValid(Decided)
    BY <2>1, DecidedShape
  <2>3. ASSUME stage = "store" PROVE Storable
    <3>1. evaluation = Evaluated /\ decision = Decided
      BY <2>1, <2>3 DEF AttemptFits
    <3>2. Evaluated.effects \in Effects
      BY <2>1, EvaluatedShape
    <3>3. \A e \in Effects : EffectsStorable(e)
      <4>1. EffectsStorable(<<>>)
        BY SingleAction, FS_EmptySet DEF EffectsStorable
      <4>2. ToSet(<<"CREATE_SAFETY_REVIEW">>) = {"CREATE_SAFETY_REVIEW"}
        BY DEF ToSet
      <4>3. EffectsStorable(<<"CREATE_SAFETY_REVIEW">>)
        BY <4>2, FS_Singleton DEF EffectsStorable
      <4>. QED BY <4>1, <4>3 DEF Effects
    <3>. QED BY <2>2, <3>1, <3>2, <3>3 DEF Storable
  <2>4. row # <<>> => PublicResponse(decodeDecision(row[1])) # Invalid
    BY <2>2, StoredDecision DEF PublicResponse
  <2>5. ASSUME stage = "reply" PROVE decodeDecision(row[1]) = decision
    <3>1. decision = Decided /\ row # <<>>
      BY <2>1, <2>5 DEF AttemptFits, RowFits
    <3>. QED BY <2>2, <3>1, StoredDecision
  <2>. QED
    BY <2>3, <2>4, <2>5 DEF DecisionsSurviveStorage
<1>. QED
  BY <1>1, Invariance, PTL

\* The order in which the coordinator lists its verdicts changes nothing but
\* the order of the reasons.
THEOREM OrderIrrelevance ==
    ASSUME PolicyEvaluator = "osprey" PROVE Spec => []VerdictOrderIrrelevant
<1>1. ASSUME NEW a \in Seq(Verdicts), NEW b \in Seq(Verdicts), ToSet(a) = ToSet(b)
      PROVE  /\ mapVerdicts(a).reasons \in Seq(ReasonCodes)
             /\ mapVerdicts(b).reasons \in Seq(ReasonCodes)
             /\ ToSet(mapVerdicts(a).reasons) = ToSet(mapVerdicts(b).reasons)
             /\ mapVerdicts(a).effects = mapVerdicts(b).effects
  <2>1. CASE \E v \in ToSet(a) : ~ WellFormed(v)
    <3>1. mapVerdicts(a) = FailClosed /\ mapVerdicts(b) = FailClosed
      BY <1>1, <2>1, MapMalformed
    <3>. QED BY <3>1, FailClosedShape
  <2>2. CASE \A v \in ToSet(a) : WellFormed(v)
    BY <1>1, <2>2, MapWellFormed
  <2>. QED BY <2>1, <2>2
<1>2. ASSUME NEW a \in Seq(Verdicts), NEW perm \in Bijection(DOMAIN a, DOMAIN a)
      PROVE  Permuted(a, perm) \in Seq(Verdicts) /\ ToSet(Permuted(a, perm)) = ToSet(a)
  <2>1. /\ perm \in [DOMAIN a -> DOMAIN a]
        /\ \A w \in DOMAIN a : \E v \in DOMAIN a : perm[v] = w
    BY DEF Bijection, Injection, Surjection
  <2>2. Permuted(a, perm) \in Seq(Verdicts)
    <3>1. DOMAIN a = 1 .. Len(a) /\ Len(a) \in Nat
      OBVIOUS
    <3>2. \A i \in DOMAIN a : a[perm[i]] \in Verdicts
      BY <2>1
    <3>3. Permuted(a, perm) \in [1 .. Len(a) -> Verdicts]
      BY <3>1, <3>2 DEF Permuted
    <3>. QED BY <3>1, <3>3
  <2>3. /\ DOMAIN Permuted(a, perm) = DOMAIN a
        /\ \A i \in DOMAIN a : Permuted(a, perm)[i] = a[perm[i]]
    BY DEF Permuted
  <2>4. ToSet(Permuted(a, perm)) = ToSet(a)
    BY <2>1, <2>3 DEF ToSet
  <2>. QED BY <2>2, <2>4
<1>3. IInv => VerdictOrderIrrelevant
  <2> SUFFICES ASSUME IInv, stage = "compose", ~ answer.failed,
                      NEW perm \in Bijection(DOMAIN answer.verdicts, DOMAIN answer.verdicts)
               PROVE  LET other == mapVerdicts(Permuted(answer.verdicts, perm))
                          mine == Compose(evaluation.reasons)
                          theirs == Compose(other.reasons)
                      IN  /\ mine.type = theirs.type
                          /\ ToSet(mine.reasons) = ToSet(theirs.reasons)
                          /\ mine.actions = theirs.actions
                          /\ evaluation.effects = other.effects
    BY DEF VerdictOrderIrrelevant
  <2> DEFINE vs == answer.verdicts
             other == mapVerdicts(Permuted(vs, perm))
  <2>1. vs \in Seq(Verdicts)
    BY DEF IInv, InputsFit
  <2>2. Permuted(vs, perm) \in Seq(Verdicts) /\ ToSet(Permuted(vs, perm)) = ToSet(vs)
    BY <2>1, <1>2
  <2>3. evaluation = mapVerdicts(vs)
    BY DEF IInv, AttemptFits, Evaluated
  <2>4. /\ evaluation.reasons \in Seq(ReasonCodes)
        /\ other.reasons \in Seq(ReasonCodes)
        /\ ToSet(evaluation.reasons) = ToSet(other.reasons)
        /\ evaluation.effects = other.effects
    BY <2>1, <2>2, <2>3, <1>1
  <2>. HIDE DEF other
  <2>5. /\ Compose(evaluation.reasons).type = Compose(other.reasons).type
        /\ ToSet(Compose(evaluation.reasons).reasons) = ToSet(Compose(other.reasons).reasons)
        /\ Compose(evaluation.reasons).actions = Compose(other.reasons).actions
    BY <2>4, ComposeIgnoresOrder
  <2>. QED
    BY <2>4, <2>5 DEF other
<1>. QED
  BY <1>3, Invariance, PTL

\* A secret payload is reviewed, once, whatever the rules decide.
THEOREM SecretReview ==
    ASSUME PolicyEvaluator = "embedded" PROVE Spec => []SecretsAreReviewed
<1>1. IInv => SecretsAreReviewed
  <2> SUFFICES ASSUME IInv, row # <<>>
               PROVE  action.secret <=> row[1].effects = <<"CREATE_SAFETY_REVIEW">>
    BY DEF SecretsAreReviewed
  <2>1. action \in Actions /\ Evaluated = Evaluate(action)
    BY DEF IInv, InputsFit, Evaluated
  <2>2. row[1].effects = IF action.secret THEN <<"CREATE_SAFETY_REVIEW">> ELSE <<>>
    BY <2>1, EmbeddedShape, StoredDecision
  <2>. QED
    BY <2>2
<1>. QED
  BY <1>1, Invariance, PTL

\* Every stored reason but POLICY_UNAVAILABLE comes from a stored verdict.
THEOREM ReasonsAreExplained ==
    ASSUME PolicyEvaluator = "osprey" PROVE Spec => []RulesExplainReasons
<1>1. IInv => RulesExplainReasons
  <2> SUFFICES ASSUME IInv, row # <<>>,
                      NEW r \in ToSet(row[1].reasons) \ {"POLICY_UNAVAILABLE"}
               PROVE  \E v \in ToSet(row[1].rules) : v.family # "review" /\ ReasonOf(v) = r
    BY DEF RulesExplainReasons
  <2>1. InputsFit
    BY DEF IInv
  <2>2. row[1].reasons = Decided.reasons /\ row[1].rules = Evaluated.rules
    BY StoredDecision
  <2>3. ~ answer.failed /\ ~ Malformed
    <3>1. ToSet(<<"POLICY_UNAVAILABLE">>) = {"POLICY_UNAVAILABLE"}
      BY FailClosedShape
    <3>. QED BY <2>1, <2>2, <3>1, RefusedAnswer, FailClosedDecided
  <2>4. r \in ToSet(Evaluated.reasons)
    <3>1. ToSet(NewAllowDecision.reasons) = {}
      BY SingleAction DEF NewAllowDecision
    <3>2. Evaluated.reasons # <<>>
      BY <2>1, <2>2, <3>1, DecidedShape
    <3>3. ToSet(Decided.reasons) = ReasonsFor(ToSet(Evaluated.reasons))
      BY <2>1, <3>2, DecidedShape
    <3>. QED BY <2>2, <3>3 DEF ReasonsFor
  <2>. QED
    BY <2>1, <2>2, <2>3, <2>4, WellFormedAnswer
<1>. QED
  BY <1>1, Invariance, PTL

\* Approval is offered only for reasons that approval cures, and never beside a
\* verdict that the actor is not authorized.
THEOREM ApprovalCuresOnlyCurable == Spec => []ApprovalNeverCuresTerminal
<1>1. IInv => ApprovalNeverCuresTerminal
  <2> SUFFICES ASSUME IInv, NEW i \in DOMAIN replies, replies[i].actions # <<>>
               PROVE  /\ {"ACTOR_NOT_AUTHORIZED", "POLICY_UNAVAILABLE"}
                             \cap ToSet(replies[i].reasons) = {}
                      /\ PolicyEvaluator = "osprey" =>
                           \A v \in ToSet(answer.verdicts) :
                              ~ (v.family = "deny" /\ v.key = "ACTOR_NOT_AUTHORIZED")
    BY DEF ApprovalNeverCuresTerminal
  <2> DEFINE codes == ToSet(Evaluated.reasons)
  <2>1. InputsFit
    BY DEF IInv
  <2>2. replies[i] = Decided
    <3>1. replies[i] # Invalid
      BY DEF Invalid
    <3>. QED BY <3>1 DEF IInv, RepliesFit
  <2>3. Evaluated.reasons # <<>>
    <3>1. NewAllowDecision.actions = <<>>
      BY DEF NewAllowDecision
    <3>. QED BY <2>1, <2>2, <3>1, DecidedShape
  <2>4. Decided.actions = ActionsFor(codes) /\ ToSet(Decided.reasons) = ReasonsFor(codes)
    BY <2>1, <2>3, DecidedShape
  <2>5. ~ Terminal(codes)
    BY <2>2, <2>4 DEF ActionsFor
  <2>6. "ACTOR_NOT_AUTHORIZED" \notin codes /\ "POLICY_UNAVAILABLE" \notin codes
    BY <2>5 DEF Terminal, Approval
  <2>7. {"ACTOR_NOT_AUTHORIZED", "POLICY_UNAVAILABLE"} \cap ToSet(replies[i].reasons) = {}
    BY <2>2, <2>4, <2>5, <2>6 DEF ReasonsFor
  <2>8. ASSUME PolicyEvaluator = "osprey", NEW v \in ToSet(answer.verdicts),
               v.family = "deny", v.key = "ACTOR_NOT_AUTHORIZED"
        PROVE  FALSE
    <3>1. ~ answer.failed /\ ~ Malformed
      BY <2>1, <2>6, <2>8, RefusedAnswer, FailClosedShape
    <3>2. ReasonOf(v) \in codes
      BY <2>1, <2>8, <3>1, WellFormedAnswer
    <3>3. ReasonOf(v) = "ACTOR_NOT_AUTHORIZED"
      BY <2>8 DEF ReasonOf
    <3>. QED BY <2>6, <3>2, <3>3
  <2>. QED
    BY <2>7, <2>8
<1>. QED
  BY <1>1, Invariance, PTL
=============================================================================
