--------------------------- MODULE PolicyDecision ---------------------------
(***************************************************************************)
(* One proposed action on its way through policy: evaluation by Osprey or  *)
(* by the embedded rules, composition of the decision, the stored row, the *)
(* public response, and retries of the request, which are answered from    *)
(* the row.  DecisionService models how several such requests interleave;  *)
(* this module models what is decided.                                     *)
(***************************************************************************)
EXTENDS OspreyEvaluator, EmbeddedEvaluator, Naturals

CONSTANTS
    PolicyEvaluator,    \* the configured evaluator: "osprey" or "embedded"
    MaxVerdicts,        \* bound on the verdicts of one coordinator answer
    MaxAttempts         \* bound on the times the client sends the request

ASSUME EvaluatorAssumption == PolicyEvaluator \in {"osprey", "embedded"}
ASSUME BoundsAssumption == MaxVerdicts \in Nat /\ MaxAttempts \in Nat

VARIABLES
    action,         \* the action the request is about, the same in each retry
    stage,          \* where the current attempt is
    answer,         \* the coordinator's answer that the attempt or the row rests on
    evaluation,     \* the PolicyEvaluation of the current attempt
    decision,       \* the composed decision of the current attempt
    row,            \* the stored decision, a sequence of at most one row
    replies         \* the responses sent so far; an error is Invalid

vars == <<action, stage, answer, evaluation, decision, row, replies>>

NoEvaluation == [reasons |-> <<>>, effects |-> <<>>, rules |-> <<>>]

\* The coordinator sends verdicts, or the call times out, is refused or
\* returns something that does not parse.
Answers ==
    [failed : {FALSE}, verdicts : SeqOf(Verdicts, MaxVerdicts)]
    \cup {[failed |-> TRUE, verdicts |-> <<>>]}

NoAnswer == [failed |-> FALSE, verdicts |-> <<>>]

Stages == {"idle", "lookup", "policy", "compose", "store", "reply"}

\* The adapter forwards the action without reading it: one action will do.
ForwardedAction ==
    [parameters |-> [type |-> "DELETE", mode |-> "SOFT", recoverable |-> TRUE],
     secret |-> FALSE, evidence |-> {}]

Init ==
    /\ action \in IF PolicyEvaluator = "embedded" THEN Actions
                  ELSE {ForwardedAction}
    /\ stage = "idle"
    /\ answer = NoAnswer
    /\ evaluation = NoEvaluation
    /\ decision = Invalid
    /\ row = <<>>
    /\ replies = <<>>

-----------------------------------------------------------------------------

\* The attempt ends and leaves nothing behind but its reply and the row.
Respond(response) ==
    /\ stage' = "idle"
    /\ replies' = Append(replies, response)
    /\ evaluation' = NoEvaluation
    /\ decision' = Invalid

Request ==
    /\ stage = "idle"
    /\ Len(replies) < MaxAttempts
    /\ stage' = "lookup"
    /\ UNCHANGED <<action, answer, evaluation, decision, row, replies>>

\* toDecisionResponse, and Validate before the response is written.
PublicResponse(d) == IF ResponseValid(d) THEN d ELSE Invalid

\* The service finds the request and answers from its row.
AnswerFromRow ==
    /\ stage = "lookup"
    /\ row # <<>>
    /\ Respond(PublicResponse(decodeDecision(row[1])))
    /\ UNCHANGED <<action, answer, row>>

NotFound ==
    /\ stage = "lookup"
    /\ row = <<>>
    /\ stage' = "policy"
    /\ UNCHANGED <<action, answer, evaluation, decision, row, replies>>

OspreyEvaluates ==
    /\ PolicyEvaluator = "osprey"
    /\ stage = "policy"
    /\ \E a \in Answers :
         /\ answer' = a
         /\ evaluation' = IF a.failed THEN FailClosed ELSE mapVerdicts(a.verdicts)
    /\ stage' = "compose"
    /\ UNCHANGED <<action, decision, row, replies>>

EmbeddedEvaluates ==
    /\ PolicyEvaluator = "embedded"
    /\ stage = "policy"
    /\ ~ EvaluateFails(action)
    /\ evaluation' = Evaluate(action)
    /\ stage' = "compose"
    /\ UNCHANGED <<action, answer, decision, row, replies>>

EmbeddedFails ==
    /\ PolicyEvaluator = "embedded"
    /\ stage = "policy"
    /\ EvaluateFails(action)
    /\ Respond(Invalid)
    /\ UNCHANGED <<action, answer, row>>

ComposeDecision ==
    /\ stage = "compose"
    /\ decision' = Compose(evaluation.reasons)
    /\ stage' = "store"
    /\ UNCHANGED <<action, answer, evaluation, row, replies>>

\* encodeEffects refuses two effects of one type.
EffectsStorable(effects) == Cardinality(ToSet(effects)) = Len(effects)

\* encodeEvaluation and the constraints of the tables accept the commit.
Storable ==
    /\ decision # Invalid
    /\ EffectsStorable(evaluation.effects)
    /\ DecisionRowValid(decision)

StoredRow ==
    [type |-> decision.type, reasons |-> decision.reasons,
     actions |-> decision.actions, effects |-> evaluation.effects,
     rules |-> evaluation.rules]

StoreDecision ==
    /\ stage = "store"
    /\ Storable
    /\ row' = <<StoredRow>>
    /\ stage' = "reply"
    /\ UNCHANGED <<action, answer, evaluation, decision, replies>>

\* The commit is refused or fails; a failed commit may have reached the disk.
StoreFails ==
    /\ stage = "store"
    /\ row' \in {row} \cup (IF Storable THEN {<<StoredRow>>} ELSE {})
    /\ Respond(Invalid)
    /\ answer' = IF row' = <<>> THEN NoAnswer ELSE answer
    /\ UNCHANGED action

\* CommitEvaluation returns the decision it was given, not the row.
ReplyWithDecision ==
    /\ stage = "reply"
    /\ Respond(PublicResponse(decision))
    /\ UNCHANGED <<action, answer, row>>

Next ==
    \/ Request
    \/ AnswerFromRow
    \/ NotFound
    \/ OspreyEvaluates
    \/ EmbeddedEvaluates
    \/ EmbeddedFails
    \/ ComposeDecision
    \/ StoreDecision
    \/ StoreFails
    \/ ReplyWithDecision

Spec == Init /\ [][Next]_vars

-----------------------------------------------------------------------------
(* Properties                                                              *)

Effects == {<<>>, <<"CREATE_SAFETY_REVIEW">>}

\* What is stored of a decision.
Rows ==
    [type : {"ALLOW", "DENY"}, reasons : Seq(ReasonCodes),
     actions : {<<>>, <<RequireApproval>>},
     effects : Effects,
     rules : Seq(Verdicts) \cup Seq(RuleIDs)]

\* Type invariant: in particular an evaluation asks for at most one review, the
\* stored row stays within the value sets of table decisions and every reply
\* is a decision or an error.
TypeOK ==
    /\ stage \in Stages
    /\ evaluation.effects \in Effects
    /\ answer.failed \in BOOLEAN /\ answer.verdicts \in Seq(Verdicts)
    /\ row = <<>> \/ row[1] \in Rows
    /\ \A i \in DOMAIN replies : replies[i].type \in {"ALLOW", "DENY", "INVALID"}
    /\ Len(replies) <= MaxAttempts

Malformed == \E v \in ToSet(answer.verdicts) : ~ WellFormed(v)

\* Evaluate of the Osprey adapter: when the call fails or one verdict of the
\* answer is malformed, what is stored, and so what every later retry is
\* answered with, is a denial for POLICY_UNAVAILABLE alone, with no effect
\* and no matched rule of the verdicts that did parse.
FailsClosed ==
    row # <<>> /\ (answer.failed \/ Malformed) =>
        /\ row[1].type = "DENY"
        /\ row[1].reasons = <<"POLICY_UNAVAILABLE">>
        /\ row[1].actions = <<>>
        /\ row[1].effects = <<>>
        /\ row[1].rules = <<>>

\* The policy the rules are meant to enforce, said without their control flow.
Authorized ==
    \E e \in action.evidence :
        e.issuer = OwnRuntime
        /\ e.scope = [type |-> action.parameters.type,
                      value |-> AuthorizedValue(action.parameters)]

Clear ==
    IF PolicyEvaluator = "osprey"
    THEN /\ ~ answer.failed /\ ~ Malformed
         /\ \A v \in ToSet(answer.verdicts) : v.family = "review"
    ELSE /\ action.evidence # {} => Authorized
         /\ LET p == action.parameters
            IN  CASE p.type = "EXTERNAL_SEND" ->
                       p.destination = "EXTERNAL" => Authorized
                  [] p.type = "UPDATE_RESOURCE_ACCESS" ->
                       p.current = "PRIVATE" => p.requested \notin {"WORKSPACE", "PUBLIC"}
                  [] p.type = "DELETE" -> p.mode = "SOFT" /\ p.recoverable

\* No attempt, first or retried, is ever answered ALLOW unless the evaluator
\* found nothing against the action: evidence counts only when the acting
\* runtime issued it for this very action (hasMatchingRuntimeEvidence), and a
\* coordinator that did not answer is not one that found nothing.
AllowOnlyWhenClear ==
    \A i \in DOMAIN replies : replies[i].type = "ALLOW" => Clear

\* An action that nothing speaks against is not denied either: with a decision
\* stored, every decision sent is ALLOW.
ClearIsAllowed ==
    row # <<>> /\ Clear => row[1].type = "ALLOW"

\* Compose: the client is offered approval only for reasons that approval can
\* cure.  A missing authorization or an unavailable policy is never presented
\* as something the delegator could approve.
ApprovalNeverCuresTerminal ==
    \A i \in DOMAIN replies :
        replies[i].actions # <<>> =>
            /\ {"ACTOR_NOT_AUTHORIZED", "POLICY_UNAVAILABLE"}
                   \cap ToSet(replies[i].reasons) = {}
            /\ PolicyEvaluator = "osprey" =>
                 \A v \in ToSet(answer.verdicts) :
                    ~ (v.family = "deny" /\ v.key = "ACTOR_NOT_AUTHORIZED")

\* The first attempt is answered from the decision in memory and a retry from
\* what decodeDecision makes of the row: the client cannot tell them apart.
RetriesReplyAlike ==
    \A i, j \in DOMAIN replies :
        replies[i] # Invalid /\ replies[j] # Invalid => replies[i] = replies[j]

\* Whatever the evaluators and the composer can produce passes encodeEffects
\* and the CHECK constraints, and once stored it can be decoded and sent: no
\* decision gets stuck between the copies of the rule about its shape.
DecisionsSurviveStorage ==
    /\ stage = "store" => Storable
    /\ row # <<>> => PublicResponse(decodeDecision(row[1])) # Invalid
    /\ stage = "reply" => decodeDecision(row[1]) = decision

Permuted(s, perm) == [i \in DOMAIN s |-> s[perm[i]]]

\* mapVerdicts: the coordinator may list its verdicts in any order; the type,
\* the set of reasons, the required action and the effects do not depend on it.
VerdictOrderIrrelevant ==
    stage = "compose" /\ ~ answer.failed =>
        \A perm \in Bijection(DOMAIN answer.verdicts, DOMAIN answer.verdicts) :
            LET other == mapVerdicts(Permuted(answer.verdicts, perm))
                mine == Compose(evaluation.reasons)
                theirs == Compose(other.reasons)
            IN  /\ mine.type = theirs.type
                /\ ToSet(mine.reasons) = ToSet(theirs.reasons)
                /\ mine.actions = theirs.actions
                /\ evaluation.effects = other.effects

\* A secret payload is reviewed, once, whatever else is decided about the
\* action, denial included.
SecretsAreReviewed ==
    row # <<>> =>
        (action.secret <=> row[1].effects = <<"CREATE_SAFETY_REVIEW">>)

\* The audit record explains the answer: every verdict that took part in the
\* decision is kept with it, so every reason given but POLICY_UNAVAILABLE has a
\* stored verdict it came from.
RulesExplainReasons ==
    row # <<>> =>
        \A r \in ToSet(row[1].reasons) \ {"POLICY_UNAVAILABLE"} :
            \E v \in ToSet(row[1].rules) : v.family # "review" /\ ReasonOf(v) = r

\* README.md, lines 73-76: a deny verdict is "a terminal deny".  Approval is
\* then never what the client is told to ask for.
DenyVerdictIsTerminal ==
    (\E v \in ToSet(answer.verdicts) : v.family = "deny") /\ row # <<>>
        => row[1].actions = <<>>
=============================================================================
