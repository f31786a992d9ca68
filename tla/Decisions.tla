----------------------------- MODULE Decisions -----------------------------
(***************************************************************************)
(* A decision and the four pieces of code that must agree on its shape:    *)
(* domain.NewDenyDecision with DecisionComposer, the CHECK constraints of  *)
(* table decisions, decodeDecision, and DecisionResponse.Validate.         *)
(***************************************************************************)
EXTENDS Naturals, FiniteSets, Sequences, SequencesExt

Approval == "DELEGATOR_APPROVAL_REQUIRED"

ReasonCodes ==
    {Approval, "EXTERNAL_DESTINATION", "VISIBILITY_EXPANSION",
     "DESTRUCTIVE_OPERATION", "ACTOR_NOT_AUTHORIZED", "POLICY_UNAVAILABLE"}

RequireApproval == "REQUIRE_APPROVAL"

\* The number of the index i among the indexes I.
Position(I, i) == Cardinality({j \in I : j <= i})

\* What a loop over s leaves of it that appends the elements at the indexes I.
Picked(s, I) ==
    [k \in 1 .. Cardinality(I) |-> s[CHOOSE i \in I : Position(I, i) = k]]

\* Repeated elements are dropped, in first-seen order.
FirstSeen(s) ==
    Picked(s, {i \in DOMAIN s : \A j \in DOMAIN s : j < i => s[j] # s[i]})

Invalid == [type |-> "INVALID", reasons |-> <<>>, actions |-> <<>>]

NewAllowDecision == [type |-> "ALLOW", reasons |-> <<>>, actions |-> <<>>]

NewDenyDecision(reasons, actions) ==
    IF /\ reasons # <<>>
       /\ ToSet(reasons) \subseteq ReasonCodes
       /\ ToSet(actions) \subseteq {RequireApproval}
       /\ Approval \in ToSet(reasons) <=> actions # <<>>
    THEN [type |-> "DENY", reasons |-> FirstSeen(reasons),
          actions |-> FirstSeen(actions)]
    ELSE Invalid

-----------------------------------------------------------------------------
(* DecisionComposer                                                        *)

\* As if ACTOR_NOT_AUTHORIZED were one more reason that approval cures.
OnlyUnavailableIsTerminal(reasons) == "POLICY_UNAVAILABLE" \in ToSet(reasons)

\* Every reason is terminal that approval could not cure.
containsTerminalReason(reasons) ==
    \E r \in ToSet(reasons) :
        r \notin {Approval, "EXTERNAL_DESTINATION", "VISIBILITY_EXPANSION",
                  "DESTRUCTIVE_OPERATION"}

withoutReason(reasons, excluded) ==
    Picked(reasons, {i \in DOMAIN reasons : reasons[i] # excluded})

Compose(reasons) ==
    IF reasons = <<>> THEN NewAllowDecision
    ELSE IF containsTerminalReason(reasons)
         THEN NewDenyDecision(withoutReason(reasons, Approval), <<>>)
    ELSE IF Approval \in ToSet(reasons)
         THEN NewDenyDecision(reasons, <<RequireApproval>>)
    ELSE NewDenyDecision(reasons, <<>>)

-----------------------------------------------------------------------------
(* Storing, reading back and answering                                     *)

\* The CHECK constraints of table decisions.
DecisionRowValid(row) ==
    /\ row.type \in {"ALLOW", "DENY"}
    /\ row.actions \in {<<>>, <<RequireApproval>>}
    /\ row.type = "ALLOW" => row.reasons = <<>> /\ row.actions = <<>>
    /\ row.type = "DENY" => row.reasons # <<>>
    /\ Approval \in ToSet(row.reasons) <=> row.actions = <<RequireApproval>>

\* The approval reason is dropped together with its required action.
decodeWithoutApproval(row) ==
    IF row.type = "ALLOW" \/ withoutReason(row.reasons, Approval) = <<>>
    THEN NewAllowDecision
    ELSE NewDenyDecision(withoutReason(row.reasons, Approval), <<>>)

\* The required actions are not read back.
decodeWithoutActions(row) ==
    IF row.type = "ALLOW" THEN NewAllowDecision
    ELSE NewDenyDecision(row.reasons, <<>>)

decodeDecision(row) ==
    IF ~ ToSet(row.reasons) \subseteq ReasonCodes THEN Invalid
    ELSE IF row.type = "ALLOW"
         THEN IF row.reasons = <<>> /\ row.actions = <<>>
              THEN NewAllowDecision ELSE Invalid
    ELSE NewDenyDecision(row.reasons, row.actions)

\* DecisionResponse.Validate
ResponseValid(d) ==
    /\ d.type \in {"ALLOW", "DENY"}
    /\ d.type = "ALLOW" => d.reasons = <<>> /\ d.actions = <<>>
    /\ d.type = "DENY" =>
         /\ d.reasons # <<>>
         /\ ToSet(d.actions) \subseteq {RequireApproval}
         /\ Approval \in ToSet(d.reasons) <=> Len(d.actions) = 1
=============================================================================
