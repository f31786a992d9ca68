-------------------------- MODULE OspreyEvaluator --------------------------
(***************************************************************************)
(* The Osprey adapter: what Evaluate makes of the verdicts a coordinator   *)
(* sends.  A verdict is a family, standing for its prefix, and a key, the  *)
(* rest of the string.  Keys of the deny family are written as the reason  *)
(* codes that ToUpper makes of them.                                       *)
(***************************************************************************)
EXTENDS Decisions

CONSTANTS
    PolicyKeys,     \* strings that match policyKeyPattern
    BadKey          \* stands for every string that does not

Verdicts ==
    [family : {"deny"}, key : ReasonCodes \cup PolicyKeys \cup {BadKey}]
    \cup [family : {"approval", "review"}, key : PolicyKeys \cup {BadKey}]
    \cup [family : {"unknown"}, key : {BadKey}]

parseTerminalReason(key) ==
    key \in ReasonCodes \ {Approval, "POLICY_UNAVAILABLE"}

WellFormed(v) ==
    \/ v.family = "deny" /\ parseTerminalReason(v.key)
    \/ v.family \in {"approval", "review"} /\ v.key \in PolicyKeys

ReasonOf(v) == IF v.family = "deny" THEN v.key ELSE Approval

\* A review verdict asks for an effect and denies nothing.
Denials(verdicts) ==
    Picked(verdicts, {i \in DOMAIN verdicts : verdicts[i].family # "review"})

FailClosed ==
    [reasons |-> <<"POLICY_UNAVAILABLE">>, effects |-> <<>>, rules |-> <<>>]

\* Malformed verdicts are skipped instead of failing the evaluation.
mapWellFormed(verdicts) ==
    LET good == SelectSeq(FirstSeen(verdicts), WellFormed)
        denials == Denials(good)
    IN  [reasons |-> [i \in DOMAIN denials |-> ReasonOf(denials[i])],
         effects |-> IF \E v \in ToSet(good) : v.family = "review"
                     THEN <<"CREATE_SAFETY_REVIEW">> ELSE <<>>,
         rules |-> good]

\* One safety-review effect per review verdict.
mapEachReview(verdicts) ==
    LET seen == FirstSeen(verdicts)
        denials == Denials(seen)
        reviews == SelectSeq(seen, LAMBDA v : v.family = "review")
    IN  IF \E v \in ToSet(seen) : ~ WellFormed(v) THEN FailClosed
        ELSE [reasons |-> [i \in DOMAIN denials |-> ReasonOf(denials[i])],
              effects |-> [i \in DOMAIN reviews |-> "CREATE_SAFETY_REVIEW"],
              rules |-> seen]

\* The loop ends at the first deny verdict.
mapUntilDeny(verdicts) ==
    LET all == FirstSeen(verdicts)
        stops == {i \in DOMAIN all : all[i].family = "deny"}
        seen == SubSeq(all, 1, CHOOSE n \in DOMAIN all \cup {0} :
                    /\ n \in stops \/ (stops = {} /\ n = Len(all))
                    /\ \A i \in stops : n <= i)
        denials == Denials(seen)
    IN  IF \E v \in ToSet(seen) : ~ WellFormed(v) THEN FailClosed
        ELSE [reasons |-> [i \in DOMAIN denials |-> ReasonOf(denials[i])],
              effects |-> IF \E v \in ToSet(seen) : v.family = "review"
                          THEN <<"CREATE_SAFETY_REVIEW">> ELSE <<>>,
              rules |-> seen]

\* Only deny verdicts are recorded as matched rules.
mapRecordingDenials(verdicts) ==
    LET seen == FirstSeen(verdicts)
        denials == Denials(seen)
    IN  IF \E v \in ToSet(seen) : ~ WellFormed(v) THEN FailClosed
        ELSE [reasons |-> [i \in DOMAIN denials |-> ReasonOf(denials[i])],
              effects |-> IF \E v \in ToSet(seen) : v.family = "review"
                          THEN <<"CREATE_SAFETY_REVIEW">> ELSE <<>>,
              rules |-> SelectSeq(seen, LAMBDA v : v.family = "deny")]

mapVerdicts(verdicts) ==
    LET seen == FirstSeen(verdicts)
        denials == Denials(seen)
    IN  IF \E v \in ToSet(seen) : ~ WellFormed(v) THEN FailClosed
        ELSE [reasons |-> [i \in DOMAIN denials |-> ReasonOf(denials[i])],
              effects |-> IF \E v \in ToSet(seen) : v.family = "review"
                          THEN <<"CREATE_SAFETY_REVIEW">> ELSE <<>>,
              rules |-> seen]
=============================================================================
