-------------------------- MODULE MCDecisionService --------------------------
(* DecisionService for TLC: calls, digests and IDs are interchangeable.      *)
EXTENDS DecisionService, TLC

CallSymmetry ==
    Permutations(Calls) \cup Permutations(Digests)
        \cup Permutations(DecisionIDs) \cup Permutations(EffectIDs)
=============================================================================
