----------------------- MODULE AuthoritativeDecisions -----------------------
(***************************************************************************)
(* What the decision endpoint promises, without policy evaluators, pools,  *)
(* transactions or crashes: a runtime-scoped request ID is bound once, to  *)
(* one action and one decision, on behalf of a caller that is waiting; a   *)
(* caller is told the bound decision when it asked about the bound action, *)
(* a conflict only when it asked about another one, or an error that       *)
(* commits the service to nothing.                                         *)
(***************************************************************************)
CONSTANTS Calls, Keys, Digests, Evaluations, DecisionIDs, Errors, NoValue

VARIABLES
    bound,      \* the bindings made so far
    asked,      \* what each caller asked about
    outcome,    \* what each caller was told
    record      \* the decision it was told

absVars == <<bound, asked, outcome, record>>

AbsInit ==
    /\ bound = {}
    /\ asked = [c \in Calls |-> NoValue]
    /\ outcome = [c \in Calls |-> "none"]
    /\ record = [c \in Calls |-> NoValue]

Waiting(c) == asked[c] # NoValue /\ outcome[c] = "none"

Ask(c) ==
    /\ asked[c] = NoValue
    /\ outcome[c] = "none"
    /\ asked'[c] \in [key : Keys, digest : Digests]
    /\ asked' = [asked EXCEPT ![c] = asked'[c]]
    /\ UNCHANGED <<bound, outcome, record>>

Bind(c) ==
    /\ Waiting(c)
    /\ \E e \in Evaluations, i \in DecisionIDs :
         /\ \A b \in bound :
              b.key # asked[c].key /\ b.record.decisionID # i
         /\ bound' = bound \cup
              {[key |-> asked[c].key,
                record |-> [decisionID |-> i, evaluation |-> e,
                            digest |-> asked[c].digest]]}
    /\ UNCHANGED <<asked, outcome, record>>

TellDecision(c) ==
    /\ Waiting(c)
    /\ \E b \in bound :
         /\ b.key = asked[c].key
         /\ b.record.digest = asked[c].digest
         /\ record' = [record EXCEPT ![c] = b.record]
    /\ outcome' = [outcome EXCEPT ![c] = "decided"]
    /\ UNCHANGED <<bound, asked>>

TellConflict(c) ==
    /\ Waiting(c)
    /\ \E b \in bound :
         b.key = asked[c].key /\ b.record.digest # asked[c].digest
    /\ outcome' = [outcome EXCEPT ![c] = "RequestIDConflict"]
    /\ UNCHANGED <<bound, asked, record>>

TellError(c) ==
    /\ outcome[c] = "none"
    /\ \E e \in Errors \ {"RequestIDConflict"} :
         outcome' = [outcome EXCEPT ![c] = e]
    /\ UNCHANGED <<bound, asked, record>>

AbsNext ==
    \E c \in Calls :
        Ask(c) \/ Bind(c) \/ TellDecision(c) \/ TellConflict(c) \/ TellError(c)

AbsSpec == AbsInit /\ [][AbsNext]_absVars
=============================================================================
