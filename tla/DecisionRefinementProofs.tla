---------------------- MODULE DecisionRefinementProofs ----------------------
(***************************************************************************)
(* That DecisionService implements AuthoritativeDecisions, never stores    *)
(* what a cancelled call was answered, and always finds the winner of a    *)
(* race, for every value of the constants.                                 *)
(***************************************************************************)
EXTENDS DecisionServiceProofs

-----------------------------------------------------------------------------
(* Which steps change the tables                                           *)

Commits(c) ==
    /\ pc[c] = "committing" /\ Commit(c)
    /\ \E s \in {"committed", "recover"} : Goto(c, s)

\* Of all the steps only the two commits touch a table.
LEMMA TablesChange ==
    ASSUME Next
    PROVE  UNCHANGED tables \/ \E c \in Calls : Commits(c)
<1>1. ASSUME NEW c \in Calls, OperationFails(c) PROVE UNCHANGED tables
  BY <1>1 DEF OperationFails, QueryFails, InsertRequestFails, StatementFails,
              CommitFails, Rollback, ledgerVars, tables
<1>2. ASSUME NEW c \in Calls, Step(c) PROVE UNCHANGED tables \/ Commits(c)
  BY <1>1, <1>2
     DEF Step, LookUp, EvaluatePolicy, PreparationFails, CommitLookUp, Begin,
         InsertRequest, LostRace, Resolve, BusyTimeout, InsertRequestFails,
         InsertDecision, DecisionRejected, InsertEffects, EffectsRejected,
         CommitTx, CommitDurable, Recover, Return, BeginTx,
         insertCommittedActionRequest, insertCommittedDecision,
         insertPolicyEffects, Rollback, ledgerVars, tables, Commits
<1>3. ASSUME NEW c \in Calls, Environment(c)
      PROVE  UNCHANGED tables \/ Commits(c)
  BY <1>1, <1>3
     DEF Environment, Submit, SubmitInvalid, Cancel, AwaitDone,
         CommitUncertain, Rollback, ledgerVars, tables, Commits
<1>4. Crash => UNCHANGED tables
  BY DEF Crash, LoseTransactions
<1> QED BY <1>2, <1>3, <1>4 DEF Next

-----------------------------------------------------------------------------
(* Calls that were cut short, and calls that lost a race                   *)

\* What a step may do to the call c it moves, and to the others.
Follows(c) ==
    /\ OthersSame(c)
    /\ \A b \in Calls : cancelled[b] => cancelled'[b]
    /\ prepared'[c] = prepared[c] \/ EvaluatePolicy(c)
    /\ request'[c] = request[c] \/ pc'[c] # "resolve"
    /\ pc[c] \in {"returned", "crashed"} => pc'[c] = pc[c]
    /\ pc[c] = "commitLookup" /\ cancelled[c] =>
         pc'[c] \in {"commitLookup", "returned"}
    /\ pc'[c] = "resolve" =>
         pc[c] = "resolve" \/ RequestRowExists(request[c].key)

\* How a call that goes on got there.
Goes(c, s) ==
    /\ Goto(c, s)
    /\ pc[c] \notin {"returned", "crashed"}
    /\ pc[c] = "commitLookup" => ~ cancelled[c]
    /\ s = "resolve" => RequestRowExists(request[c].key)

Ends(c) ==
    /\ (\E e : Fail(c, e)) \/ (\E r : Decide(c, r))
    /\ pc[c] \notin {"returned", "crashed"}

\* Going on and ending are such moves.
LEMMA ControlFollows ==
    ASSUME CallTypeOK, NEW c \in Calls, Ends(c) \/ \E s : Goes(c, s)
    PROVE  Follows(c)
<1>1. CASE Ends(c)
  <2>1. /\ OthersSame(c) /\ pc'[c] = "returned"
        /\ UNCHANGED <<request, prepared, cancelled>>
    BY <1>1 DEF Ends, Fail, Decide, CallTypeOK, OthersSame, SameCall
  <2> QED BY <1>1, <2>1 DEF Ends, Follows
<1>2. CASE \E s : Goes(c, s)
  <2>1. PICK s : Goes(c, s)
    BY <1>2
  <2>2. /\ OthersSame(c) /\ pc'[c] = s
        /\ UNCHANGED <<request, prepared, cancelled>>
    BY <2>1, ControlMoves DEF Goes, Goto
  <2> QED BY <2>1, <2>2 DEF Goes, Follows
<1> QED BY <1>1, <1>2

\* So is a failing database operation,
LEMMA FailureFollows ==
    ASSUME CallTypeOK, NEW c \in Calls, OperationFails(c)
    PROVE  Follows(c)
<1>1. Ends(c) \/ Goes(c, "recover")
  BY DEF OperationFails, QueryFails, InsertRequestFails, StatementFails,
         CommitFails, Ends, Goes
<1> QED BY <1>1, ControlFollows

\* every step of the code,
LEMMA StepFollows ==
    ASSUME CallTypeOK, NEW c \in Calls, Step(c)
    PROVE  Follows(c)
<1>1. CASE EvaluatePolicy(c)
  <2>1. /\ OthersSame(c) /\ pc[c] = "policy" /\ pc'[c] = "commitLookup"
        /\ UNCHANGED <<request, cancelled>>
    BY <1>1 DEF EvaluatePolicy, CallTypeOK, OthersSame, SameCall
  <2> QED BY <1>1, <2>1 DEF Follows
<1>2. CASE ~ ContextLive(c) /\ OperationFails(c)
  BY <1>2, FailureFollows
<1>3. CASE BusyTimeout(c)
  BY <1>3, FailureFollows DEF BusyTimeout, OperationFails
<1>4. CASE LookUp(c) \/ CommitLookUp(c) \/ Resolve(c) \/ Recover(c)
  <2>1. Ends(c) \/ \E s : Goes(c, s)
    BY <1>4 DEF LookUp, CommitLookUp, Resolve, Recover, ResolveExisting,
                CanQuery, ContextLive, Ends, Goes
  <2> QED BY <2>1, ControlFollows
<1>5. CASE PreparationFails(c) \/ DecisionRejected(c) \/ EffectsRejected(c)
             \/ Return(c)
  <2>1. Ends(c)
    BY <1>5 DEF PreparationFails, DecisionRejected, EffectsRejected, Return,
                Ends
  <2> QED BY <2>1, ControlFollows
<1>6. CASE Begin(c) \/ InsertRequest(c) \/ LostRace(c) \/ InsertDecision(c)
             \/ InsertEffects(c) \/ CommitTx(c) \/ CommitDurable(c)
  <2>1. \E s : Goes(c, s)
    BY <1>6 DEF Begin, InsertRequest, LostRace, InsertDecision, InsertEffects,
                CommitTx, CommitDurable, Goes
  <2> QED BY <2>1, ControlFollows
<1> QED BY <1>1, <1>2, <1>3, <1>4, <1>5, <1>6 DEF Step

\* and every step of the environment.
LEMMA EnvironmentFollows ==
    ASSUME CallTypeOK, NEW c \in Calls, Environment(c)
    PROVE  Follows(c)
<1>1. CASE Submit(c)
  <2>1. /\ OthersSame(c) /\ pc[c] = "idle" /\ pc'[c] = "lookup"
        /\ UNCHANGED <<prepared, cancelled>>
    BY <1>1 DEF Submit, CallTypeOK, OthersSame, SameCall
  <2> QED BY <1>1, <2>1 DEF Follows
<1>2. CASE SubmitInvalid(c)
  <2>1. Ends(c)
    BY <1>2 DEF SubmitInvalid, Ends
  <2> QED BY <2>1, ControlFollows
<1>3. CASE Cancel(c) \/ AwaitDone(c)
  <2>1. /\ UNCHANGED <<pc, request, prepared, outcome, record>>
        /\ \A b \in Calls : cancelled[b] => cancelled'[b]
    BY <1>3 DEF Cancel, AwaitDone, callVars, CallTypeOK
  <2> QED BY <2>1 DEF Follows, OthersSame, SameCall
<1>4. CASE CommitUncertain(c)
  <2>1. Goes(c, "recover")
    BY <1>4 DEF CommitUncertain, Goes
  <2> QED BY <2>1, ControlFollows
<1>5. CASE ContextLive(c) /\ OperationFails(c)
  BY <1>5, FailureFollows
<1> QED BY <1>1, <1>2, <1>3, <1>4, <1>5 DEF Environment

\* A call that was answered because its own context ended gets no further than
\* the lookup of CommitEvaluation.
CutShortStops(c) ==
    prepared[c] # NoValue /\ prepared[c].evaluation = CutShort =>
        cancelled[c] /\ pc[c] \in {"commitLookup", "returned", "crashed"}

\* A call that lost a race lost it to a row.
LoserHasWinner(c) == pc[c] = "resolve" => RequestRowExists(request[c].key)

RaceInv ==
    /\ \A c \in Calls : CutShortStops(c) /\ LoserHasWinner(c)
    /\ CutShortNeverStored

\* The tables only gain rows, and none of a call that was cut short.
LEMMA TablesGain ==
    ASSUME IInv, RaceInv, Next
    PROVE  /\ CutShortNeverStored'
           /\ \A k : RequestRowExists(k) => RequestRowExists(k)'
<1>1. CASE UNCHANGED tables
  BY <1>1 DEF RaceInv, CutShortNeverStored, RequestRowExists, tables
<1>2. ASSUME NEW c \in Calls, Commits(c)
      PROVE  /\ CutShortNeverStored'
             /\ \A k : RequestRowExists(k) => RequestRowExists(k)'
  <2>1. Fresh(c) /\ Added(c) /\ pc[c] = "committing"
    BY <1>2, CommitFacts DEF Commits
  <2>2. prepared[c] # NoValue /\ prepared[c].evaluation # CutShort
    BY <2>1, NoValueAssumption DEF RaceInv, CutShortStops, Fresh
  <2> QED BY <2>1, <2>2 DEF RaceInv, CutShortNeverStored, RequestRowExists,
                            Added, DecisionRow
<1> QED BY <1>1, <1>2, TablesChange

\* Every step keeps them so.
LEMMA NextRaceInv == IInv /\ RaceInv /\ [Next]_vars => RaceInv'
<1> SUFFICES ASSUME IInv, RaceInv, [Next]_vars PROVE RaceInv'
  OBVIOUS
<1> CallTypeOK
  BY DEF IInv, TypeOK
<1>1. CASE UNCHANGED vars
  BY <1>1 DEF RaceInv, CutShortStops, LoserHasWinner, CutShortNeverStored,
              RequestRowExists, vars, ledgerVars, callVars
<1>2. CASE Crash
  <2>1. /\ \A c \in Calls : pc'[c] \in {pc[c], "crashed"}
        /\ UNCHANGED <<request, prepared, cancelled>>
    BY <1>2 DEF Crash, CallTypeOK
  <2> QED BY <1>2, <2>1, TablesGain
          DEF Next, RaceInv, CutShortStops, LoserHasWinner
<1>3. ASSUME NEW c \in Calls, Step(c) \/ Environment(c) PROVE RaceInv'
  <2>1. Follows(c)
    BY <1>3, StepFollows, EnvironmentFollows
  <2>2. /\ CutShortNeverStored'
        /\ \A k : RequestRowExists(k) => RequestRowExists(k)'
    BY <1>3, TablesGain DEF Next
  <2>3. ASSUME NEW b \in Calls \ {c}
        PROVE  CutShortStops(b)' /\ LoserHasWinner(b)'
    BY <2>1, <2>2 DEF Follows, OthersSame, SameCall, RaceInv, CutShortStops,
                      LoserHasWinner
  <2>4. CutShortStops(c)'
    <3>1. CASE EvaluatePolicy(c)
      BY <3>1 DEF EvaluatePolicy, CutShortStops, CallTypeOK
    <3>2. CASE prepared'[c] = prepared[c]
      BY <2>1, <3>2 DEF Follows, RaceInv, CutShortStops
    <3> QED BY <2>1, <3>1, <3>2 DEF Follows
  <2>5. LoserHasWinner(c)'
    BY <2>1, <2>2 DEF Follows, RaceInv, LoserHasWinner
  <2> QED BY <2>2, <2>3, <2>4, <2>5 DEF RaceInv
<1> QED BY <1>1, <1>2, <1>3 DEF Next

\* The invariant of cut-short calls and of losers holds throughout.
LEMMA RaceInvariance == Spec => []RaceInv
<1>1. Init => RaceInv
  BY DEF Init, LedgerInit, RaceInv, CutShortStops, LoserHasWinner,
         CutShortNeverStored
<1> QED BY <1>1, NextRaceInv, Invariance, PTL DEF Spec

\* The denial given to a caller that went away never becomes the decision of
\* its request, although Evaluate tries to commit it.
THEOREM CutShortDecisionsNotStored == Spec => []CutShortNeverStored
<1>1. RaceInv => CutShortNeverStored
  BY DEF RaceInv
<1> QED BY <1>1, RaceInvariance, PTL

\* Whoever loses the race for a request ID finds the winner's evaluation.
THEOREM LosersFind == Spec => []LosersFindTheWinner
<1>1. IInv /\ RaceInv => LosersFindTheWinner
  <2> SUFFICES ASSUME IInv, RaceInv, NEW c \in Calls, pc[c] = "resolve"
               PROVE  Stored(c) # {}
    BY DEF LosersFindTheWinner
  <2>1. PICK a \in actionRequests : a.key = request[c].key
    BY DEF RaceInv, LoserHasWinner, RequestRowExists
  <2>2. PICK d \in decisions : d.key = a.key
    BY DEF IInv, LedgerOK, LedgerWhole
  <2>3. RecordOf(d, a) \in DecisionRecords
    BY DEF RecordOf, DecisionRecords, IInv, TypeOK, LedgerTypeOK,
           DecisionRows, ActionRequestRows
  <2> QED BY <2>1, <2>2, <2>3 DEF Stored, GetEvaluationByRequestID
<1> QED BY <1>1, RaceInvariance, Invariance, PTL

-----------------------------------------------------------------------------
(* Refinement                                                              *)

\* The bindings are read off the tables and nothing else.
LEMMA SameBindings == ASSUME UNCHANGED tables PROVE Bindings' = Bindings
BY DEF tables, Bindings

\* A commit binds its key.
LEMMA CommitBinds ==
    ASSUME IInv, NEW c \in Calls, Commits(c)
    PROVE  Authority!Bind(c)
<1>1. Fresh(c) /\ Added(c)
  BY CommitFacts DEF Commits
<1>2. /\ request[c] # NoValue /\ outcome[c] = "none"
      /\ UNCHANGED <<request, outcome, record>>
  BY <1>1, NoValueAssumption
     DEF IInv, CallOK, ProgressOK, Fresh, Commits, Goto
<1> DEFINE i == prepared[c].decisionID
           e == prepared[c].evaluation
           new == [key |-> request[c].key,
                   record |-> [decisionID |-> i, evaluation |-> e,
                               digest |-> request[c].digest]]
<1>3. i \in DecisionIDs /\ e \in Evaluations
  BY <1>1 DEF Fresh, EvaluationCommits
<1>4. \A b \in Bindings : b.key # request[c].key /\ b.record.decisionID # i
  BY <1>1 DEF Bindings, Fresh, RecordOf
<1>5. Bindings' = Bindings \cup {new}
  <2>1. new \in [key : Keys, record : DecisionRecords]
    BY <1>1, <1>3 DEF Fresh, Requests, DecisionRecords
  <2>2. /\ DecisionRow(c).key = request[c].key
        /\ RecordOf(DecisionRow(c), request[c]) = new.record
    BY DEF DecisionRow, RecordOf
  <2>3. ASSUME NEW b \in [key : Keys, record : DecisionRecords]
        PROVE  b \in Bindings' <=> b \in Bindings \cup {new}
    <3>1. ASSUME b \in Bindings' PROVE b \in Bindings \cup {new}
      <4>1. PICK d \in decisions', a \in actionRequests' :
               d.key = b.key /\ a.key = b.key /\ b.record = RecordOf(d, a)
        BY <3>1 DEF Bindings, RecordOf
      <4>2. CASE d \in decisions /\ a \in actionRequests
        BY <4>1, <4>2 DEF Bindings
      <4>3. CASE d = DecisionRow(c) /\ a = request[c]
        BY <2>2, <4>1, <4>3
      <4>4. ~ (d \in decisions /\ a = request[c])
        BY <1>1, <4>1 DEF Fresh
      <4>5. ~ (d = DecisionRow(c) /\ a \in actionRequests)
        BY <1>1, <2>2, <4>1 DEF Fresh
      <4> QED BY <1>1, <4>1, <4>2, <4>3, <4>4, <4>5 DEF Added
    <3>2. ASSUME b \in Bindings PROVE b \in Bindings'
      BY <1>1, <3>2 DEF Bindings, Added, RecordOf
    <3>3. new \in Bindings'
      BY <1>1, <2>1, <2>2 DEF Bindings, Added, RecordOf
    <3> QED BY <3>1, <3>2, <3>3
  <2>4. /\ \A b \in Bindings : b \in [key : Keys, record : DecisionRecords]
        /\ \A b \in Bindings' : b \in [key : Keys, record : DecisionRecords]
    BY DEF Bindings
  <2> QED BY <2>1, <2>3, <2>4
<1> HIDE DEF i, e
<1> QED BY <1>2, <1>3, <1>4, <1>5 DEF Authority!Bind, Authority!Waiting

\* The steps that answer a call.
LEMMA FailTells ==
    ASSUME IInv, NEW c \in Calls, pc[c] # "returned", UNCHANGED tables,
           NEW e \in Errors \ {"RequestIDConflict"}, Fail(c, e)
    PROVE  Authority!TellError(c)
BY SameBindings DEF IInv, CallOK, ProgressOK, Fail, Authority!TellError

\* What GetEvaluationByRequestID finds for a call is the binding of its key.
LEMMA StoredBound ==
    ASSUME IInv, NEW c \in Calls, request[c] \in Requests, NEW r \in Stored(c)
    PROVE  \E b \in Bindings : b.key = request[c].key /\ b.record = r
<1> DEFINE b == [key |-> request[c].key, record |-> r]
<1>1. b \in Bindings
  BY DEF Stored, GetEvaluationByRequestID, Bindings, Requests
<1> QED BY <1>1

\* A call in flight is one the abstract specification still owes an answer.
LEMMA WaitingCall ==
    ASSUME IInv, NEW c \in Calls, pc[c] \in InFlight
    PROVE  Authority!Waiting(c) /\ request[c] \in Requests
BY NoValueAssumption
   DEF IInv, CallOK, ProgressOK, Authority!Waiting, InFlight, InTransaction

\* Returning the record bound to the key is an abstract decision.
LEMMA DecideTells ==
    ASSUME IInv, NEW c \in Calls, pc[c] \in InFlight, UNCHANGED tables,
           NEW b \in Bindings, b.key = request[c].key,
           b.record.digest = request[c].digest, Decide(c, b.record)
    PROVE  Authority!TellDecision(c)
BY WaitingCall, SameBindings DEF Decide, Authority!TellDecision

\* resolveExisting answers with the bound decision or with a conflict.
LEMMA ResolveTells ==
    ASSUME IInv, NEW c \in Calls, pc[c] \in InFlight, UNCHANGED tables,
           NEW r \in Stored(c), ResolveExisting(c, r)
    PROVE  Authority!TellDecision(c) \/ Authority!TellConflict(c)
<1>1. PICK b \in Bindings : b.key = request[c].key /\ b.record = r
  BY StoredBound, WaitingCall
<1>2. CASE r.digest = request[c].digest /\ Decide(c, r)
  BY <1>1, <1>2, DecideTells
<1>3. CASE r.digest # request[c].digest /\ Fail(c, "RequestIDConflict")
  BY <1>1, <1>3, WaitingCall, SameBindings DEF Fail, Authority!TellConflict
<1> QED BY <1>2, <1>3 DEF ResolveExisting

\* Returning the record just committed is an abstract decision.
LEMMA ReturnTells ==
    ASSUME IInv, NEW c \in Calls, Return(c)
    PROVE  Authority!TellDecision(c)
<1>1. pc[c] \in InFlight /\ UNCHANGED tables /\ Decide(c, OwnRecord(c))
  BY DEF Return, InFlight, ledgerVars, tables
<1>2. /\ request[c] \in Requests /\ prepared[c] \in EvaluationCommits
      /\ request[c] \in actionRequests /\ DecisionRow(c) \in decisions
  BY HasRequest DEF Return, InFlight, IInv, CallOK, CommittedOK
<1> DEFINE b == [key |-> request[c].key, record |-> OwnRecord(c)]
<1>3. /\ b \in [key : Keys, record : DecisionRecords]
      /\ DecisionRow(c).key = b.key /\ request[c].key = b.key
      /\ b.record = RecordOf(DecisionRow(c), request[c])
  BY <1>2, OwnTypes DEF Requests, DecisionRow, RecordOf, OwnRecord
<1>4. b \in Bindings
  BY <1>2, <1>3 DEF Bindings
<1> QED BY <1>1, <1>4, DecideTells DEF OwnRecord

\* Steps that callers cannot see.
Unseen == UNCHANGED <<Bindings, request, outcome, record>>

\* Going on to the next operation is invisible to callers.
LEMMA GotoUnseen ==
    ASSUME NEW c \in Calls, NEW s, Goto(c, s), UNCHANGED tables
    PROVE  Unseen
BY SameBindings DEF Goto, Unseen

\* A failing database operation is an abstract error or invisible.
LEMMA OperationFailsTells ==
    ASSUME IInv, NEW c \in Calls, OperationFails(c)
    PROVE  Authority!TellError(c) \/ Unseen
<1>1. CASE QueryFails(c)
  BY <1>1, FailTells DEF QueryFails, Errors, ledgerVars, tables
<1>2. CASE InsertRequestFails(c) \/ CommitFails(c)
  BY <1>2, GotoUnseen DEF InsertRequestFails, CommitFails, Rollback
<1>3. CASE StatementFails(c)
  BY <1>3, FailTells DEF StatementFails, Errors, Rollback
<1> QED BY <1>1, <1>2, <1>3 DEF OperationFails

\* Every step of Evaluate and CommitEvaluation maps to an abstract step.
LEMMA StepRefines ==
    ASSUME IInv, NEW c \in Calls, Step(c)
    PROVE  Authority!AbsNext \/ Unseen
<1>1. CASE LookUp(c) \/ CommitLookUp(c) \/ Resolve(c) \/ Recover(c)
  <2>1. pc[c] \in InFlight /\ pc[c] # "returned" /\ UNCHANGED tables
    BY <1>1 DEF LookUp, CommitLookUp, Resolve, Recover, InFlight, ledgerVars,
                tables
  <2>2. \/ \E s : Goto(c, s)
        \/ \E r \in Stored(c) : ResolveExisting(c, r)
        \/ Fail(c, "LedgerFailure")
    BY <1>1 DEF LookUp, CommitLookUp, Resolve, Recover, ResolveExisting
  <2> QED BY <2>1, <2>2, GotoUnseen, ResolveTells, FailTells
          DEF Errors, Authority!AbsNext
<1>2. CASE EvaluatePolicy(c)
  BY <1>2, SameBindings DEF EvaluatePolicy, Unseen, ledgerVars, tables
<1>3. CASE PreparationFails(c)
  BY <1>3, FailTells
     DEF PreparationFails, Errors, ledgerVars, tables, Authority!AbsNext
<1>4. CASE Begin(c) \/ InsertRequest(c) \/ LostRace(c) \/ InsertDecision(c)
             \/ InsertEffects(c) \/ CommitTx(c)
  BY <1>4, GotoUnseen
     DEF Begin, InsertRequest, LostRace, InsertDecision, InsertEffects,
         CommitTx, ledgerVars, tables, BeginTx, insertCommittedActionRequest,
         insertCommittedDecision, insertPolicyEffects, Rollback
<1>5. CASE BusyTimeout(c) \/ (~ ContextLive(c) /\ OperationFails(c))
  BY <1>5, OperationFailsTells
     DEF BusyTimeout, OperationFails, Authority!AbsNext
<1>6. CASE DecisionRejected(c) \/ EffectsRejected(c)
  BY <1>6, FailTells
     DEF DecisionRejected, EffectsRejected, Rollback, Errors, Authority!AbsNext
<1>7. CASE CommitDurable(c)
  BY <1>7, CommitBinds DEF CommitDurable, Commits, Authority!AbsNext
<1>8. CASE Return(c)
  BY <1>8, ReturnTells DEF Authority!AbsNext
<1> QED BY <1>1, <1>2, <1>3, <1>4, <1>5, <1>6, <1>7, <1>8 DEF Step

\* Every step of the environment maps to an abstract step.
LEMMA EnvironmentRefines ==
    ASSUME IInv, NEW c \in Calls, Environment(c)
    PROVE  Authority!AbsNext \/ Unseen
<1>1. CASE Submit(c)
  <2>1. PICK k \in Keys, d \in Digests :
          request' = [request EXCEPT ![c] = [key |-> k, digest |-> d]]
    BY <1>1 DEF Submit
  <2>2. request'[c] = [key |-> k, digest |-> d]
    BY <2>1 DEF IInv, TypeOK, CallTypeOK
  <2>3. request'[c] \in [key : Keys, digest : Digests]
    BY <2>2
  <2>4. request' = [request EXCEPT ![c] = request'[c]]
    BY <2>1, <2>2, Zenon
  <2>5. /\ request[c] = NoValue /\ outcome[c] = "none"
        /\ UNCHANGED <<Bindings, outcome, record>>
    BY <1>1, SameBindings
       DEF Submit, IInv, CallOK, ProgressOK, ledgerVars, tables
  <2> QED BY <2>3, <2>4, <2>5 DEF Authority!Ask, Authority!AbsNext
<1>2. CASE SubmitInvalid(c)
  BY <1>2, FailTells
     DEF SubmitInvalid, Errors, ledgerVars, tables, Authority!AbsNext
<1>3. CASE Cancel(c) \/ AwaitDone(c)
  BY <1>3, SameBindings
     DEF Cancel, AwaitDone, Rollback, callVars, ledgerVars, tables, Unseen
<1>4. CASE CommitUncertain(c)
  BY <1>4, CommitBinds DEF CommitUncertain, Commits, Authority!AbsNext
<1>5. CASE ContextLive(c) /\ OperationFails(c)
  BY <1>5, OperationFailsTells DEF Authority!AbsNext
<1> QED BY <1>1, <1>2, <1>3, <1>4, <1>5 DEF Environment

\* DecisionService implements AuthoritativeDecisions: the binding of a request
\* is made once, atomically, for a waiting caller, and every answer agrees
\* with it.
THEOREM Refinement == Spec => ImplementsAuthority
<1>1. Init => Authority!AbsInit
  BY DEF Init, LedgerInit, Authority!AbsInit, Bindings
<1>2. IInv /\ [Next]_vars => [Authority!AbsNext]_(Authority!absVars)
  <2> SUFFICES ASSUME IInv, [Next]_vars
               PROVE  Authority!AbsNext \/ Unseen
    BY DEF Unseen, Authority!absVars
  <2>1. CASE UNCHANGED vars
    BY <2>1, SameBindings DEF vars, ledgerVars, callVars, tables, Unseen
  <2>2. CASE Crash
    BY <2>2, SameBindings DEF Crash, LoseTransactions, Unseen
  <2> QED BY <2>1, <2>2, StepRefines, EnvironmentRefines DEF Next
<1> QED BY <1>1, <1>2, Invariance, PTL
        DEF Spec, ImplementsAuthority, Authority!AbsSpec
=============================================================================
