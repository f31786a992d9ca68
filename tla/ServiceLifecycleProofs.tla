------------------------ MODULE ServiceLifecycleProofs ------------------------
(***************************************************************************)
(* Proofs about the service process, for any set of clients and any number *)
(* of starts.                                                              *)
(***************************************************************************)
EXTENDS ServiceLifecycle, TLAPS

\* A handler holds the denial that follows from its own process only after both
\* Close calls, as the connection to policy is closed last.
OutageMeansClosed ==
    \A c \in Clients : verdict[c] = "own outage" => deferred = 0

\* A transaction was begun while the database was open, so it holds policy's
\* verdict and not that denial; a reply is about what is stored.
StagesAgree ==
    \A c \in Clients :
        /\ stage[c] = "idle" => verdict[c] = "none"
        /\ stage[c] = "store" => verdict[c] # "none"
        /\ stage[c] = "transaction" => verdict[c] = "policy's"
        /\ stage[c] = "reply" => ledger[c] = "policy's"

\* Requests come only to a process that serves or whose listener has failed.
AcceptingServes == accepting => process \in {"serving", "closing"}

\* An exit without error that is under way has no request left to answer, and
\* gets none.
SuccessIsDrained ==
    process = "closing" /\ exitCode = 0 => Active = {} /\ ~ accepting

\* The inductive invariant.  OwnOutageNeverStored is about the order of closing,
\* which OutageMeansClosed carries to the handlers and StagesAgree to commits.
IInv ==
    /\ TypeOK
    /\ OutageMeansClosed
    /\ StagesAgree
    /\ AcceptingServes
    /\ SuccessIsDrained
    /\ OwnOutageNeverStored
    /\ DecisionsToldAreStored

-----------------------------------------------------------------------------

\* The database is open exactly between its Open and the first deferred Close.
LEMMA OpenDatabaseMeansTwo ==
    ASSUME deferred \in 0 .. 2
    PROVE  Open("database") <=> deferred = 2
BY DEF Open, Resources

\* The connection to policy is open until the last deferred Close.
LEMMA OpenPolicyMeansOne ==
    ASSUME deferred \in 0 .. 2
    PROVE  Open("policy") <=> deferred >= 1
BY DEF Open, Resources

\* The process starts with nothing stored and nobody told.
LEMMA InitInv == Init => IInv
<1>. SUFFICES ASSUME Init PROVE IInv
  OBVIOUS
<1>1. signalled \in BOOLEAN /\ accepting \in BOOLEAN
  BY DEF Init
<1>2. Active = {}
  BY DEF Init, Active
<1>3. starts \in 0 .. MaxStarts
  BY StartsAssumption DEF Init
<1>4. TypeOK
  BY <1>1, <1>2, <1>3 DEF Init, TypeOK, ProcessStages, HandlerStages, Verdicts
<1>. QED
  BY <1>2, <1>4 DEF Init, IInv, OutageMeansClosed, StagesAgree,
    AcceptingServes, SuccessIsDrained, OwnOutageNeverStored, DecisionsToldAreStored

\* A stuttering step changes nothing that the invariant mentions.
LEMMA StutterInv == IInv /\ UNCHANGED vars => IInv'
<1>. SUFFICES ASSUME IInv, UNCHANGED vars PROVE IInv'
  OBVIOUS
<1>1. Active' = Active
  BY DEF vars, Active
<1>2. TypeOK'
  BY <1>1 DEF vars, IInv, TypeOK
<1>. QED
  BY <1>1, <1>2 DEF vars, IInv, OutageMeansClosed, StagesAgree,
    AcceptingServes, SuccessIsDrained, OwnOutageNeverStored, DecisionsToldAreStored

-----------------------------------------------------------------------------
(* The main goroutine                                                      *)

\* What run() does leaves alone the handlers and what they hold.
LEMMA RunKeepsHandlers ==
    ASSUME IInv, UNCHANGED clientVars
    PROVE  /\ Active' = Active
           /\ stage' \in [Clients -> HandlerStages]
           /\ verdict' \in [Clients -> Verdicts]
           /\ ledger' \in [Clients -> Verdicts]
           /\ told' \in [Clients -> {"nothing", "error", "decision"}]
           /\ StagesAgree'
           /\ OwnOutageNeverStored'
           /\ DecisionsToldAreStored'
<1>1. Active' = Active
  BY DEF clientVars, Active
<1>. QED
  BY <1>1 DEF clientVars, IInv, TypeOK, StagesAgree, OwnOutageNeverStored,
    DecisionsToldAreStored

\* A process without handlers holds no denial of its own.
LEMMA NoHandlerNoOutage ==
    ASSUME IInv, Active = {}
    PROVE  \A c \in Clients : verdict[c] = "none"
BY DEF IInv, StagesAgree, Active

LEMMA StartInv == IInv /\ Start => IInv'
<1>. SUFFICES ASSUME IInv, Start PROVE IInv'
  OBVIOUS
<1>1. signalled' \in BOOLEAN
  BY DEF Start
<1>2. starts' \in 0 .. MaxStarts
  BY StartsAssumption DEF Start, IInv, TypeOK
<1>3. TypeOK'
  BY <1>1, <1>2, RunKeepsHandlers DEF Start, IInv, TypeOK, ProcessStages
<1>. QED
  BY <1>3, RunKeepsHandlers DEF Start, IInv, OutageMeansClosed, AcceptingServes, SuccessIsDrained

\* A connection is opened for a process in which nobody holds a denial yet.
LEMMA OpeningInv == IInv /\ (OpenPolicy \/ OpenDatabase) => IInv'
<1>. SUFFICES ASSUME IInv, OpenPolicy \/ OpenDatabase PROVE IInv'
  OBVIOUS
<1>1. UNCHANGED <<signalled, exitCode, starts, clientVars>> /\ Active = {}
  BY DEF OpenPolicy, OpenDatabase, IInv, TypeOK
<1>2. signalled' \in BOOLEAN /\ accepting' \in BOOLEAN
  BY <1>1 DEF OpenPolicy, OpenDatabase, IInv, TypeOK
<1>3. TypeOK'
  BY <1>1, <1>2, RunKeepsHandlers DEF OpenPolicy, OpenDatabase, IInv, TypeOK, ProcessStages
<1>4. OutageMeansClosed'
  BY <1>1, NoHandlerNoOutage DEF clientVars, OutageMeansClosed
<1>. QED
  BY <1>1, <1>3, <1>4, RunKeepsHandlers DEF OpenPolicy, OpenDatabase, IInv, AcceptingServes, SuccessIsDrained

\* run() goes on, and what is open stays open.
LEMMA ServingInv ==
    IInv /\ (RunFails \/ Signal \/ Shutdown \/ Drained \/ ShutdownTimeout) => IInv'
<1>. SUFFICES ASSUME IInv, RunFails \/ Signal \/ Shutdown \/ Drained \/ ShutdownTimeout
              PROVE  IInv'
  OBVIOUS
<1>1. UNCHANGED <<deferred, starts, clientVars>> /\ signalled' \in BOOLEAN
  BY DEF RunFails, Signal, Shutdown, Drained, ShutdownTimeout, IInv, TypeOK
<1>2. TypeOK'
  BY <1>1, RunKeepsHandlers DEF RunFails, Signal, Shutdown, Drained, ShutdownTimeout,
    IInv, TypeOK, ProcessStages
<1>3. OutageMeansClosed'
  BY <1>1 DEF clientVars, IInv, OutageMeansClosed
<1>4. AcceptingServes'
  BY DEF RunFails, Signal, Shutdown, Drained, ShutdownTimeout, IInv, AcceptingServes
<1>5. SuccessIsDrained'
  <2>1. CASE Drained
    BY <1>1, <2>1, RunKeepsHandlers DEF Drained, IInv, AcceptingServes, SuccessIsDrained
  <2>2. CASE RunFails \/ Signal \/ Shutdown \/ ShutdownTimeout
    BY <2>2 DEF RunFails, Signal, Shutdown, ShutdownTimeout, SuccessIsDrained
  <2>. QED
    BY <2>1, <2>2
<1>. QED
  BY <1>1, <1>2, <1>3, <1>4, <1>5, RunKeepsHandlers DEF IInv

\* A Close leaves fewer resources open than there were.
LEMMA RunDeferredInv == IInv /\ RunDeferred => IInv'
<1>. SUFFICES ASSUME IInv, RunDeferred PROVE IInv'
  OBVIOUS
<1>1. signalled' \in BOOLEAN
  BY DEF RunDeferred, IInv, TypeOK
<1>2. process' = process /\ deferred' \in 0 .. 2 /\ deferred' = deferred - 1
  BY DEF RunDeferred, IInv, TypeOK
<1>3. TypeOK'
  BY <1>1, <1>2, RunKeepsHandlers DEF RunDeferred, IInv, TypeOK
<1>4. deferred # 0 /\ verdict' = verdict
  BY DEF RunDeferred, clientVars, IInv, TypeOK
<1>5. OutageMeansClosed'
  BY <1>4 DEF IInv, OutageMeansClosed
<1>. QED
  BY <1>3, <1>5, RunKeepsHandlers DEF RunDeferred, IInv, AcceptingServes, SuccessIsDrained

\* The end of the process takes its handlers along, and nothing that is stored.
LEMMA EndInv == IInv /\ (Exit \/ Crash) => IInv'
<1>. SUFFICES ASSUME IInv, Exit \/ Crash PROVE IInv'
  OBVIOUS
<1>1. /\ process' = "down"
      /\ deferred' = 0
      /\ signalled' \in BOOLEAN
      /\ ~ accepting' /\ accepting' \in BOOLEAN
      /\ exitCode' \in {0, 1}
      /\ starts' = starts
      /\ LoseHandlers
  BY DEF Exit, Crash, IInv, TypeOK
<1>2. Active' = {}
  BY <1>1 DEF LoseHandlers, Active
<1>3. /\ stage' \in [Clients -> HandlerStages]
      /\ verdict' \in [Clients -> Verdicts]
      /\ UNCHANGED <<ledger, told>>
  BY <1>1 DEF LoseHandlers, HandlerStages, Verdicts
<1>4. TypeOK'
  BY <1>1, <1>2, <1>3 DEF IInv, TypeOK, ProcessStages
<1>. QED
  BY <1>1, <1>2, <1>4 DEF LoseHandlers, IInv, OutageMeansClosed, StagesAgree,
    AcceptingServes, SuccessIsDrained, OwnOutageNeverStored, DecisionsToldAreStored

-----------------------------------------------------------------------------
(* Handlers                                                                *)

\* What a step of one client has to show for the invariant: s, v, l and t are the
\* client's stage, verdict, stored decision and answer after it.
LEMMA ClientStep ==
    ASSUME IInv,
           NEW c \in Clients,
           NEW s \in HandlerStages,
           NEW v \in Verdicts,
           NEW l \in Verdicts,
           NEW t \in {"nothing", "error", "decision"},
           UNCHANGED processVars,
           stage' = [stage EXCEPT ![c] = s],
           verdict' = [verdict EXCEPT ![c] = v],
           ledger' = [ledger EXCEPT ![c] = l],
           told' = [told EXCEPT ![c] = t],
           stage[c] # "idle" \/ accepting,
           v = "own outage" => deferred = 0,
           s = "idle" => v = "none",
           s = "store" => v # "none",
           s = "transaction" => v = "policy's",
           s = "reply" => l = "policy's",
           l # "own outage",
           t = "decision" => l = "policy's"
    PROVE  IInv'
<1>1. /\ process' = process /\ deferred' = deferred /\ signalled' = signalled
      /\ accepting' = accepting /\ exitCode' = exitCode /\ starts' = starts
  BY DEF processVars
<1>2. /\ stage \in [Clients -> HandlerStages]
      /\ verdict \in [Clients -> Verdicts]
      /\ ledger \in [Clients -> Verdicts]
      /\ told \in [Clients -> {"nothing", "error", "decision"}]
  BY DEF IInv, TypeOK
<1>3. /\ stage' \in [Clients -> HandlerStages]
      /\ verdict' \in [Clients -> Verdicts]
      /\ ledger' \in [Clients -> Verdicts]
      /\ told' \in [Clients -> {"nothing", "error", "decision"}]
  BY <1>2
<1>4. ASSUME Active = {}, ~ accepting PROVE FALSE
  BY <1>4 DEF Active
<1>5. TypeOK'
  BY <1>1, <1>3, <1>4 DEF IInv, TypeOK, AcceptingServes
<1>6. OutageMeansClosed'
  BY <1>1, <1>2 DEF IInv, OutageMeansClosed
<1>7. StagesAgree'
  BY <1>2 DEF IInv, StagesAgree
<1>8. AcceptingServes' /\ SuccessIsDrained'
  BY <1>1, <1>4 DEF IInv, AcceptingServes, SuccessIsDrained
<1>9. OwnOutageNeverStored' /\ DecisionsToldAreStored'
  BY <1>2 DEF IInv, OwnOutageNeverStored, DecisionsToldAreStored
<1>. QED
  BY <1>5, <1>6, <1>7, <1>8, <1>9 DEF IInv

\* What the invariant says of one client.
LEMMA ClientFacts ==
    ASSUME IInv, NEW c \in Clients
    PROVE  /\ stage[c] \in HandlerStages
           /\ verdict[c] \in Verdicts
           /\ ledger[c] \in Verdicts
           /\ told[c] \in {"nothing", "error", "decision"}
           /\ stage = [stage EXCEPT ![c] = stage[c]]
           /\ verdict = [verdict EXCEPT ![c] = verdict[c]]
           /\ ledger = [ledger EXCEPT ![c] = ledger[c]]
           /\ told = [told EXCEPT ![c] = told[c]]
           /\ verdict[c] = "own outage" => deferred = 0
           /\ stage[c] = "idle" => verdict[c] = "none"
           /\ stage[c] = "store" => verdict[c] # "none"
           /\ stage[c] = "transaction" => verdict[c] = "policy's"
           /\ stage[c] = "reply" => ledger[c] = "policy's"
           /\ ledger[c] # "own outage"
           /\ told[c] = "decision" => ledger[c] = "policy's"
           /\ deferred \in 0 .. 2
BY DEF IInv, TypeOK, OutageMeansClosed, StagesAgree, OwnOutageNeverStored,
    DecisionsToldAreStored

\* An error can be answered at any stage; a decision only when it is stored.
LEMMA AnswerInv ==
    ASSUME IInv,
           NEW c \in Clients,
           NEW t \in {"error", "decision"},
           stage[c] # "idle",
           t = "decision" => ledger[c] = "policy's",
           Answer(c, t)
    PROVE  IInv'
BY ClientFacts, ClientStep DEF Answer, Goto, HandlerStages, Verdicts

LEMMA RequestInv ==
    ASSUME IInv, NEW c \in Clients, Request(c) \/ ReadBody(c)
    PROVE  IInv'
BY ClientFacts, ClientStep DEF Request, ReadBody, Goto, HandlerStages, Verdicts

\* A handler goes to policy only without a stored decision.
LEMMA LookUpInv ==
    ASSUME IInv, NEW c \in Clients, LookUp(c)
    PROVE  IInv'
<1>1. CASE ~ Open("database")
  BY <1>1, AnswerInv DEF LookUp
<1>2. CASE Open("database")
  BY <1>2, ClientFacts, ClientStep DEF LookUp, Goto, HandlerStages, Verdicts
<1>. QED
  BY <1>1, <1>2

\* The adapter makes a denial of its own only after both Close calls.
LEMMA EvaluatePolicyInv ==
    ASSUME IInv, NEW c \in Clients, EvaluatePolicy(c)
    PROVE  IInv'
<1>1. Open("policy") <=> deferred >= 1
  BY ClientFacts, OpenPolicyMeansOne
<1>2. PICK v \in {"policy's", "own outage"} :
         /\ verdict' = [verdict EXCEPT ![c] = v]
         /\ v = "own outage" => deferred = 0
  <2>1. CASE Open("policy")
    BY <2>1 DEF EvaluatePolicy
  <2>2. CASE ~ Open("policy")
    <3>1. deferred \in 0 .. 2
      BY DEF IInv, TypeOK
    <3>2. deferred = 0
      BY <1>1, <2>2, <3>1
    <3>3. verdict' = [verdict EXCEPT ![c] = "own outage"]
      BY <2>2 DEF EvaluatePolicy
    <3>. QED
      BY <3>2, <3>3
  <2>. QED
    BY <2>1, <2>2
<1>3. /\ stage[c] = "policy"
      /\ stage' = [stage EXCEPT ![c] = "store"]
      /\ ledger' = [ledger EXCEPT ![c] = ledger[c]]
      /\ told' = [told EXCEPT ![c] = told[c]]
      /\ UNCHANGED processVars
  BY ClientFacts DEF EvaluatePolicy, Goto
<1>4. "store" \in HandlerStages /\ v \in Verdicts /\ v # "none"
  BY DEF HandlerStages, Verdicts
<1>. QED
  BY <1>2, <1>3, <1>4, ClientFacts, ClientStep

\* A transaction begins only while the database is open, and then the connection
\* to policy was open as well.
LEMMA BeginTxInv ==
    ASSUME IInv, NEW c \in Clients, BeginTx(c)
    PROVE  IInv'
<1>1. CASE ~ Open("database")
  BY <1>1, AnswerInv DEF BeginTx
<1>2. CASE Open("database")
  <2>1. deferred = 2
    BY <1>2, ClientFacts, OpenDatabaseMeansTwo
  <2>2. verdict[c] = "policy's"
    <3>1. stage[c] = "store"
      BY DEF BeginTx
    <3>2. verdict[c] \in Verdicts /\ verdict[c] # "none"
      BY <3>1, ClientFacts
    <3>3. deferred # 0
      BY <2>1
    <3>4. verdict[c] # "own outage"
      BY <3>3 DEF IInv, OutageMeansClosed
    <3>. QED
      BY <3>2, <3>4 DEF Verdicts
  <2>3. /\ stage[c] = "store"
        /\ stage' = [stage EXCEPT ![c] = "transaction"]
        /\ verdict' = [verdict EXCEPT ![c] = verdict[c]]
        /\ ledger' = [ledger EXCEPT ![c] = ledger[c]]
        /\ told' = [told EXCEPT ![c] = told[c]]
        /\ UNCHANGED processVars
    BY <1>2, ClientFacts DEF BeginTx, Goto
  <2>4. "transaction" \in HandlerStages
    BY DEF HandlerStages
  <2>. QED
    BY <2>2, <2>3, <2>4, ClientFacts, ClientStep
<1>. QED
  BY <1>1, <1>2

\* A commit stores what the transaction holds.
LEMMA CommitInv ==
    ASSUME IInv, NEW c \in Clients, Commit(c)
    PROVE  IInv'
<1>1. /\ stage[c] = "transaction"
      /\ verdict[c] = "policy's"
      /\ stage' = [stage EXCEPT ![c] = "reply"]
      /\ verdict' = [verdict EXCEPT ![c] = verdict[c]]
      /\ ledger' = [ledger EXCEPT ![c] = verdict[c]]
      /\ told' = [told EXCEPT ![c] = told[c]]
      /\ UNCHANGED processVars
  BY ClientFacts DEF Commit, Goto
<1>2. "reply" \in HandlerStages
  BY DEF HandlerStages
<1>. QED
  BY <1>1, <1>2, ClientFacts, ClientStep

\* So does one that is reported as an error.
LEMMA CommitUncertainInv ==
    ASSUME IInv, NEW c \in Clients, CommitUncertain(c)
    PROVE  IInv'
<1>1. /\ stage[c] = "transaction"
      /\ verdict[c] = "policy's"
      /\ stage' = [stage EXCEPT ![c] = "idle"]
      /\ verdict' = [verdict EXCEPT ![c] = "none"]
      /\ ledger' = [ledger EXCEPT ![c] = verdict[c]]
      /\ told' = [told EXCEPT ![c] = "error"]
      /\ UNCHANGED processVars
  BY ClientFacts DEF CommitUncertain, Goto
<1>2. "idle" \in HandlerStages /\ "none" \in Verdicts
  BY DEF HandlerStages, Verdicts
<1>. QED
  BY <1>1, <1>2, ClientFacts, ClientStep

\* An error is answered at any stage, a decision only from what is stored.
LEMMA EndOfHandlerInv ==
    ASSUME IInv, NEW c \in Clients, HandlerFails(c) \/ Reply(c)
    PROVE  IInv'
BY AnswerInv, ClientFacts DEF HandlerFails, Reply

-----------------------------------------------------------------------------

LEMMA NextInv == IInv /\ [Next]_vars => IInv'
<1>. SUFFICES ASSUME IInv, [Next]_vars PROVE IInv'
  OBVIOUS
<1>1. CASE UNCHANGED vars
  BY <1>1, StutterInv
<1>2. CASE Start
  BY <1>2, StartInv
<1>3. CASE Main
  BY <1>3, OpeningInv, ServingInv, RunDeferredInv, EndInv DEF Main
<1>4. CASE RunFails \/ Signal
  BY <1>4, ServingInv
<1>5. CASE Crash
  BY <1>5, EndInv
<1>6. ASSUME NEW c \in Clients, Request(c) \/ ReadBody(c) PROVE IInv'
  BY <1>6, RequestInv
<1>7. ASSUME NEW c \in Clients, Handle(c) PROVE IInv'
  BY <1>7, LookUpInv, EvaluatePolicyInv, BeginTxInv, CommitInv, CommitUncertainInv,
    EndOfHandlerInv DEF Handle
<1>. QED
  BY <1>1, <1>2, <1>3, <1>4, <1>5, <1>6, <1>7 DEF Next

LEMMA InvAlways == Spec => []IInv
BY InitInv, NextInv, PTL DEF Spec

\* Type correctness of the service process; in particular no handler exists in a
\* process that has not opened both resources.
THEOREM TypeCorrect == Spec => []TypeOK
<1>1. IInv => TypeOK
  BY DEF IInv
<1>. QED
  BY <1>1, InvAlways, PTL

\* The order in which run() defers its Close calls: no denial that follows from
\* the process's own shutdown is ever stored.
THEOREM OutageStaysOut == Spec => []OwnOutageNeverStored
<1>1. IInv => OwnOutageNeverStored
  BY DEF IInv
<1>. QED
  BY <1>1, InvAlways, PTL

\* Handlers cut off by the shutdown never answer with what is not stored.
THEOREM ToldIsStored == Spec => []DecisionsToldAreStored
<1>1. IInv => DecisionsToldAreStored
  BY DEF IInv
<1>. QED
  BY <1>1, InvAlways, PTL

\* Shutdown and the exit code: a process that exits without an error cuts off
\* no request.
THEOREM CleanExit == Spec => CleanExitLosesNobody
<1>. DEFINE Lossless == process # "down" /\ process' = "down" /\ exitCode' = 0 => Active = {}
<1>1. ASSUME IInv, [Next]_vars, process # "down", process' = "down", exitCode' = 0
      PROVE  Active = {}
  <2>1. Exit
    <3>1. CASE UNCHANGED vars \/ Start \/ RunFails \/ Signal \/ Crash
      <4>1. process' = process \/ process' \in {"configuring", "closing"} \/ exitCode' = 1
        BY <3>1 DEF Start, RunFails, Signal, Crash, vars
      <4>. QED
        BY <1>1, <4>1
    <3>2. CASE Main
      BY <1>1, <3>2 DEF Main, OpenPolicy, OpenDatabase, Shutdown, Drained, ShutdownTimeout,
        RunDeferred
    <3>3. ASSUME NEW c \in Clients, Request(c) \/ ReadBody(c) \/ Handle(c)
          PROVE  process' = process
      BY <3>3 DEF Request, ReadBody, Handle, LookUp, EvaluatePolicy, BeginTx, Commit,
        CommitUncertain, HandlerFails, Reply, Answer, processVars
    <3>. QED
      BY <1>1, <3>1, <3>2, <3>3 DEF Next
  <2>. QED
    BY <1>1, <2>1 DEF Exit, IInv, SuccessIsDrained
<1>2. IInv /\ [Next]_vars => [Lossless]_vars
  BY <1>1
<1>. QED
  BY <1>2, InvAlways, PTL DEF Spec, CleanExitLosesNobody
=============================================================================
