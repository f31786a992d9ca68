--------------------------- MODULE ServiceLifecycle ---------------------------
(***************************************************************************)
(* The service process: run() of main.go from configuration to exit, with  *)
(* the requests that are under way when it is told to stop, when its       *)
(* listener fails, when it dies, and when it is started again.  Policy is  *)
(* Osprey over a connection that run() opens and closes.                   *)
(*                                                                         *)
(* A client has one request and sends it until it is told a decision.      *)
(* DecisionService models what one call does to the ledger step by step;   *)
(* here it is as coarse as the resources it needs.                         *)
(***************************************************************************)
EXTENDS Naturals, Sequences

CONSTANTS
    Clients,
    MaxStarts       \* bound on the starts of the process

ASSUME StartsAssumption == MaxStarts \in Nat

VARIABLES
    process,    \* how far run() is
    deferred,   \* the number of Close calls that are deferred
    accepting,  \* connections deliver new requests to handlers
    signalled,  \* SIGTERM or SIGINT was received
    exitCode,   \* what run() is going to return, or the process returned
    starts,
    stage,      \* what a client's handler does next; "idle" without one
    verdict,    \* the evaluation a handler holds
    ledger,     \* the decision stored for a client's request
    told        \* what the client was told last

processVars == <<process, deferred, accepting, signalled, exitCode, starts>>
clientVars == <<stage, verdict, ledger, told>>
vars == <<process, deferred, accepting, signalled, exitCode, starts,
          stage, verdict, ledger, told>>

ProcessStages == {"down", "configuring", "opening", "serving", "draining", "closing"}
HandlerStages == {"idle", "body", "lookup", "policy", "store", "transaction", "reply"}

\* An evaluation is policy's own, or the fail-closed denial that the adapter
\* makes when this process has closed its connection.
Verdicts == {"none", "policy's", "own outage"}

Init ==
    /\ process = "down"
    /\ deferred = 0
    /\ accepting = FALSE
    /\ signalled = FALSE
    /\ exitCode = 0
    /\ starts = 0
    /\ stage = [c \in Clients |-> "idle"]
    /\ verdict = [c \in Clients |-> "none"]
    /\ ledger = [c \in Clients |-> "none"]
    /\ told = [c \in Clients |-> "nothing"]

\* The other order of the two: the database is opened first.
DatabaseFirst == <<"database", "policy">>

\* What run() opens, in this order; each Close is deferred, so they are closed
\* in the opposite order.
Resources == <<"policy", "database">>

Open(resource) == \E i \in 1 .. deferred : Resources[i] = resource

Active == {c \in Clients : stage[c] # "idle"}

-----------------------------------------------------------------------------
(* run()                                                                   *)

Start ==
    /\ process = "down"
    /\ starts < MaxStarts
    /\ starts' = starts + 1
    /\ process' = "configuring"
    /\ deferred' = 0
    /\ signalled' = FALSE
    /\ exitCode' = 0
    /\ UNCHANGED <<accepting, clientVars>>

\* The listener is started before the database is opened.
ListenBeforeDatabase ==
    /\ process = "configuring"
    /\ process' = "opening"
    /\ deferred' = 1
    /\ accepting' = TRUE
    /\ UNCHANGED <<signalled, exitCode, starts, clientVars>>

\* configurePolicyEvaluator and the deferred closePolicyEvaluator.
OpenPolicy ==
    /\ process = "configuring"
    /\ process' = "opening"
    /\ deferred' = 1
    /\ UNCHANGED <<accepting, signalled, exitCode, starts, clientVars>>

\* sqlite.Open and the deferred Close; then the listener is started.
OpenDatabase ==
    /\ process = "opening"
    /\ process' = "serving"
    /\ deferred' = 2
    /\ accepting' = TRUE
    /\ UNCHANGED <<signalled, exitCode, starts, clientVars>>

\* run() returns before it serves, or the listener returns an error: at once or
\* with requests under way.  Connections that were accepted before stay, and can
\* bring further requests until the process is gone.
RunFails ==
    /\ process \in {"configuring", "opening", "serving"}
    /\ process' = "closing"
    /\ exitCode' = 1
    /\ UNCHANGED <<accepting, deferred, signalled, starts, clientVars>>

\* Before NotifyContext a signal kills the process; that is Crash.
Signal ==
    /\ process = "serving"
    /\ ~ signalled
    /\ signalled' = TRUE
    /\ UNCHANGED <<accepting, process, deferred, exitCode, starts, clientVars>>

\* Shutdown closes the listener and the idle connections.
Shutdown ==
    /\ process = "serving"
    /\ signalled
    /\ process' = "draining"
    /\ accepting' = FALSE
    /\ UNCHANGED <<deferred, signalled, exitCode, starts, clientVars>>

\* Shutdown returns although requests are under way.
DrainedAtOnce ==
    /\ process = "draining"
    /\ process' = "closing"
    /\ UNCHANGED <<accepting, deferred, signalled, exitCode, starts, clientVars>>

\* Shutdown returns nil once no connection is active.
Drained ==
    /\ process = "draining"
    /\ Active = {}
    /\ process' = "closing"
    /\ UNCHANGED <<accepting, deferred, signalled, exitCode, starts, clientVars>>

\* Shutdown never gives up.
NoShutdownTimeout ==
    /\ FALSE
    /\ UNCHANGED vars

\* Ten seconds are over and Shutdown returns an error.
ShutdownTimeout ==
    /\ process = "draining"
    /\ Active # {}
    /\ process' = "closing"
    /\ exitCode' = 1
    /\ UNCHANGED <<accepting, deferred, signalled, starts, clientVars>>

\* The next deferred Close.
RunDeferred ==
    /\ process = "closing"
    /\ deferred > 0
    /\ deferred' = deferred - 1
    /\ UNCHANGED <<accepting, process, signalled, exitCode, starts, clientVars>>

\* What was under way is gone, open transactions included.
LoseHandlers ==
    /\ stage' = [c \in Clients |-> "idle"]
    /\ verdict' = [c \in Clients |-> "none"]
    /\ UNCHANGED <<ledger, told>>

\* main returns or calls os.Exit(1); handlers are not waited for.
Exit ==
    /\ process = "closing"
    /\ deferred = 0
    /\ process' = "down"
    /\ accepting' = FALSE
    /\ signalled' = FALSE
    /\ LoseHandlers
    /\ UNCHANGED <<deferred, exitCode, starts>>

Crash ==
    /\ process # "down"
    /\ process' = "down"
    /\ deferred' = 0
    /\ accepting' = FALSE
    /\ signalled' = FALSE
    /\ exitCode' = 1
    /\ LoseHandlers
    /\ UNCHANGED starts

-----------------------------------------------------------------------------
(* Requests.  Handlers run until the process is gone, closed or not.       *)

Goto(c, s) == stage' = [stage EXCEPT ![c] = s]

\* The handler returns; the client reads the answer.
Answer(c, answer) ==
    /\ Goto(c, "idle")
    /\ verdict' = [verdict EXCEPT ![c] = "none"]
    /\ told' = [told EXCEPT ![c] = answer]
    /\ UNCHANGED <<ledger, processVars>>

\* A connection is accepted, or one that is kept alive brings the next request;
\* Shutdown waits for new connections as well.
Request(c) ==
    /\ accepting
    /\ stage[c] = "idle"
    /\ told[c] # "decision"
    /\ Goto(c, "body")
    /\ UNCHANGED <<verdict, ledger, told, processVars>>

\* There is a timeout for headers and none for bodies: a client may take as
\* long as it likes.
ReadBody(c) ==
    /\ stage[c] = "body"
    /\ Goto(c, "lookup")
    /\ UNCHANGED <<verdict, ledger, told, processVars>>

\* A closed database refuses queries.
LookUp(c) ==
    /\ stage[c] = "lookup"
    /\ IF ~ Open("database") THEN Answer(c, "error")
       ELSE /\ Goto(c, IF ledger[c] = "none" THEN "policy" ELSE "reply")
            /\ UNCHANGED <<verdict, ledger, told, processVars>>

\* ProcessAction ends with an error when the connection is closed, under way or
\* not, and the adapter fails closed.
EvaluatePolicy(c) ==
    /\ stage[c] = "policy"
    /\ verdict' = [verdict EXCEPT ![c] = IF Open("policy") THEN "policy's" ELSE "own outage"]
    /\ Goto(c, "store")
    /\ UNCHANGED <<ledger, told, processVars>>

\* A closed database begins no transaction.
BeginTx(c) ==
    /\ stage[c] = "store"
    /\ IF ~ Open("database") THEN Answer(c, "error")
       ELSE /\ Goto(c, "transaction")
            /\ UNCHANGED <<verdict, ledger, told, processVars>>

\* Close leaves the connection of an open transaction to the transaction.
Commit(c) ==
    /\ stage[c] = "transaction"
    /\ ledger' = [ledger EXCEPT ![c] = verdict[c]]
    /\ Goto(c, "reply")
    /\ UNCHANGED <<verdict, told, processVars>>

\* The commit was made and the handler is told that it was not.
CommitUncertain(c) ==
    /\ stage[c] = "transaction"
    /\ ledger' = [ledger EXCEPT ![c] = verdict[c]]
    /\ Goto(c, "idle")
    /\ verdict' = [verdict EXCEPT ![c] = "none"]
    /\ told' = [told EXCEPT ![c] = "error"]
    /\ UNCHANGED processVars

\* A commit that failed is answered like one that did not.
CommitErrorIgnored(c) ==
    /\ stage[c] = "transaction"
    /\ Goto(c, "reply")
    /\ UNCHANGED <<verdict, ledger, told, processVars>>

\* The body cannot be read, the client is gone, or a query, the evaluation or the
\* transaction fails.
HandlerFails(c) ==
    /\ stage[c] \in {"body", "lookup", "policy", "store", "transaction"}
    /\ Answer(c, "error")

Reply(c) ==
    /\ stage[c] = "reply"
    /\ Answer(c, "decision")

\* What the main goroutine does by itself.
Main ==
    \/ OpenPolicy
    \/ OpenDatabase
    \/ Shutdown
    \/ Drained
    \/ ShutdownTimeout
    \/ RunDeferred
    \/ Exit

\* What a handler does by itself once it has the request.
Handle(c) ==
    \/ LookUp(c)
    \/ EvaluatePolicy(c)
    \/ BeginTx(c)
    \/ Commit(c)
    \/ CommitUncertain(c)
    \/ HandlerFails(c)
    \/ Reply(c)

Next ==
    \/ Start
    \/ Main
    \/ RunFails
    \/ Signal
    \/ Crash
    \/ \E c \in Clients : Request(c) \/ ReadBody(c) \/ Handle(c)

Spec == Init /\ [][Next]_vars

\* The main goroutine keeps running.  Nothing is assumed of clients or handlers.
FairSpec == Spec /\ WF_vars(Main)

-----------------------------------------------------------------------------
(* Properties                                                              *)

\* Type invariant: the number of deferred calls says how far run() is, and
\* handlers exist only in a process that has served.
TypeOK ==
    /\ process \in ProcessStages
    /\ deferred \in 0 .. 2
    /\ process \in {"down", "configuring"} => deferred = 0
    /\ process = "opening" => deferred = 1
    /\ process \in {"serving", "draining"} => deferred = 2
    /\ accepting \in BOOLEAN
    /\ signalled \in BOOLEAN
    /\ exitCode \in {0, 1}
    /\ starts \in 0 .. MaxStarts
    /\ stage \in [Clients -> HandlerStages]
    /\ verdict \in [Clients -> Verdicts]
    /\ ledger \in [Clients -> Verdicts]
    /\ told \in [Clients -> {"nothing", "error", "decision"}]
    /\ process \in {"down", "configuring", "opening"} => Active = {}

\* The order of the deferred Close calls: a denial that only says that this very
\* process had closed its connection to policy is never stored, or it would be
\* the permanent answer to the request after the restart.
OwnOutageNeverStored == \A c \in Clients : ledger[c] # "own outage"

\* While the database is being closed under it, and across crashes and restarts,
\* a handler answers with a decision only if policy's verdict is stored.
DecisionsToldAreStored ==
    \A c \in Clients : told[c] = "decision" => ledger[c] = "policy's"

\* Shutdown: a process that reports success on exit has answered every request it
\* accepted.  Whoever was cut off finds a process that exited with an error.
CleanExitLosesNobody ==
    [][process # "down" /\ process' = "down" /\ exitCode' = 0 => Active = {}]_vars

\* A process that is told to stop stops, although a client that does not finish
\* its body can hold its handler for ever.
StopsWhenTold == signalled ~> process = "down"
=============================================================================
