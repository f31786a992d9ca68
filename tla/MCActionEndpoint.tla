--------------------------- MODULE MCActionEndpoint ---------------------------
(***************************************************************************)
(* Requests for TLC: three actions, one per type, and what becomes of them *)
(* when one fact is spelled differently, changed, or spoiled.  Every       *)
(* request is paired with the status it deserves.                          *)
(***************************************************************************)
EXTENDS ActionEndpoint

\* Texts at, and one byte past, each of the code's limits.
MCLength ==
    [t \in {"", "BEARER", "t1", "t2", "r1", "r2", "q1", "q2", "NUL q", "a", "b", "sha",
            "INTERNAL", "EXTERNAL", "PRIVATE", "SHARED", "PUBLIC", "SOFT", "HARD",
            "USER_INSTRUCTION", "DELEGATION_GRANT", "SECRET",
            "128 bytes", "129 bytes", "256 bytes", "257 bytes", "320 bytes", "321 bytes"} |->
        CASE t = "" -> 0
          [] t = "128 bytes" -> 128
          [] t = "129 bytes" -> 129
          [] t = "256 bytes" -> 256
          [] t = "257 bytes" -> 257
          [] t = "320 bytes" -> 320
          [] t = "321 bytes" -> 321
          [] OTHER -> 8]

MCDigestTexts == {"sha"}

Id(t) == [text |-> t, padded |-> FALSE, lower |-> TRUE]
Padded(s) == [s EXCEPT !.padded = TRUE]
Lower(s) == [s EXCEPT !.lower = TRUE]

MCCredentials ==
    {[token |-> Padded(Id("t1")), runtimeID |-> Id("r1")],
     [token |-> Id("t2"), runtimeID |-> Padded(Id("r2"))]}

User(t) == [type |-> "USER", id |-> Id(t)]

SendParameters ==
    [type |-> "EXTERNAL_SEND", destinationScope |-> Text("EXTERNAL"),
     recipients |-> <<Id("a"), Id("b")>>]

AccessParameters ==
    [type |-> "UPDATE_RESOURCE_ACCESS", currentScope |-> Text("PRIVATE"),
     requestedScope |-> Text("SHARED"), targetPrincipals |-> <<User("a"), User("b")>>]

DeleteParameters ==
    [type |-> "DELETE", deleteMode |-> Text("SOFT"), recoverable |-> TRUE]

Item(type, id) ==
    [type |-> Text(type), id |-> Id(id), issuedBy |-> User("a"),
     scope |-> [actionType |-> "DELETE", destinationScope |-> Empty,
                requestedScope |-> Empty, deleteMode |-> Text("SOFT")]]

First == Item("USER_INSTRUCTION", "a")
Second == Item("USER_INSTRUCTION", "b")

Action(parameters) ==
    [type |-> parameters.type,
     requestedAt |-> [wall |-> 3, offset |-> 0],
     actor |-> [agentID |-> Id("a"), runtimeID |-> Empty, sessionID |-> Empty],
     delegation |-> [id |-> Id("a"), delegator |-> User("a")],
     target |-> [resourceType |-> Id("a"), resourceID |-> Id("a")],
     parameters |-> parameters,
     payload |-> [digest |-> Id("sha"), classification |-> <<>>, sizeBytes |-> <<>>],
     evidence |-> IF parameters.type = "DELETE" THEN <<First, Second>> ELSE <<>>]

SendAction == Action(SendParameters)
AccessAction == Action(AccessParameters)
DeleteAction == Action(DeleteParameters)

-----------------------------------------------------------------------------
(* One fact at a time.  The action stays acceptable, whether it now means  *)
(* the same or something else.                                             *)

GoodIdentifiers == {Padded(Id("a")), Text("a"), Id("b"), Id("256 bytes")}

GoodParameters ==
    {[SendParameters EXCEPT !.destinationScope = s] :
        s \in {Padded(Lower(Text("EXTERNAL"))), Text("INTERNAL")}}
    \cup {[SendParameters EXCEPT !.recipients = l] :
        l \in {<<Id("b"), Padded(Id("a"))>>, <<Id("a"), Id("b"), Id("a")>>,
               <<Id("a")>>, <<Id("a"), Text("b")>>, <<Id("320 bytes")>>}}
    \cup {[AccessParameters EXCEPT !.requestedScope = s] :
        s \in {Lower(Text("SHARED")), Text("PUBLIC"), Text("128 bytes")}}
    \cup {[AccessParameters EXCEPT !.targetPrincipals = l] :
        l \in {<<User("b"), User("a"), User("b")>>, <<User("a")>>,
               <<User("a"), [User("b") EXCEPT !.type = "AGENT"]>>}}
    \cup {[AccessParameters EXCEPT !.requestedScope = Text("PUBLIC"), !.targetPrincipals = <<>>],
          [AccessParameters EXCEPT !.currentScope = Text("PUBLIC")],
          [DeleteParameters EXCEPT !.deleteMode = Padded(Lower(Text("SOFT")))],
          [DeleteParameters EXCEPT !.deleteMode = Text("HARD")],
          [DeleteParameters EXCEPT !.recoverable = FALSE]}

GoodEvidence ==
    {<<>>, <<Second, First>>, <<First, Second, First>>, <<First>>,
     <<First, [Second EXCEPT !.id = Padded(@)]>>,
     <<First, [Second EXCEPT !.type = Padded(Lower(@))]>>,
     <<First, [Second EXCEPT !.type = Text("DELEGATION_GRANT")]>>,
     <<First, [Second EXCEPT !.issuedBy = User("b")]>>,
     <<First, [Second EXCEPT !.scope.deleteMode = Text("HARD")]>>,
     <<First, [Second EXCEPT !.scope.requestedScope = Text("PUBLIC")]>>,
     <<First, [Second EXCEPT !.scope.actionType = "EXTERNAL_SEND",
                             !.scope.destinationScope = Text("INTERNAL")]>>,
     <<First, Item("DELEGATION_GRANT", "a")>>}

\* One instant in two zones, its neighbours, and both ends of the calendar, from
\* which two of the offsets lead outside.
GoodTimes ==
    {[wall |-> 4, offset |-> 1], [wall |-> 3, offset |-> 1], [wall |-> 3, offset |-> -1]}
    \cup [wall : {0}, offset : {0, 1}]
    \cup [wall : {LastTime}, offset : -1..1]

GoodActions ==
    {SendAction, AccessAction, DeleteAction}
    \cup {Action(p) : p \in GoodParameters}
    \cup {[SendAction EXCEPT !.actor.agentID = s] : s \in GoodIdentifiers}
    \cup {[SendAction EXCEPT !.actor.sessionID = s] :
            s \in {Padded(Empty), Id("a"), Padded(Id("a"))}}
    \cup {[SendAction EXCEPT !.actor.runtimeID = s] : s \in {Id("r1"), Padded(Id("r1"))}}
    \cup {[SendAction EXCEPT !.delegation.id = s] : s \in {Padded(Id("a")), Id("b")}}
    \cup {[SendAction EXCEPT !.delegation.delegator.type = "SERVICE"]}
    \cup {[SendAction EXCEPT !.target.resourceType = s] :
            s \in {Padded(Id("a")), Id("128 bytes")}}
    \cup {[SendAction EXCEPT !.target.resourceID = Id("b")]}
    \cup {[SendAction EXCEPT !.payload.digest = Padded(@)]}
    \cup {[SendAction EXCEPT !.payload.classification = l] :
            l \in {<<Text("a")>>, <<Padded(Text("a"))>>, <<Text("a"), Text("a")>>,
                   <<Id("a")>>, <<Text("128 bytes")>>}}
    \cup {[SendAction EXCEPT !.payload.sizeBytes = n] : n \in {<<0>>, <<1>>}}
    \cup {[SendAction EXCEPT !.requestedAt = t] : t \in GoodTimes}
    \cup {[DeleteAction EXCEPT !.evidence = l] : l \in GoodEvidence}
    \cup {[DeleteAction EXCEPT !.evidence = <<First, Item("DELEGATION_GRANT", "a")>>,
                               !.payload.classification = <<Text("SECRET")>>]}

-----------------------------------------------------------------------------
(* One fact spoiled: 422.                                                  *)

BadIdentifiers == {Empty, Padded(Empty), Id("257 bytes")}

BadActions ==
    {[SendAction EXCEPT !.actor.agentID = s] : s \in BadIdentifiers}
    \cup {[SendAction EXCEPT !.actor.sessionID = Id("257 bytes")],
          [SendAction EXCEPT !.delegation.id = Empty],
          [SendAction EXCEPT !.delegation.delegator.type = "user"],
          [SendAction EXCEPT !.delegation.delegator.id = Empty],
          [SendAction EXCEPT !.target.resourceType = Id("129 bytes")],
          [SendAction EXCEPT !.target.resourceID = Empty],
          [SendAction EXCEPT !.payload.digest = Text("sha")],
          [SendAction EXCEPT !.payload.digest = Empty],
          [SendAction EXCEPT !.payload.classification = <<Empty>>],
          [SendAction EXCEPT !.payload.classification = <<Text("129 bytes")>>],
          [SendAction EXCEPT !.payload.classification = <<Text("a"), Text("a"), Text("a")>>],
          [SendAction EXCEPT !.payload.sizeBytes = <<-1>>],
          [SendAction EXCEPT !.requestedAt = [wall |-> 1, offset |-> 0]],
          [SendAction EXCEPT !.requestedAt = [wall |-> 2, offset |-> 1]]}
    \cup {[SendAction EXCEPT !.parameters = p] :
            p \in {[SendParameters EXCEPT !.destinationScope = Text("PUBLIC")],
                   [SendParameters EXCEPT !.recipients = <<>>],
                   [SendParameters EXCEPT !.recipients = <<Id("321 bytes")>>],
                   [SendParameters EXCEPT !.recipients =
                        <<Id("a"), Id("b"), Id("a"), Id("b")>>]}}
    \cup {[AccessAction EXCEPT !.parameters = p] :
            p \in {[AccessParameters EXCEPT !.currentScope = Lower(Text("SHARED"))],
                   [AccessParameters EXCEPT !.requestedScope = Text("129 bytes")],
                   [AccessParameters EXCEPT !.targetPrincipals = <<>>],
                   [AccessParameters EXCEPT !.targetPrincipals = <<[type |-> "", id |-> Id("a")]>>]}}
    \cup {[DeleteAction EXCEPT !.parameters.deleteMode = Text("PUBLIC")]}
    \cup {[DeleteAction EXCEPT !.evidence = l] :
            l \in {<<First, [First EXCEPT !.issuedBy = User("b")]>>,
                   <<First, Second, First, Second>>,
                   <<[First EXCEPT !.type = Text("PUBLIC")]>>,
                   <<[First EXCEPT !.scope.actionType = "delete"]>>,
                   <<[First EXCEPT !.scope.actionType = "UPDATE_RESOURCE_ACCESS"]>>}}

-----------------------------------------------------------------------------
(* Requests                                                                *)

Header(token) == <<Lower(Text("BEARER")), Id(token)>>

Request(a) ==
    [header |-> Header("t1"), wellFormed |-> TRUE, apiVersion |-> "v1",
     requestID |-> Id("q1"), action |-> a]

Base == Request(SendAction)

Foreign(id) == [Base EXCEPT !.action.actor.runtimeID = Id(id)]

Tagged(requests, status) == {<<r, status>> : r \in requests}

TaggedRequests ==
    Tagged({Request(a) : a \in GoodActions}, 200)
    \cup Tagged({[Base EXCEPT !.requestID = s] :
                    s \in {Padded(Id("q1")), Text("q1"), Id("q2"), Id("NUL q"), Id("256 bytes")}}
                \cup {[Base EXCEPT !.header = Header("t2")],
                      [Foreign("r2") EXCEPT !.header = Header("t2")],
                      [Base EXCEPT !.header[1] = ToUpper(@)]}, 200)
    \cup Tagged({Request(a) : a \in BadActions}
                \cup {[Base EXCEPT !.requestID = s] : s \in BadIdentifiers}
                \cup {[Foreign("r2") EXCEPT !.requestID = Empty]}, 422)
    \cup Tagged({[Base EXCEPT !.header = h] :
                    h \in {<<>>, <<Text("BEARER")>>, <<Text("a"), Id("t1")>>,
                           <<Text("BEARER"), Text("t1")>>,
                           <<Text("BEARER"), Id("t1"), Id("t2")>>}}, 401)
    \cup Tagged({[Base EXCEPT !.wellFormed = FALSE],
                 [Base EXCEPT !.apiVersion = "v2"],
                 [Base EXCEPT !.action.type = "DELETE"],
                 [Base EXCEPT !.action.type = "external_send"]}, 400)
    \cup Tagged({Foreign("r2"), [Foreign("r2") EXCEPT !.action.actor.agentID = Empty],
                 [Foreign("r1") EXCEPT !.header = Header("t2")],
                 [Base EXCEPT !.action.actor.runtimeID = Text("r1")]}, 403)

MCRequests == {t[1] : t \in TaggedRequests}

MCDeserved ==
    [r \in MCRequests |-> (CHOOSE t \in TaggedRequests : t[1] = r)[2]]
=============================================================================
