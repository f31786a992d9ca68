--------------------------- MODULE ActionNormalizer ---------------------------
(***************************************************************************)
(* From the action a client spells out to the normalized action, its       *)
(* canonical form (what the digest is computed over and what is stored),   *)
(* and back from the stored form.                                          *)
(*                                                                         *)
(* A string is a text with a spelling: padded with white space or not, and *)
(* in lower or in upper case.  A time is what a clock in some zone showed, *)
(* and the zone's offset.                                                  *)
(***************************************************************************)
EXTENDS Integers, Sequences, FiniteSets, SequencesExt

CONSTANTS
    Length,         \* the texts there are, with their lengths in bytes
    DigestTexts,    \* those that read sha256: and 64 hexadecimal digits
    MaxItems,       \* most items of a list; the code says 100
    MaxLabels,      \* most classification labels; the code says 32
    LastTime        \* end of the year 9999; the year 0 begins at 0

ASSUME LengthAssumption ==
    /\ DOMAIN Length \subseteq STRING
    /\ \A t \in DOMAIN Length : Length[t] \in Nat
    /\ "" \in DOMAIN Length /\ Length[""] = 0
ASSUME LimitsAssumption == MaxItems \in Nat /\ MaxLabels \in Nat
ASSUME TimeAssumption == LastTime \in Nat \ {0, 1}

ActionTypes == {"EXTERNAL_SEND", "UPDATE_RESOURCE_ACCESS", "DELETE"}
PrincipalTypes == {"USER", "AGENT", "RUNTIME", "SERVICE"}

Text(t) == [text |-> t, padded |-> FALSE, lower |-> FALSE]
Empty == Text("")

TrimSpace(s) == [text |-> s.text, padded |-> FALSE, lower |-> s.lower]
ToUpper(s) == [text |-> s.text, padded |-> s.padded, lower |-> FALSE]

-----------------------------------------------------------------------------
(* What a request may hold (types of dto.go and of the normalizer's input) *)

Strings == [text : DOMAIN Length, padded : BOOLEAN, lower : BOOLEAN]

Times == [wall : 0..LastTime, offset : -1..1]

PrincipalInputs == [type : STRING, id : Strings]

ScopeInputs ==
    [actionType : STRING, destinationScope : Strings, requestedScope : Strings,
     deleteMode : Strings]

ParametersInputs ==
    [type : {"EXTERNAL_SEND"}, destinationScope : Strings, recipients : Seq(Strings)]
    \cup [type : {"UPDATE_RESOURCE_ACCESS"}, currentScope : Strings,
          requestedScope : Strings, targetPrincipals : Seq(PrincipalInputs)]
    \cup [type : {"DELETE"}, deleteMode : Strings, recoverable : BOOLEAN]

ProposedActionInputs ==
    [type : STRING,
     requestedAt : Times,
     actor : [agentID : Strings, runtimeID : Strings, sessionID : Strings],
     delegation : [id : Strings, delegator : PrincipalInputs],
     target : [resourceType : Strings, resourceID : Strings],
     parameters : ParametersInputs,
     payload : [digest : Strings, classification : Seq(Strings), sizeBytes : Seq(Int)],
     evidence : Seq([type : Strings, id : Strings, issuedBy : PrincipalInputs,
                     scope : ScopeInputs])]

-----------------------------------------------------------------------------
(* Identifiers, vocabularies, principals                                   *)

ValidIdentifier(s) ==
    TrimSpace(s) # Empty /\ Length[s.text] <= 256

ValidOptionalIdentifier(s) == Length[s.text] <= 256

\* The parsers of a closed vocabulary: ParseDestinationScope and its like.
Vocable(s) == ToUpper(TrimSpace(s))

ValidDestinationScope(s) == Vocable(s) \in {Text("INTERNAL"), Text("EXTERNAL")}

ValidAccessScope(s) == Vocable(s) # Empty /\ Length[s.text] <= 128

ValidDeleteMode(s) == Vocable(s) \in {Text("SOFT"), Text("HARD")}

ValidEvidenceType(s) ==
    Vocable(s) \in {Text("USER_INSTRUCTION"), Text("DELEGATION_GRANT"),
                    Text("SYSTEM_ASSERTION")}

ValidPrincipal(p) == p.type \in PrincipalTypes /\ ValidIdentifier(p.id)

NewPrincipal(p) == [type |-> p.type, id |-> TrimSpace(p.id)]

-----------------------------------------------------------------------------
(* Parameters and payload.  A normalized list is sorted and without        *)
(* repetitions, so it is a set.                                            *)

ValidStrings(values, maximumItems, maximumLength) ==
    /\ Len(values) <= maximumItems
    /\ \A s \in ToSet(values) :
         TrimSpace(s) # Empty /\ Length[s.text] <= maximumLength

\* The values are compared and kept as the client spelled them.
untrimmedStrings(values) == ToSet(values)

normalizeStrings(values) == {TrimSpace(s) : s \in ToSet(values)}

normalizePrincipals(values) == {NewPrincipal(p) : p \in ToSet(values)}

ValidParameters(p) ==
    CASE p.type = "EXTERNAL_SEND" ->
           /\ ValidDestinationScope(p.destinationScope)
           /\ ValidStrings(p.recipients, MaxItems, 320)
           /\ p.recipients # <<>>
      [] p.type = "UPDATE_RESOURCE_ACCESS" ->
           /\ ValidAccessScope(p.currentScope)
           /\ ValidAccessScope(p.requestedScope)
           /\ Vocable(p.currentScope) # Vocable(p.requestedScope)
           /\ Len(p.targetPrincipals) <= MaxItems
           /\ \A x \in ToSet(p.targetPrincipals) : ValidPrincipal(x)
           /\ Vocable(p.requestedScope) = Text("SHARED") => p.targetPrincipals # <<>>
      [] p.type = "DELETE" -> ValidDeleteMode(p.deleteMode)

normalizeParameters(p) ==
    CASE p.type = "EXTERNAL_SEND" ->
           [type |-> p.type,
            destinationScope |-> Vocable(p.destinationScope),
            recipients |-> normalizeStrings(p.recipients)]
      [] p.type = "UPDATE_RESOURCE_ACCESS" ->
           [type |-> p.type,
            currentScope |-> Vocable(p.currentScope),
            requestedScope |-> Vocable(p.requestedScope),
            targetPrincipals |-> normalizePrincipals(p.targetPrincipals)]
      [] p.type = "DELETE" ->
           [type |-> p.type,
            deleteMode |-> Vocable(p.deleteMode),
            recoverable |-> p.recoverable]

\* Hexadecimal digits are accepted in lower case only.
ValidDigest(s) == s.text \in DigestTexts /\ s.lower /\ ~ s.padded

\* sizeBytes is a pointer: no size, or one.
ValidPayload(p) ==
    /\ ValidDigest(TrimSpace(p.digest))
    /\ ValidStrings(p.classification, MaxLabels, 128)
    /\ \A n \in ToSet(p.sizeBytes) : n >= 0

NewPayloadFacts(p) ==
    [digest |-> TrimSpace(p.digest),
     classification |-> normalizeStrings(p.classification),
     sizeBytes |-> p.sizeBytes]

-----------------------------------------------------------------------------
(* Authorization evidence                                                  *)

\* Only the dimension of the scope's own action type is read and kept.
ValidScope(scope) ==
    CASE scope.actionType = "EXTERNAL_SEND" -> ValidDestinationScope(scope.destinationScope)
      [] scope.actionType = "UPDATE_RESOURCE_ACCESS" -> ValidAccessScope(scope.requestedScope)
      [] scope.actionType = "DELETE" -> ValidDeleteMode(scope.deleteMode)
      [] OTHER -> FALSE

NewAuthorizationScope(scope) ==
    LET Only(type, s) == IF scope.actionType = type THEN Vocable(s) ELSE Empty
    IN  [actionType |-> scope.actionType,
         destinationScope |-> Only("EXTERNAL_SEND", scope.destinationScope),
         requestedScope |-> Only("UPDATE_RESOURCE_ACCESS", scope.requestedScope),
         deleteMode |-> Only("DELETE", scope.deleteMode)]

NewAuthorizationEvidence(e) ==
    [type |-> Vocable(e.type), id |-> TrimSpace(e.id),
     issuedBy |-> NewPrincipal(e.issuedBy),
     scope |-> NewAuthorizationScope(e.scope)]

NormalizeAuthorizationEvidence(items) ==
    {NewAuthorizationEvidence(e) : e \in ToSet(items)}

\* Type and ID identify an item; a second one with other facts is refused.
ValidEvidence(items) ==
    /\ Len(items) <= MaxItems
    /\ \A e \in ToSet(items) :
         /\ ValidEvidenceType(e.type)
         /\ ValidIdentifier(e.id)
         /\ ValidPrincipal(e.issuedBy)
         /\ ValidScope(e.scope)
    /\ \A a, b \in NormalizeAuthorizationEvidence(items) :
         a.type = b.type /\ a.id = b.id => a = b

-----------------------------------------------------------------------------
(* The action                                                              *)

Instant(t) == t.wall - t.offset

\* The zero time.Time, midnight of January 1 of the year 1.
ZeroTime == 1

UTC(t) == [wall |-> Instant(t), offset |-> 0]

ValidAction(a) ==
    /\ ValidIdentifier(a.actor.agentID)
    /\ ValidOptionalIdentifier(a.actor.sessionID)
    /\ ValidPrincipal(a.delegation.delegator)
    /\ ValidIdentifier(a.delegation.id)
    /\ TrimSpace(a.target.resourceType) # Empty /\ Length[a.target.resourceType.text] <= 128
    /\ ValidIdentifier(a.target.resourceID)
    /\ a.parameters.type = a.type
    /\ ValidParameters(a.parameters)
    /\ ValidPayload(a.payload)
    /\ ValidEvidence(a.evidence)
    /\ a.type \in ActionTypes
    /\ Instant(a.requestedAt) # ZeroTime

NewProposedAction(runtimeID, a) ==
    [type |-> a.type,
     requestedAt |-> UTC(a.requestedAt),
     actor |-> [agentID |-> TrimSpace(a.actor.agentID),
                runtimeID |-> runtimeID,
                sessionID |-> TrimSpace(a.actor.sessionID)],
     delegation |-> [id |-> TrimSpace(a.delegation.id),
                     delegator |-> NewPrincipal(a.delegation.delegator)],
     target |-> [resourceType |-> TrimSpace(a.target.resourceType),
                 resourceID |-> TrimSpace(a.target.resourceID)],
     parameters |-> normalizeParameters(a.parameters),
     payload |-> NewPayloadFacts(a.payload),
     evidence |-> NormalizeAuthorizationEvidence(a.evidence)]

\* The runtime is taken from the claim whenever there is one.
normalizeTrustingClaim(runtimeID, a) ==
    NewProposedAction(
        IF a.actor.runtimeID = Empty THEN runtimeID ELSE a.actor.runtimeID, a)

\* The actor is the authenticated runtime, whatever the request claims.
normalizeAction(runtimeID, a) == NewProposedAction(runtimeID, a)

\* The errors that errors.Is finds in what Normalize returns.
NormalizeErrors(runtimeID, a) ==
    IF TrimSpace(a.actor.runtimeID) \notin {Empty, runtimeID}
    THEN {"InvalidInput", "RuntimeIdentityConflict"}
    ELSE IF ValidAction(a) THEN {} ELSE {"InvalidInput"}

-----------------------------------------------------------------------------
(* The canonical form and its way back                                     *)

\* Every fact of the action, the time formatted in UTC: "wall" stands for the
\* formatted string.  Marshalling is injective, and so is the digest.
CanonicalAction(action) ==
    [action EXCEPT !.requestedAt = Instant(action.requestedAt)]

ComputeActionDigest(action) == CanonicalAction(action)

\* A year of four digits: what RFC 3339 can express.
Representable(instant) == instant \in 0..LastTime

\* What decodeAction hands to the constructors.
UnmarshalledParameters(p) ==
    CASE p.type = "EXTERNAL_SEND" ->
           [p EXCEPT !.recipients = SetToSeq(@)]
      [] p.type = "UPDATE_RESOURCE_ACCESS" ->
           [p EXCEPT !.targetPrincipals = SetToSeq(@)]
      [] OTHER -> p

Unmarshalled(stored) ==
    [type |-> stored.type,
     requestedAt |-> [wall |-> stored.requestedAt, offset |-> 0],
     actor |-> stored.actor,
     delegation |-> stored.delegation,
     target |-> stored.target,
     parameters |-> UnmarshalledParameters(stored.parameters),
     payload |-> [digest |-> stored.payload.digest,
                  classification |-> SetToSeq(stored.payload.classification),
                  sizeBytes |-> stored.payload.sizeBytes],
     evidence |-> SetToSeq(stored.evidence)]

Decodes(stored) ==
    /\ Representable(stored.requestedAt)
    /\ ValidIdentifier(stored.actor.runtimeID)
    /\ ValidAction(Unmarshalled(stored))

\* The size of the payload is forgotten.
decodeWithoutSize(stored) ==
    NewProposedAction(stored.actor.runtimeID,
                      [Unmarshalled(stored) EXCEPT !.payload.sizeBytes = <<>>])

decodeAction(stored) ==
    NewProposedAction(stored.actor.runtimeID, Unmarshalled(stored))
=============================================================================
