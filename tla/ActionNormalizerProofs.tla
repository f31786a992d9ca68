------------------------ MODULE ActionNormalizerProofs ------------------------
(***************************************************************************)
(* Proofs about the normalizer and the stored form of an action, for any   *)
(* texts, any limits and lists of any length.                              *)
(***************************************************************************)
EXTENDS ActionNormalizer, FiniteSetTheorems, TLAPS

-----------------------------------------------------------------------------
(* Spellings                                                               *)

LEMMA TrimSpaceFacts ==
    ASSUME NEW s \in Strings
    PROVE  /\ TrimSpace(s) \in Strings
           /\ TrimSpace(s).text = s.text
           /\ TrimSpace(s).lower = s.lower
           /\ ~ TrimSpace(s).padded
           /\ TrimSpace(TrimSpace(s)) = TrimSpace(s)
BY DEF TrimSpace, Strings

LEMMA VocableFacts ==
    ASSUME NEW s \in Strings
    PROVE  /\ Vocable(s) \in Strings
           /\ Vocable(s).text = s.text
           /\ Vocable(s) = Text(s.text)
           /\ Vocable(Vocable(s)) = Vocable(s)
BY DEF Vocable, ToUpper, TrimSpace, Text, Strings

\* Two strings are trimmed to one exactly when they are one word.
LEMMA SameWord ==
    ASSUME NEW s \in Strings, NEW t \in Strings
    PROVE  TrimSpace(s) = TrimSpace(t) <=> s.text = t.text /\ s.lower = t.lower
<1>1. TrimSpace(s) = TrimSpace(t) => s.text = t.text /\ s.lower = t.lower
  BY TrimSpaceFacts
<1>2. s.text = t.text /\ s.lower = t.lower => TrimSpace(s) = TrimSpace(t)
  BY DEF TrimSpace
<1>. QED
  BY <1>1, <1>2

LEMMA SameVocable ==
    ASSUME NEW s \in Strings, NEW t \in Strings
    PROVE  Vocable(s) = Vocable(t) <=> s.text = t.text
BY VocableFacts DEF Text

LEMMA TrimmedIdentifier ==
    ASSUME NEW s \in Strings
    PROVE  /\ ValidIdentifier(s) => ValidIdentifier(TrimSpace(s))
           /\ ValidOptionalIdentifier(s) => ValidOptionalIdentifier(TrimSpace(s))
BY TrimSpaceFacts DEF ValidIdentifier, ValidOptionalIdentifier

LEMMA NewPrincipalFacts ==
    ASSUME NEW p \in PrincipalInputs
    PROVE  /\ NewPrincipal(p) \in PrincipalInputs
           /\ NewPrincipal(NewPrincipal(p)) = NewPrincipal(p)
           /\ ValidPrincipal(p) => ValidPrincipal(NewPrincipal(p))
<1>1. p.id \in Strings /\ p.type \in STRING
  BY DEF PrincipalInputs
<1>2. TrimSpace(p.id) \in Strings /\ TrimSpace(TrimSpace(p.id)) = TrimSpace(p.id)
  BY <1>1, TrimSpaceFacts
<1>3. ValidIdentifier(p.id) => ValidIdentifier(TrimSpace(p.id))
  BY <1>1, TrimmedIdentifier
<1>. QED
  BY <1>1, <1>2, <1>3 DEF NewPrincipal, PrincipalInputs, ValidPrincipal

-----------------------------------------------------------------------------
(* Lists as sets, and sets as lists                                        *)

\* A list of n items has a finite set of at most n values.
LEMMA ValuesOfList ==
    ASSUME NEW n \in Nat, NEW T, NEW f \in [1..n -> T]
    PROVE  /\ IsFiniteSet({f[i] : i \in 1..n})
           /\ Cardinality({f[i] : i \in 1..n}) <= n
<1>. DEFINE S == {f[i] : i \in 1..n}
<1>1. f \in Surjection(1..n, S)
  BY DEF Surjection
<1>2. IsFiniteSet(1..n) /\ Cardinality(1..n) = n
  BY FS_Interval
<1>. HIDE DEF S
<1>3. IsFiniteSet(S) /\ Cardinality(S) <= Cardinality(1..n)
  BY <1>1, <1>2, FS_Surjection
<1>. QED
  BY <1>2, <1>3 DEF S

\* SetToSeq lists every element once.
LEMMA SetToSeqFacts ==
    ASSUME NEW S, IsFiniteSet(S)
    PROVE  /\ SetToSeq(S) \in Seq(S)
           /\ Len(SetToSeq(S)) = Cardinality(S)
           /\ ToSet(SetToSeq(S)) = S
           /\ Cardinality(S) \in Nat
<1>. DEFINE n == Cardinality(S)
<1>1. n \in Nat /\ ExistsBijection(1..n, S)
  BY FS_CardinalityType
<1>2. \E f \in [1..n -> S] : IsInjective(f)
  BY <1>1 DEF ExistsBijection, Bijection, Injection
<1>. DEFINE q == SetToSeq(S)
<1>3. q \in [1..n -> S] /\ IsInjective(q)
  BY <1>2 DEF SetToSeq
<1>. HIDE DEF q
<1>4. q \in Injection(1..n, S)
  BY <1>3 DEF Injection
<1>5. Cardinality(1..n) = n
  BY <1>1, FS_Interval
<1>6. q \in Surjection(1..n, S)
  <2>. HIDE DEF n
  <2>. QED
    BY <1>4, <1>5, FS_Injection DEF n
<1>7. ToSet(q) = S
  BY <1>3, <1>6 DEF ToSet, Surjection
<1>8. q \in Seq(S) /\ Len(q) = n
  BY <1>1, <1>3
<1>. QED
  BY <1>1, <1>7, <1>8 DEF q

\* A list that is put through set semantics and listed again.
LEMMA ListAgain ==
    ASSUME NEW X, NEW n \in Nat, NEW f \in [1..n -> X], NEW S,
           S = {f[i] : i \in 1..n}
    PROVE  /\ SetToSeq(S) \in Seq(X)
           /\ ToSet(SetToSeq(S)) = S
           /\ Len(SetToSeq(S)) <= n
           /\ n # 0 => SetToSeq(S) # <<>>
<1>1. S \subseteq X
  OBVIOUS
<1>2. n # 0 => f[1] \in S
  OBVIOUS
<1>3. IsFiniteSet(S) /\ Cardinality(S) <= n
  BY ValuesOfList
<1>. DEFINE q == SetToSeq(S)
<1>4. q \in Seq(S) /\ Len(q) = Cardinality(S) /\ ToSet(q) = S
  BY <1>3, SetToSeqFacts
<1>. HIDE DEF q
<1>5. q \in Seq(X)
  BY <1>1, <1>4
<1>6. q = <<>> => S = {}
  BY <1>4 DEF ToSet
<1>. QED
  BY <1>2, <1>3, <1>4, <1>5, <1>6 DEF q

LEMMA StringsAgain ==
    ASSUME NEW l \in Seq(Strings), NEW m \in Nat, NEW k, ValidStrings(l, m, k)
    PROVE  LET q == SetToSeq(normalizeStrings(l))
           IN  /\ q \in Seq(Strings)
               /\ ValidStrings(q, m, k)
               /\ normalizeStrings(q) = normalizeStrings(l)
               /\ l # <<>> => q # <<>>
<1>. DEFINE f == [i \in 1..Len(l) |-> TrimSpace(l[i])]
            S == normalizeStrings(l)
            q == SetToSeq(S)
<1>1. /\ Len(l) \in Nat
      /\ \A i \in 1..Len(l) : l[i] \in Strings /\ l[i] \in ToSet(l)
      /\ \A s \in ToSet(l) : \E i \in 1..Len(l) : s = l[i]
      /\ l # <<>> => Len(l) # 0
  BY DEF ToSet
<1>2. f \in [1..Len(l) -> Strings]
  BY <1>1, TrimSpaceFacts
<1>3. \A i \in 1..Len(l) : f[i] = TrimSpace(l[i])
  OBVIOUS
<1>. HIDE DEF f
<1>4. S = {f[i] : i \in 1..Len(l)}
  BY <1>1, <1>3 DEF normalizeStrings
<1>5. \A s \in S : \E t \in ToSet(l) : t \in Strings /\ s = TrimSpace(t)
  BY <1>1 DEF normalizeStrings
<1>. HIDE DEF S
<1>6. /\ q \in Seq(Strings) /\ ToSet(q) = S /\ Len(q) <= Len(l)
      /\ l # <<>> => q # <<>>
  BY <1>1, <1>2, <1>4, ListAgain
<1>. HIDE DEF q
<1>7. \A s \in S : /\ TrimSpace(s) = s
                    /\ TrimSpace(s) # Empty /\ Length[s.text] <= k
  BY <1>5, TrimSpaceFacts DEF ValidStrings
<1>8. normalizeStrings(q) = S
  BY <1>6, <1>7 DEF normalizeStrings
<1>9. Len(q) <= m
  BY <1>1, <1>6 DEF ValidStrings
<1>10. ValidStrings(q, m, k)
  BY <1>6, <1>7, <1>9 DEF ValidStrings
<1>. QED
  BY <1>6, <1>8, <1>10 DEF q, S

LEMMA PrincipalsAgain ==
    ASSUME NEW l \in Seq(PrincipalInputs), Len(l) <= MaxItems,
           \A x \in ToSet(l) : ValidPrincipal(x)
    PROVE  LET q == SetToSeq(normalizePrincipals(l))
           IN  /\ q \in Seq(PrincipalInputs)
               /\ Len(q) <= MaxItems
               /\ \A x \in ToSet(q) : ValidPrincipal(x)
               /\ normalizePrincipals(q) = normalizePrincipals(l)
               /\ l # <<>> => q # <<>>
<1>. DEFINE f == [i \in 1..Len(l) |-> NewPrincipal(l[i])]
            S == normalizePrincipals(l)
            q == SetToSeq(S)
<1>1. /\ Len(l) \in Nat
      /\ \A i \in 1..Len(l) : l[i] \in PrincipalInputs /\ l[i] \in ToSet(l)
      /\ \A s \in ToSet(l) : \E i \in 1..Len(l) : s = l[i]
      /\ l # <<>> => Len(l) # 0
  BY DEF ToSet
<1>2. f \in [1..Len(l) -> PrincipalInputs]
  BY <1>1, NewPrincipalFacts
<1>3. \A i \in 1..Len(l) : f[i] = NewPrincipal(l[i])
  OBVIOUS
<1>. HIDE DEF f
<1>4. S = {f[i] : i \in 1..Len(l)}
  BY <1>1, <1>3 DEF normalizePrincipals
<1>5. \A s \in S : \E t \in ToSet(l) : t \in PrincipalInputs /\ s = NewPrincipal(t)
  BY <1>1 DEF normalizePrincipals
<1>. HIDE DEF S
<1>6. /\ q \in Seq(PrincipalInputs) /\ ToSet(q) = S /\ Len(q) <= Len(l)
      /\ Len(l) # 0 => q # <<>>
  <2>1. Len(l) \in Nat
    BY <1>1
  <2>. QED
    BY ONLY <2>1, <1>2, <1>4, ListAgain DEF q
<1>. HIDE DEF q
<1>7. \A s \in S : NewPrincipal(s) = s /\ ValidPrincipal(s)
  BY <1>5, NewPrincipalFacts
<1>8. normalizePrincipals(q) = S
  BY <1>6, <1>7 DEF normalizePrincipals
<1>9. Len(q) <= MaxItems
  BY <1>1, <1>6, LimitsAssumption
<1>. QED
  BY <1>1, <1>6, <1>7, <1>8, <1>9 DEF q, S

-----------------------------------------------------------------------------
(* Scopes and evidence                                                     *)

LEMMA EmptyIsString == Empty \in Strings
BY LengthAssumption DEF Empty, Text, Strings

LEMMA VocableAgain ==
    ASSUME NEW s \in Strings
    PROVE  /\ ValidDestinationScope(s) => ValidDestinationScope(Vocable(s))
           /\ ValidAccessScope(s) => ValidAccessScope(Vocable(s))
           /\ ValidDeleteMode(s) => ValidDeleteMode(Vocable(s))
           /\ ValidEvidenceType(s) => ValidEvidenceType(Vocable(s))
BY VocableFacts
   DEF ValidDestinationScope, ValidAccessScope, ValidDeleteMode, ValidEvidenceType

LEMMA ValidScopeCases ==
    ASSUME NEW scope
    PROVE  /\ ValidScope(scope) => scope.actionType \in ActionTypes
           /\ scope.actionType = "EXTERNAL_SEND" =>
                (ValidScope(scope) <=> ValidDestinationScope(scope.destinationScope))
           /\ scope.actionType = "UPDATE_RESOURCE_ACCESS" =>
                (ValidScope(scope) <=> ValidAccessScope(scope.requestedScope))
           /\ scope.actionType = "DELETE" =>
                (ValidScope(scope) <=> ValidDeleteMode(scope.deleteMode))
<1>1. ASSUME scope.actionType = "EXTERNAL_SEND"
      PROVE  ValidScope(scope) <=> ValidDestinationScope(scope.destinationScope)
  BY <1>1, Zenon DEF ValidScope
<1>2. ASSUME scope.actionType = "UPDATE_RESOURCE_ACCESS"
      PROVE  ValidScope(scope) <=> ValidAccessScope(scope.requestedScope)
  BY <1>2, Zenon DEF ValidScope
<1>3. ASSUME scope.actionType = "DELETE"
      PROVE  ValidScope(scope) <=> ValidDeleteMode(scope.deleteMode)
  BY <1>3, Zenon DEF ValidScope
<1>4. ASSUME scope.actionType # "EXTERNAL_SEND",
             scope.actionType # "UPDATE_RESOURCE_ACCESS",
             scope.actionType # "DELETE"
      PROVE  ~ ValidScope(scope)
  BY <1>4, Zenon DEF ValidScope
<1>. QED
  BY <1>1, <1>2, <1>3, <1>4 DEF ActionTypes

LEMMA ScopeAgain ==
    ASSUME NEW scope \in ScopeInputs, ValidScope(scope)
    PROVE  /\ NewAuthorizationScope(scope) \in ScopeInputs
           /\ ValidScope(NewAuthorizationScope(scope))
           /\ NewAuthorizationScope(NewAuthorizationScope(scope)) =
                NewAuthorizationScope(scope)
<1>. DEFINE n == NewAuthorizationScope(scope)
<1>1. /\ scope.destinationScope \in Strings
      /\ scope.requestedScope \in Strings
      /\ scope.deleteMode \in Strings
      /\ scope.actionType \in STRING
  BY DEF ScopeInputs
<1>2. /\ n \in ScopeInputs /\ n.actionType = scope.actionType
      /\ n.actionType = "EXTERNAL_SEND" =>
           n.destinationScope = Vocable(scope.destinationScope)
      /\ n.actionType = "UPDATE_RESOURCE_ACCESS" =>
           n.requestedScope = Vocable(scope.requestedScope)
      /\ n.actionType = "DELETE" => n.deleteMode = Vocable(scope.deleteMode)
  BY <1>1, EmptyIsString, VocableFacts DEF NewAuthorizationScope, ScopeInputs
<1>3. ValidScope(n)
  BY <1>1, <1>2, VocableAgain, ValidScopeCases DEF ActionTypes
<1>4. NewAuthorizationScope(n) = n
  BY <1>1, VocableFacts DEF NewAuthorizationScope
<1>. QED
  BY <1>2, <1>3, <1>4

EvidenceInputs ==
    [type : Strings, id : Strings, issuedBy : PrincipalInputs, scope : ScopeInputs]

ValidItem(e) ==
    /\ ValidEvidenceType(e.type)
    /\ ValidIdentifier(e.id)
    /\ ValidPrincipal(e.issuedBy)
    /\ ValidScope(e.scope)

LEMMA ItemAgain ==
    ASSUME NEW e \in EvidenceInputs, ValidItem(e)
    PROVE  /\ NewAuthorizationEvidence(e) \in EvidenceInputs
           /\ ValidItem(NewAuthorizationEvidence(e))
           /\ NewAuthorizationEvidence(NewAuthorizationEvidence(e)) =
                NewAuthorizationEvidence(e)
<1>1. /\ e.type \in Strings /\ e.id \in Strings
      /\ e.issuedBy \in PrincipalInputs /\ e.scope \in ScopeInputs
  BY DEF EvidenceInputs
<1>2. /\ Vocable(e.type) \in Strings /\ ValidEvidenceType(Vocable(e.type))
      /\ Vocable(Vocable(e.type)) = Vocable(e.type)
  BY <1>1, VocableFacts, VocableAgain DEF ValidItem
<1>3. /\ TrimSpace(e.id) \in Strings /\ ValidIdentifier(TrimSpace(e.id))
      /\ TrimSpace(TrimSpace(e.id)) = TrimSpace(e.id)
  BY <1>1, TrimSpaceFacts, TrimmedIdentifier DEF ValidItem
<1>4. /\ NewPrincipal(e.issuedBy) \in PrincipalInputs
      /\ ValidPrincipal(NewPrincipal(e.issuedBy))
      /\ NewPrincipal(NewPrincipal(e.issuedBy)) = NewPrincipal(e.issuedBy)
  BY <1>1, NewPrincipalFacts DEF ValidItem
<1>5. /\ NewAuthorizationScope(e.scope) \in ScopeInputs
      /\ ValidScope(NewAuthorizationScope(e.scope))
      /\ NewAuthorizationScope(NewAuthorizationScope(e.scope)) =
           NewAuthorizationScope(e.scope)
  BY <1>1, ScopeAgain DEF ValidItem
<1>. QED
  BY <1>2, <1>3, <1>4, <1>5
     DEF NewAuthorizationEvidence, EvidenceInputs, ValidItem

LEMMA EvidenceAgain ==
    ASSUME NEW l \in Seq(EvidenceInputs), ValidEvidence(l)
    PROVE  LET q == SetToSeq(NormalizeAuthorizationEvidence(l))
           IN  /\ q \in Seq(EvidenceInputs)
               /\ ValidEvidence(q)
               /\ NormalizeAuthorizationEvidence(q) = NormalizeAuthorizationEvidence(l)
<1>. DEFINE f == [i \in 1..Len(l) |-> NewAuthorizationEvidence(l[i])]
            S == NormalizeAuthorizationEvidence(l)
            q == SetToSeq(S)
<1>1. /\ Len(l) \in Nat
      /\ \A i \in 1..Len(l) : l[i] \in EvidenceInputs /\ l[i] \in ToSet(l)
      /\ \A s \in ToSet(l) : \E i \in 1..Len(l) : s = l[i]
  BY DEF ToSet
<1>2. \A e \in ToSet(l) : ValidItem(e)
  BY DEF ValidEvidence, ValidItem
<1>3. f \in [1..Len(l) -> EvidenceInputs]
  BY <1>1, <1>2, ItemAgain
<1>4. \A i \in 1..Len(l) : f[i] = NewAuthorizationEvidence(l[i])
  OBVIOUS
<1>. HIDE DEF f
<1>5. S = {f[i] : i \in 1..Len(l)}
  BY <1>1, <1>4 DEF NormalizeAuthorizationEvidence
<1>6. \A s \in S : \E t \in ToSet(l) :
        t \in EvidenceInputs /\ s = NewAuthorizationEvidence(t)
  BY <1>1 DEF NormalizeAuthorizationEvidence
<1>7. \A a, b \in S : a.type = b.type /\ a.id = b.id => a = b
  BY DEF ValidEvidence
<1>. HIDE DEF S
<1>8. q \in Seq(EvidenceInputs) /\ ToSet(q) = S /\ Len(q) <= Len(l)
  <2>1. Len(l) \in Nat
    BY <1>1
  <2>. QED
    BY ONLY <2>1, <1>3, <1>5, ListAgain DEF q
<1>. HIDE DEF q
<1>9. \A s \in S : NewAuthorizationEvidence(s) = s /\ ValidItem(s)
  BY <1>2, <1>6, ItemAgain
<1>10. NormalizeAuthorizationEvidence(q) = S
  BY <1>8, <1>9 DEF NormalizeAuthorizationEvidence
<1>11. Len(q) <= MaxItems
  BY <1>1, <1>8, LimitsAssumption DEF ValidEvidence
<1>12. ValidEvidence(q)
  BY <1>7, <1>8, <1>9, <1>10, <1>11 DEF ValidEvidence, ValidItem
<1>. QED
  BY <1>8, <1>10, <1>12 DEF q, S

-----------------------------------------------------------------------------
(* Parameters                                                              *)

LEMMA SendAgain ==
    ASSUME NEW p \in ParametersInputs, p.type = "EXTERNAL_SEND", ValidParameters(p)
    PROVE  LET u == UnmarshalledParameters(normalizeParameters(p))
           IN  /\ u.type = p.type
               /\ ValidParameters(u)
               /\ normalizeParameters(u) = normalizeParameters(p)
<1>. DEFINE q == SetToSeq(normalizeStrings(p.recipients))
            d == Vocable(p.destinationScope)
            n == [type |-> p.type, destinationScope |-> d,
                  recipients |-> normalizeStrings(p.recipients)]
            u == [type |-> p.type, destinationScope |-> d, recipients |-> q]
<1>1. p.destinationScope \in Strings /\ p.recipients \in Seq(Strings)
  BY DEF ParametersInputs
<1>2. /\ ValidDestinationScope(p.destinationScope)
      /\ ValidStrings(p.recipients, MaxItems, 320)
      /\ p.recipients # <<>>
  BY Zenon DEF ValidParameters
<1>3. normalizeParameters(p) = n
  BY Zenon DEF normalizeParameters
<1>4. /\ ValidStrings(q, MaxItems, 320) /\ q # <<>>
      /\ normalizeStrings(q) = normalizeStrings(p.recipients)
  BY <1>1, <1>2, StringsAgain, LimitsAssumption
<1>5. ValidDestinationScope(d) /\ Vocable(d) = d
  BY <1>1, <1>2, VocableFacts, VocableAgain
<1>6. UnmarshalledParameters(n) = u
  <2>1. n.type = "EXTERNAL_SEND"
    OBVIOUS
  <2>2. UnmarshalledParameters(n) = [n EXCEPT !.recipients = SetToSeq(@)]
    BY <2>1, Zenon DEF UnmarshalledParameters
  <2>. QED
    BY <2>2
<1>7. /\ u.type = "EXTERNAL_SEND" /\ u.type = p.type
      /\ u.destinationScope = d /\ u.recipients = q
  OBVIOUS
<1>. HIDE DEF u, q, d
<1>8. ValidParameters(u)
  BY <1>4, <1>5, <1>7, Zenon DEF ValidParameters
<1>9. normalizeParameters(u) =
        [type |-> u.type, destinationScope |-> Vocable(u.destinationScope),
         recipients |-> normalizeStrings(u.recipients)]
  BY <1>7, Zenon DEF normalizeParameters
<1>10. normalizeParameters(u) = n
  BY <1>4, <1>5, <1>7, <1>9
<1>. QED
  BY <1>3, <1>6, <1>7, <1>8, <1>10

LEMMA AccessAgain ==
    ASSUME NEW p \in ParametersInputs, p.type = "UPDATE_RESOURCE_ACCESS", ValidParameters(p)
    PROVE  LET u == UnmarshalledParameters(normalizeParameters(p))
           IN  /\ u.type = p.type
               /\ ValidParameters(u)
               /\ normalizeParameters(u) = normalizeParameters(p)
<1>. DEFINE q == SetToSeq(normalizePrincipals(p.targetPrincipals))
            c == Vocable(p.currentScope)
            r == Vocable(p.requestedScope)
            n == [type |-> p.type, currentScope |-> c, requestedScope |-> r,
                  targetPrincipals |-> normalizePrincipals(p.targetPrincipals)]
            u == [type |-> p.type, currentScope |-> c, requestedScope |-> r,
                  targetPrincipals |-> q]
<1>1. /\ p.currentScope \in Strings /\ p.requestedScope \in Strings
      /\ p.targetPrincipals \in Seq(PrincipalInputs)
  BY DEF ParametersInputs
<1>2. /\ ValidAccessScope(p.currentScope) /\ ValidAccessScope(p.requestedScope)
      /\ c # r
      /\ Len(p.targetPrincipals) <= MaxItems
      /\ \A x \in ToSet(p.targetPrincipals) : ValidPrincipal(x)
      /\ r = Text("SHARED") => p.targetPrincipals # <<>>
  BY Zenon DEF ValidParameters
<1>3. normalizeParameters(p) = n
  BY Zenon DEF normalizeParameters
<1>4. /\ Len(q) <= MaxItems
      /\ \A x \in ToSet(q) : ValidPrincipal(x)
      /\ normalizePrincipals(q) = normalizePrincipals(p.targetPrincipals)
      /\ p.targetPrincipals # <<>> => q # <<>>
  BY <1>1, <1>2, PrincipalsAgain
<1>5. /\ ValidAccessScope(c) /\ Vocable(c) = c
      /\ ValidAccessScope(r) /\ Vocable(r) = r
  BY <1>1, <1>2, VocableFacts, VocableAgain
<1>6. UnmarshalledParameters(n) = u
  <2>1. n.type = "UPDATE_RESOURCE_ACCESS" /\ n.type # "EXTERNAL_SEND"
    OBVIOUS
  <2>2. UnmarshalledParameters(n) = [n EXCEPT !.targetPrincipals = SetToSeq(@)]
    BY <2>1, Zenon DEF UnmarshalledParameters
  <2>. QED
    BY <2>2
<1>7. /\ u.type = "UPDATE_RESOURCE_ACCESS" /\ u.type = p.type
      /\ u.currentScope = c /\ u.requestedScope = r /\ u.targetPrincipals = q
  OBVIOUS
<1>. HIDE DEF u, q, c, r
<1>8. ValidParameters(u)
  BY <1>2, <1>4, <1>5, <1>7, Zenon DEF ValidParameters
<1>9. normalizeParameters(u) =
        [type |-> u.type, currentScope |-> Vocable(u.currentScope),
         requestedScope |-> Vocable(u.requestedScope),
         targetPrincipals |-> normalizePrincipals(u.targetPrincipals)]
  BY <1>7, Zenon DEF normalizeParameters
<1>10. normalizeParameters(u) = n
  BY <1>4, <1>5, <1>7, <1>9
<1>. QED
  BY <1>3, <1>6, <1>7, <1>8, <1>10

LEMMA DeleteAgain ==
    ASSUME NEW p \in ParametersInputs, p.type = "DELETE", ValidParameters(p)
    PROVE  LET u == UnmarshalledParameters(normalizeParameters(p))
           IN  /\ u.type = p.type
               /\ ValidParameters(u)
               /\ normalizeParameters(u) = normalizeParameters(p)
<1>. DEFINE d == Vocable(p.deleteMode)
            u == [type |-> p.type, deleteMode |-> d, recoverable |-> p.recoverable]
<1>1. p.deleteMode \in Strings
  BY DEF ParametersInputs
<1>2. ValidDeleteMode(p.deleteMode)
  BY Zenon DEF ValidParameters
<1>3. normalizeParameters(p) = u
  BY Zenon DEF normalizeParameters
<1>4. ValidDeleteMode(d) /\ Vocable(d) = d
  BY <1>1, <1>2, VocableFacts, VocableAgain
<1>5. /\ u.type = "DELETE" /\ u.type = p.type
      /\ u.type # "EXTERNAL_SEND" /\ u.type # "UPDATE_RESOURCE_ACCESS"
      /\ u.deleteMode = d /\ u.recoverable = p.recoverable
  OBVIOUS
<1>6. u = [type |-> p.type, deleteMode |-> d, recoverable |-> p.recoverable]
  OBVIOUS
<1>. HIDE DEF u, d
<1>7. UnmarshalledParameters(u) = u
  BY <1>5, Zenon DEF UnmarshalledParameters
<1>8. ValidParameters(u)
  BY <1>4, <1>5, Zenon DEF ValidParameters
<1>9. normalizeParameters(u) =
        [type |-> u.type, deleteMode |-> Vocable(u.deleteMode),
         recoverable |-> u.recoverable]
  BY <1>5, Zenon DEF normalizeParameters
<1>10. normalizeParameters(u) = u
  BY <1>4, <1>5, <1>6, <1>9, Zenon
<1>. QED
  BY <1>3, <1>5, <1>7, <1>8, <1>10, Zenon

LEMMA ParametersAgain ==
    ASSUME NEW p \in ParametersInputs, ValidParameters(p)
    PROVE  LET u == UnmarshalledParameters(normalizeParameters(p))
           IN  /\ u.type = p.type
               /\ ValidParameters(u)
               /\ normalizeParameters(u) = normalizeParameters(p)
<1>1. p.type \in ActionTypes
  BY DEF ParametersInputs, ActionTypes
<1>. QED
  BY <1>1, SendAgain, AccessAgain, DeleteAgain DEF ActionTypes

-----------------------------------------------------------------------------
(* The action                                                              *)

LEMMA InstantFacts ==
    ASSUME NEW t \in Times
    PROVE  Instant(t) \in Int /\ Instant(UTC(t)) = Instant(t)
BY DEF Times, Instant, UTC

LEMMA PayloadAgain ==
    ASSUME NEW p \in [digest : Strings, classification : Seq(Strings), sizeBytes : Seq(Int)],
           ValidPayload(p)
    PROVE  LET u == [digest |-> TrimSpace(p.digest),
                     classification |-> SetToSeq(normalizeStrings(p.classification)),
                     sizeBytes |-> p.sizeBytes]
           IN  ValidPayload(u) /\ NewPayloadFacts(u) = NewPayloadFacts(p)
<1>. DEFINE d == TrimSpace(p.digest)
            q == SetToSeq(normalizeStrings(p.classification))
            u == [digest |-> d, classification |-> q, sizeBytes |-> p.sizeBytes]
<1>1. TrimSpace(d) = d
  BY TrimSpaceFacts
<1>2. /\ ValidStrings(q, MaxLabels, 128)
      /\ normalizeStrings(q) = normalizeStrings(p.classification)
  BY StringsAgain, LimitsAssumption DEF ValidPayload
<1>3. u.digest = d /\ u.classification = q /\ u.sizeBytes = p.sizeBytes
  OBVIOUS
<1>4. ValidDigest(d) /\ \A n \in ToSet(p.sizeBytes) : n >= 0
  BY DEF ValidPayload
<1>. HIDE DEF d, q, u
<1>5. ValidPayload(u)
  BY <1>1, <1>2, <1>3, <1>4 DEF ValidPayload
<1>6. NewPayloadFacts(u) = NewPayloadFacts(p)
  BY <1>1, <1>2, <1>3 DEF NewPayloadFacts, d
<1>. QED
  BY <1>5, <1>6 DEF u, d, q

\* The stored form spelled out.
LEMMA CanonicalForm ==
    ASSUME NEW rt, NEW a \in ProposedActionInputs
    PROVE  CanonicalAction(NewProposedAction(rt, a)) =
             [NewProposedAction(rt, a) EXCEPT !.requestedAt = Instant(a.requestedAt)]
<1>1. NewProposedAction(rt, a).requestedAt = UTC(a.requestedAt)
  BY DEF NewProposedAction
<1>2. a.requestedAt \in Times
  BY DEF ProposedActionInputs
<1>. QED
  BY <1>1, <1>2, InstantFacts, Zenon DEF CanonicalAction

LEMMA CanonicalFacts ==
    ASSUME NEW rt, NEW a \in ProposedActionInputs
    PROVE  /\ CanonicalAction(NewProposedAction(rt, a)).requestedAt = Instant(a.requestedAt)
           /\ CanonicalAction(NewProposedAction(rt, a)).actor.runtimeID = rt
<1>1. CanonicalAction(NewProposedAction(rt, a)) =
        [NewProposedAction(rt, a) EXCEPT !.requestedAt = Instant(a.requestedAt)]
  BY CanonicalForm
<1>. QED
  BY <1>1 DEF NewProposedAction

\* What the constructors are given when the stored form is read back.
ReadBack(rt, a) ==
    [type |-> a.type,
     requestedAt |-> UTC(a.requestedAt),
     actor |-> [agentID |-> TrimSpace(a.actor.agentID),
                runtimeID |-> rt,
                sessionID |-> TrimSpace(a.actor.sessionID)],
     delegation |-> [id |-> TrimSpace(a.delegation.id),
                     delegator |-> NewPrincipal(a.delegation.delegator)],
     target |-> [resourceType |-> TrimSpace(a.target.resourceType),
                 resourceID |-> TrimSpace(a.target.resourceID)],
     parameters |-> UnmarshalledParameters(normalizeParameters(a.parameters)),
     payload |-> [digest |-> TrimSpace(a.payload.digest),
                  classification |-> SetToSeq(normalizeStrings(a.payload.classification)),
                  sizeBytes |-> a.payload.sizeBytes],
     evidence |-> SetToSeq(NormalizeAuthorizationEvidence(a.evidence))]

LEMMA UnmarshalledForm ==
    ASSUME NEW rt, NEW a \in ProposedActionInputs
    PROVE  Unmarshalled(CanonicalAction(NewProposedAction(rt, a))) = ReadBack(rt, a)
<1>. DEFINE n == NewProposedAction(rt, a)
            c == [n EXCEPT !.requestedAt = Instant(a.requestedAt)]
<1>1. CanonicalAction(n) = c
  BY CanonicalForm
<1>2. c = [type |-> a.type,
           requestedAt |-> Instant(a.requestedAt),
           actor |-> [agentID |-> TrimSpace(a.actor.agentID),
                      runtimeID |-> rt,
                      sessionID |-> TrimSpace(a.actor.sessionID)],
           delegation |-> [id |-> TrimSpace(a.delegation.id),
                           delegator |-> NewPrincipal(a.delegation.delegator)],
           target |-> [resourceType |-> TrimSpace(a.target.resourceType),
                       resourceID |-> TrimSpace(a.target.resourceID)],
           parameters |-> normalizeParameters(a.parameters),
           payload |-> [digest |-> TrimSpace(a.payload.digest),
                        classification |-> normalizeStrings(a.payload.classification),
                        sizeBytes |-> a.payload.sizeBytes],
           evidence |-> NormalizeAuthorizationEvidence(a.evidence)]
  BY DEF NewProposedAction, NewPayloadFacts
<1>. HIDE DEF c, n
<1>3. Unmarshalled(c) = ReadBack(rt, a)
  BY <1>2 DEF Unmarshalled, ReadBack, UTC
<1>. QED
  BY <1>1, <1>3 DEF n

LEMMA ReadBackValid ==
    ASSUME NEW rt, NEW a \in ProposedActionInputs, ValidAction(a)
    PROVE  ValidAction(ReadBack(rt, a))
<1>. DEFINE b == ReadBack(rt, a)
<1>1. /\ a.requestedAt \in Times
      /\ a.actor.agentID \in Strings /\ a.actor.sessionID \in Strings
      /\ a.delegation.id \in Strings /\ a.delegation.delegator \in PrincipalInputs
      /\ a.target.resourceType \in Strings /\ a.target.resourceID \in Strings
      /\ a.parameters \in ParametersInputs
      /\ a.payload \in [digest : Strings, classification : Seq(Strings), sizeBytes : Seq(Int)]
      /\ a.evidence \in Seq(EvidenceInputs)
  BY DEF ProposedActionInputs, EvidenceInputs
<1>2. /\ ValidIdentifier(b.actor.agentID)
      /\ ValidOptionalIdentifier(b.actor.sessionID)
      /\ ValidIdentifier(b.delegation.id)
      /\ ValidIdentifier(b.target.resourceID)
  BY <1>1, TrimmedIdentifier DEF ValidAction, ReadBack
<1>3. ValidPrincipal(b.delegation.delegator)
  BY <1>1, NewPrincipalFacts DEF ValidAction, ReadBack
<1>4. /\ TrimSpace(b.target.resourceType) # Empty
      /\ Length[b.target.resourceType.text] <= 128
  BY <1>1, TrimSpaceFacts DEF ValidAction, ReadBack
<1>5. b.parameters.type = b.type /\ ValidParameters(b.parameters)
  BY <1>1, ParametersAgain DEF ValidAction, ReadBack
<1>6. ValidPayload(b.payload)
  BY <1>1, PayloadAgain DEF ValidAction, ReadBack
<1>7. ValidEvidence(b.evidence)
  BY <1>1, EvidenceAgain DEF ValidAction, ReadBack
<1>8. b.type \in ActionTypes /\ Instant(b.requestedAt) # ZeroTime
  BY <1>1, InstantFacts DEF ValidAction, ReadBack
<1>. QED
  BY <1>2, <1>3, <1>4, <1>5, <1>6, <1>7, <1>8 DEF ValidAction

LEMMA ReadBackNormal ==
    ASSUME NEW rt, NEW a \in ProposedActionInputs, ValidAction(a)
    PROVE  NewProposedAction(rt, ReadBack(rt, a)) = NewProposedAction(rt, a)
<1>. DEFINE b == ReadBack(rt, a)
<1>1. /\ a.requestedAt \in Times
      /\ a.actor.agentID \in Strings /\ a.actor.sessionID \in Strings
      /\ a.delegation.id \in Strings /\ a.delegation.delegator \in PrincipalInputs
      /\ a.target.resourceType \in Strings /\ a.target.resourceID \in Strings
      /\ a.parameters \in ParametersInputs
      /\ a.payload \in [digest : Strings, classification : Seq(Strings), sizeBytes : Seq(Int)]
      /\ a.evidence \in Seq(EvidenceInputs)
  BY DEF ProposedActionInputs, EvidenceInputs
<1>2. /\ TrimSpace(b.actor.agentID) = TrimSpace(a.actor.agentID)
      /\ TrimSpace(b.actor.sessionID) = TrimSpace(a.actor.sessionID)
      /\ TrimSpace(b.delegation.id) = TrimSpace(a.delegation.id)
      /\ TrimSpace(b.target.resourceType) = TrimSpace(a.target.resourceType)
      /\ TrimSpace(b.target.resourceID) = TrimSpace(a.target.resourceID)
  BY <1>1, TrimSpaceFacts DEF ReadBack
<1>3. NewPrincipal(b.delegation.delegator) = NewPrincipal(a.delegation.delegator)
  BY <1>1, NewPrincipalFacts DEF ReadBack
<1>4. normalizeParameters(b.parameters) = normalizeParameters(a.parameters)
  BY <1>1, ParametersAgain DEF ValidAction, ReadBack
<1>5. NewPayloadFacts(b.payload) = NewPayloadFacts(a.payload)
  BY <1>1, PayloadAgain DEF ValidAction, ReadBack
<1>6. NormalizeAuthorizationEvidence(b.evidence) = NormalizeAuthorizationEvidence(a.evidence)
  BY <1>1, EvidenceAgain DEF ValidAction, ReadBack
<1>7. b.type = a.type /\ UTC(b.requestedAt) = UTC(a.requestedAt)
  BY <1>1, InstantFacts DEF ReadBack, UTC
<1>. QED
  BY <1>2, <1>3, <1>4, <1>5, <1>6, <1>7 DEF NewProposedAction

\* decodeAction undoes CanonicalActionBytes: whatever action the normalizer
\* accepts, the form that is stored can be read, passes every constructor again
\* and is the action that was stored, unless its time is outside the calendar.
THEOREM DecodeUndoesEncode ==
    ASSUME NEW rt \in Strings, ValidIdentifier(rt),
           NEW a \in ProposedActionInputs, ValidAction(a),
           Representable(Instant(a.requestedAt))
    PROVE  LET stored == CanonicalAction(NewProposedAction(rt, a))
           IN  Decodes(stored) /\ decodeAction(stored) = NewProposedAction(rt, a)
<1>. DEFINE stored == CanonicalAction(NewProposedAction(rt, a))
<1>1. stored.requestedAt = Instant(a.requestedAt) /\ stored.actor.runtimeID = rt
  BY CanonicalFacts
<1>2. Unmarshalled(stored) = ReadBack(rt, a)
  BY UnmarshalledForm
<1>. HIDE DEF stored
<1>3. Decodes(stored)
  BY <1>1, <1>2, ReadBackValid DEF Decodes
<1>4. decodeAction(stored) = NewProposedAction(rt, a)
  BY <1>1, <1>2, ReadBackNormal DEF decodeAction
<1>. QED
  BY <1>3, <1>4 DEF stored
=============================================================================
