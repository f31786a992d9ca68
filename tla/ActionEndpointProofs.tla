------------------------- MODULE ActionEndpointProofs -------------------------
(***************************************************************************)
(* Proofs about ActionEndpoint, for any requests, any credentials and any  *)
(* number of attempts.                                                     *)
(***************************************************************************)
EXTENDS ActionEndpoint, ActionNormalizerProofs

-----------------------------------------------------------------------------
(* The normalizer tells actions apart exactly as their meanings do         *)

LEMMA WordSame ==
    ASSUME NEW s \in Strings, NEW t \in Strings
    PROVE  TrimSpace(s) = TrimSpace(t) <=> Word(s) = Word(t)
BY SameWord DEF Word

LEMMA PrincipalSame ==
    ASSUME NEW p \in PrincipalInputs, NEW q \in PrincipalInputs
    PROVE  NewPrincipal(p) = NewPrincipal(q) <=> PrincipalMeant(p) = PrincipalMeant(q)
<1>1. p.id \in Strings /\ q.id \in Strings
  BY DEF PrincipalInputs
<1>2. TrimSpace(p.id) = TrimSpace(q.id) <=> Word(p.id) = Word(q.id)
  BY <1>1, WordSame
<1>. QED
  BY <1>2 DEF NewPrincipal, PrincipalMeant

ImageOf(f, A) == {f[x] : x \in A}

\* Two ways to look at things that tell the same apart tell the same sets apart.
LEMMA ImagesSame ==
    ASSUME NEW A, NEW B, NEW f, NEW g,
           \A x, y \in A \cup B : f[x] = f[y] <=> g[x] = g[y]
    PROVE  ImageOf(f, A) = ImageOf(f, B) <=> ImageOf(g, A) = ImageOf(g, B)
<1>. DEFINE Covered(h) == /\ \A x \in A : \E y \in B : h[x] = h[y]
                          /\ \A x \in B : \E y \in A : h[x] = h[y]
<1>1. ASSUME NEW h
      PROVE  ImageOf(h, A) = ImageOf(h, B) <=> Covered(h)
  <2>1. ASSUME {h[x] : x \in A} = {h[x] : x \in B}
        PROVE  Covered(h)
    <3>1. \A x \in A : h[x] \in {h[y] : y \in A}
      OBVIOUS
    <3>2. \A x \in B : h[x] \in {h[y] : y \in B}
      OBVIOUS
    <3>3. \A x \in A : h[x] \in {h[y] : y \in B}
      BY <2>1, <3>1
    <3>4. \A x \in B : h[x] \in {h[y] : y \in A}
      BY <2>1, <3>2
    <3>. QED
      BY <3>3, <3>4
  <2>2. ASSUME Covered(h)
        PROVE  {h[x] : x \in A} = {h[x] : x \in B}
    BY <2>2
  <2>. QED
    BY <2>1, <2>2 DEF ImageOf
<1>2. Covered(f) <=> Covered(g)
  OBVIOUS
<1>. HIDE DEF Covered
<1>. QED
  BY <1>1, <1>2

LEMMA StringsSame ==
    ASSUME NEW l \in Seq(Strings), NEW m \in Seq(Strings)
    PROVE  normalizeStrings(l) = normalizeStrings(m) <=>
             Words(l) = Words(m)
<1>. DEFINE A == ToSet(l)
            B == ToSet(m)
            f == [x \in A \cup B |-> TrimSpace(x)]
            g == [x \in A \cup B |-> Word(x)]
<1>1. \A x \in A \cup B : x \in Strings
  BY DEF ToSet
<1>2. \A x, y \in A \cup B : f[x] = f[y] <=> g[x] = g[y]
  BY <1>1, WordSame
<1>3. /\ normalizeStrings(l) = ImageOf(f, A)
      /\ normalizeStrings(m) = ImageOf(f, B)
      /\ Words(l) = ImageOf(g, A)
      /\ Words(m) = ImageOf(g, B)
  BY DEF normalizeStrings, Words, ImageOf
<1>. HIDE DEF f, g, A, B
<1>4. ImageOf(f, A) = ImageOf(f, B) <=> ImageOf(g, A) = ImageOf(g, B)
  BY ONLY <1>2, ImagesSame
<1>. QED
  BY <1>3, <1>4, Zenon

LEMMA PrincipalsSame ==
    ASSUME NEW l \in Seq(PrincipalInputs), NEW m \in Seq(PrincipalInputs)
    PROVE  normalizePrincipals(l) = normalizePrincipals(m) <=>
             PrincipalsMeant(l) = PrincipalsMeant(m)
<1>. DEFINE A == ToSet(l)
            B == ToSet(m)
            f == [x \in A \cup B |-> NewPrincipal(x)]
            g == [x \in A \cup B |-> PrincipalMeant(x)]
<1>1. \A x \in A \cup B : x \in PrincipalInputs
  BY DEF ToSet
<1>2. \A x, y \in A \cup B : f[x] = f[y] <=> g[x] = g[y]
  BY <1>1, PrincipalSame
<1>3. /\ normalizePrincipals(l) = ImageOf(f, A)
      /\ normalizePrincipals(m) = ImageOf(f, B)
      /\ PrincipalsMeant(l) = ImageOf(g, A)
      /\ PrincipalsMeant(m) = ImageOf(g, B)
  BY DEF normalizePrincipals, PrincipalsMeant, ImageOf
<1>. HIDE DEF f, g, A, B
<1>4. ImageOf(f, A) = ImageOf(f, B) <=> ImageOf(g, A) = ImageOf(g, B)
  BY ONLY <1>2, ImagesSame
<1>. QED
  BY <1>3, <1>4, Zenon

LEMMA ScopeSame ==
    ASSUME NEW s \in ScopeInputs, NEW t \in ScopeInputs, ValidScope(s), ValidScope(t)
    PROVE  NewAuthorizationScope(s) = NewAuthorizationScope(t) <=> ScopeMeant(s) = ScopeMeant(t)
<1>1. /\ s.destinationScope \in Strings /\ t.destinationScope \in Strings
      /\ s.requestedScope \in Strings /\ t.requestedScope \in Strings
      /\ s.deleteMode \in Strings /\ t.deleteMode \in Strings
  BY DEF ScopeInputs
<1>2. s.actionType \in ActionTypes /\ t.actionType \in ActionTypes
  BY ValidScopeCases
<1>. DEFINE Kept(x) == IF x.actionType = "EXTERNAL_SEND" THEN x.destinationScope
                       ELSE IF x.actionType = "UPDATE_RESOURCE_ACCESS" THEN x.requestedScope
                       ELSE x.deleteMode
<1>3. ASSUME NEW x \in ScopeInputs, x.actionType \in ActionTypes
      PROVE  ScopeMeant(x) = <<x.actionType, Kept(x).text>>
  <2>1. CASE x.actionType = "EXTERNAL_SEND"
    BY <2>1, Zenon DEF ScopeMeant
  <2>2. CASE x.actionType = "UPDATE_RESOURCE_ACCESS"
    BY <2>2, Zenon DEF ScopeMeant
  <2>3. CASE x.actionType = "DELETE"
    BY <2>3, Zenon DEF ScopeMeant
  <2>. QED
    BY <1>3, <2>1, <2>2, <2>3 DEF ActionTypes
<1>4. ScopeMeant(s) = ScopeMeant(t) <=>
        s.actionType = t.actionType /\ Kept(s).text = Kept(t).text
  BY <1>2, <1>3
<1>5. Vocable(Kept(s)) = Vocable(Kept(t)) <=> Kept(s).text = Kept(t).text
  BY <1>1, SameVocable
<1>6. ASSUME NEW x \in ScopeInputs, x.actionType \in ActionTypes
      PROVE  NewAuthorizationScope(x) =
               [actionType |-> x.actionType,
                destinationScope |-> IF x.actionType = "EXTERNAL_SEND"
                                     THEN Vocable(Kept(x)) ELSE Empty,
                requestedScope |-> IF x.actionType = "UPDATE_RESOURCE_ACCESS"
                                   THEN Vocable(Kept(x)) ELSE Empty,
                deleteMode |-> IF x.actionType = "DELETE"
                               THEN Vocable(Kept(x)) ELSE Empty]
  BY DEF NewAuthorizationScope, ActionTypes
<1>. HIDE DEF Kept
<1>7. NewAuthorizationScope(s) = NewAuthorizationScope(t) <=>
        s.actionType = t.actionType /\ Vocable(Kept(s)) = Vocable(Kept(t))
  BY <1>2, <1>6 DEF ActionTypes
<1>. QED
  BY <1>4, <1>5, <1>7

LEMMA ItemSame ==
    ASSUME NEW d \in EvidenceInputs, NEW e \in EvidenceInputs,
           ValidScope(d.scope), ValidScope(e.scope)
    PROVE  NewAuthorizationEvidence(d) = NewAuthorizationEvidence(e) <=>
             ItemMeant(d) = ItemMeant(e)
<1>1. /\ d.type \in Strings /\ d.id \in Strings
      /\ d.issuedBy \in PrincipalInputs /\ d.scope \in ScopeInputs
      /\ e.type \in Strings /\ e.id \in Strings
      /\ e.issuedBy \in PrincipalInputs /\ e.scope \in ScopeInputs
  BY DEF EvidenceInputs
<1>2. Vocable(d.type) = Vocable(e.type) <=> d.type.text = e.type.text
  BY <1>1, SameVocable
<1>3. TrimSpace(d.id) = TrimSpace(e.id) <=> Word(d.id) = Word(e.id)
  BY <1>1, WordSame
<1>4. NewPrincipal(d.issuedBy) = NewPrincipal(e.issuedBy) <=>
        PrincipalMeant(d.issuedBy) = PrincipalMeant(e.issuedBy)
  BY <1>1, PrincipalSame
<1>5. NewAuthorizationScope(d.scope) = NewAuthorizationScope(e.scope) <=>
        ScopeMeant(d.scope) = ScopeMeant(e.scope)
  BY <1>1, ScopeSame
<1>. QED
  BY <1>2, <1>3, <1>4, <1>5 DEF NewAuthorizationEvidence, ItemMeant

LEMMA EvidenceSame ==
    ASSUME NEW l \in Seq(EvidenceInputs), NEW m \in Seq(EvidenceInputs),
           ValidEvidence(l), ValidEvidence(m)
    PROVE  NormalizeAuthorizationEvidence(l) = NormalizeAuthorizationEvidence(m) <=>
             EvidenceMeant(l) = EvidenceMeant(m)
<1>. DEFINE A == ToSet(l)
            B == ToSet(m)
            f == [x \in A \cup B |-> NewAuthorizationEvidence(x)]
            g == [x \in A \cup B |-> ItemMeant(x)]
<1>1. \A x \in A \cup B : x \in EvidenceInputs /\ ValidScope(x.scope)
  BY DEF ToSet, ValidEvidence
<1>2. \A x, y \in A \cup B : f[x] = f[y] <=> g[x] = g[y]
  BY <1>1, ItemSame
<1>3. /\ NormalizeAuthorizationEvidence(l) = ImageOf(f, A)
      /\ NormalizeAuthorizationEvidence(m) = ImageOf(f, B)
      /\ EvidenceMeant(l) = ImageOf(g, A)
      /\ EvidenceMeant(m) = ImageOf(g, B)
  BY DEF NormalizeAuthorizationEvidence, EvidenceMeant, ImageOf
<1>. HIDE DEF f, g, A, B
<1>4. ImageOf(f, A) = ImageOf(f, B) <=> ImageOf(g, A) = ImageOf(g, B)
  BY ONLY <1>2, ImagesSame
<1>. QED
  BY <1>3, <1>4, Zenon

LEMMA NormalParameters ==
    ASSUME NEW p \in ParametersInputs
    PROVE  /\ p.type \in ActionTypes
           /\ p.type = "EXTERNAL_SEND" =>
                normalizeParameters(p) =
                    [type |-> p.type, destinationScope |-> Vocable(p.destinationScope),
                     recipients |-> normalizeStrings(p.recipients)]
           /\ p.type = "UPDATE_RESOURCE_ACCESS" =>
                normalizeParameters(p) =
                    [type |-> p.type, currentScope |-> Vocable(p.currentScope),
                     requestedScope |-> Vocable(p.requestedScope),
                     targetPrincipals |-> normalizePrincipals(p.targetPrincipals)]
           /\ p.type = "DELETE" =>
                normalizeParameters(p) =
                    [type |-> p.type, deleteMode |-> Vocable(p.deleteMode),
                     recoverable |-> p.recoverable]
<1>1. p.type \in ActionTypes
  BY DEF ParametersInputs, ActionTypes
<1>2. CASE p.type = "EXTERNAL_SEND"
  <2>1. normalizeParameters(p) =
          [type |-> p.type, destinationScope |-> Vocable(p.destinationScope),
           recipients |-> normalizeStrings(p.recipients)]
    BY <1>2, Zenon DEF normalizeParameters
  <2>. QED
    BY <1>1, <1>2, <2>1
<1>3. CASE p.type = "UPDATE_RESOURCE_ACCESS"
  <2>1. normalizeParameters(p) =
          [type |-> p.type, currentScope |-> Vocable(p.currentScope),
           requestedScope |-> Vocable(p.requestedScope),
           targetPrincipals |-> normalizePrincipals(p.targetPrincipals)]
    BY <1>3, Zenon DEF normalizeParameters
  <2>. QED
    BY <1>1, <1>3, <2>1
<1>4. CASE p.type = "DELETE"
  <2>1. normalizeParameters(p) =
          [type |-> p.type, deleteMode |-> Vocable(p.deleteMode),
           recoverable |-> p.recoverable]
    BY <1>4, Zenon DEF normalizeParameters
  <2>. QED
    BY <1>1, <1>4, <2>1
<1>. QED
  BY <1>1, <1>2, <1>3, <1>4 DEF ActionTypes

LEMMA MeantParameters ==
    ASSUME NEW p \in ParametersInputs
    PROVE  /\ p.type = "EXTERNAL_SEND" =>
                ParametersMeant(p) =
                    <<p.type, p.destinationScope.text, Words(p.recipients)>>
           /\ p.type = "UPDATE_RESOURCE_ACCESS" =>
                ParametersMeant(p) =
                    <<p.type, p.currentScope.text, p.requestedScope.text,
                      PrincipalsMeant(p.targetPrincipals)>>
           /\ p.type = "DELETE" =>
                ParametersMeant(p) = <<p.type, p.deleteMode.text, p.recoverable>>
<1>1. ASSUME p.type = "EXTERNAL_SEND"
      PROVE  ParametersMeant(p) =
               <<p.type, p.destinationScope.text, Words(p.recipients)>>
  BY <1>1, Zenon DEF ParametersMeant
<1>2. ASSUME p.type = "UPDATE_RESOURCE_ACCESS"
      PROVE  ParametersMeant(p) =
               <<p.type, p.currentScope.text, p.requestedScope.text,
                 PrincipalsMeant(p.targetPrincipals)>>
  BY <1>2, Zenon DEF ParametersMeant
<1>3. ASSUME p.type = "DELETE"
      PROVE  ParametersMeant(p) = <<p.type, p.deleteMode.text, p.recoverable>>
  BY <1>3, Zenon DEF ParametersMeant
<1>. QED
  BY <1>1, <1>2, <1>3, Zenon

LEMMA ParametersSame ==
    ASSUME NEW p \in ParametersInputs, NEW q \in ParametersInputs
    PROVE  /\ normalizeParameters(p) = normalizeParameters(q) <=>
                ParametersMeant(p) = ParametersMeant(q)
           /\ normalizeParameters(p) = normalizeParameters(q) => p.type = q.type
<1>1. /\ p.type \in ActionTypes /\ normalizeParameters(p).type = p.type
      /\ q.type \in ActionTypes /\ normalizeParameters(q).type = q.type
  BY NormalParameters DEF ActionTypes
<1>2. ParametersMeant(p)[1] = p.type /\ ParametersMeant(q)[1] = q.type
  <2>1. ASSUME NEW x \in ParametersInputs
        PROVE  ParametersMeant(x)[1] = x.type
    <3>1. x.type \in ActionTypes
      BY NormalParameters
    <3>2. CASE x.type = "EXTERNAL_SEND"
      BY <3>2, MeantParameters
    <3>3. CASE x.type = "UPDATE_RESOURCE_ACCESS"
      BY <3>3, MeantParameters
    <3>4. CASE x.type = "DELETE"
      BY <3>4, MeantParameters
    <3>. QED
      BY <3>1, <3>2, <3>3, <3>4 DEF ActionTypes
  <2>. QED
    BY <2>1
<1>3. CASE p.type # q.type
  BY <1>1, <1>2, <1>3
<1>4. CASE p.type = "EXTERNAL_SEND" /\ q.type = "EXTERNAL_SEND"
  <2>1. /\ p.destinationScope \in Strings /\ p.recipients \in Seq(Strings)
        /\ q.destinationScope \in Strings /\ q.recipients \in Seq(Strings)
    BY <1>4 DEF ParametersInputs
  <2>2. Vocable(p.destinationScope) = Vocable(q.destinationScope) <=>
          p.destinationScope.text = q.destinationScope.text
    BY <2>1, SameVocable
  <2>3. normalizeStrings(p.recipients) = normalizeStrings(q.recipients) <=>
          Words(p.recipients) = Words(q.recipients)
    BY <2>1, StringsSame
  <2>4. normalizeParameters(p) = normalizeParameters(q) <=>
          /\ Vocable(p.destinationScope) = Vocable(q.destinationScope)
          /\ normalizeStrings(p.recipients) = normalizeStrings(q.recipients)
    BY <1>4, NormalParameters
  <2>5. ParametersMeant(p) = ParametersMeant(q) <=>
          /\ p.destinationScope.text = q.destinationScope.text
          /\ Words(p.recipients) = Words(q.recipients)
    BY <1>4, MeantParameters
  <2>. QED
    BY <1>4, <2>2, <2>3, <2>4, <2>5, Zenon
<1>5. CASE p.type = "UPDATE_RESOURCE_ACCESS" /\ q.type = "UPDATE_RESOURCE_ACCESS"
  <2>1. /\ p.currentScope \in Strings /\ p.requestedScope \in Strings
        /\ q.currentScope \in Strings /\ q.requestedScope \in Strings
        /\ p.targetPrincipals \in Seq(PrincipalInputs)
        /\ q.targetPrincipals \in Seq(PrincipalInputs)
    BY <1>5 DEF ParametersInputs
  <2>2. /\ Vocable(p.currentScope) = Vocable(q.currentScope) <=>
             p.currentScope.text = q.currentScope.text
        /\ Vocable(p.requestedScope) = Vocable(q.requestedScope) <=>
             p.requestedScope.text = q.requestedScope.text
    BY <2>1, SameVocable
  <2>3. normalizePrincipals(p.targetPrincipals) = normalizePrincipals(q.targetPrincipals) <=>
          PrincipalsMeant(p.targetPrincipals) =
          PrincipalsMeant(q.targetPrincipals)
    BY <2>1, PrincipalsSame
  <2>4. normalizeParameters(p) = normalizeParameters(q) <=>
          /\ Vocable(p.currentScope) = Vocable(q.currentScope)
          /\ Vocable(p.requestedScope) = Vocable(q.requestedScope)
          /\ normalizePrincipals(p.targetPrincipals) = normalizePrincipals(q.targetPrincipals)
    BY <1>5, NormalParameters
  <2>5. ParametersMeant(p) = ParametersMeant(q) <=>
          /\ p.currentScope.text = q.currentScope.text
          /\ p.requestedScope.text = q.requestedScope.text
          /\ PrincipalsMeant(p.targetPrincipals) =
             PrincipalsMeant(q.targetPrincipals)
    BY <1>5, MeantParameters
  <2>. QED
    BY <1>5, <2>2, <2>3, <2>4, <2>5, Zenon
<1>6. CASE p.type = "DELETE" /\ q.type = "DELETE"
  <2>1. p.deleteMode \in Strings /\ q.deleteMode \in Strings
    BY <1>6 DEF ParametersInputs
  <2>2. Vocable(p.deleteMode) = Vocable(q.deleteMode) <=> p.deleteMode.text = q.deleteMode.text
    BY <2>1, SameVocable
  <2>. QED
    BY <1>6, <2>2, NormalParameters, MeantParameters
<1>. QED
  BY <1>1, <1>3, <1>4, <1>5, <1>6 DEF ActionTypes

LEMMA PayloadSame ==
    ASSUME NEW p \in [digest : Strings, classification : Seq(Strings), sizeBytes : Seq(Int)],
           NEW q \in [digest : Strings, classification : Seq(Strings), sizeBytes : Seq(Int)]
    PROVE  NewPayloadFacts(p) = NewPayloadFacts(q) <=>
             <<Word(p.digest), p.sizeBytes, Words(p.classification)>> =
             <<Word(q.digest), q.sizeBytes, Words(q.classification)>>
<1>1. TrimSpace(p.digest) = TrimSpace(q.digest) <=> Word(p.digest) = Word(q.digest)
  BY WordSame
<1>2. normalizeStrings(p.classification) = normalizeStrings(q.classification) <=>
        Words(p.classification) = Words(q.classification)
  BY StringsSame
<1>. QED
  BY <1>1, <1>2 DEF NewPayloadFacts

\* What the normalizer keeps of an action is what the client meant, no more and
\* no less: two acceptable actions are normalized to one exactly when they come
\* from one runtime and mean the same.
THEOREM NormalizationIsMeaning ==
    ASSUME NEW a \in ProposedActionInputs, NEW b \in ProposedActionInputs,
           ValidAction(a), ValidAction(b), NEW rt, NEW ru
    PROVE  NewProposedAction(rt, a) = NewProposedAction(ru, b) <=>
             rt = ru /\ Meaning(a) = Meaning(b)
<1>. DEFINE Typed(x) ==
         /\ x.requestedAt \in Times
         /\ x.actor.agentID \in Strings /\ x.actor.sessionID \in Strings
         /\ x.delegation.id \in Strings /\ x.delegation.delegator \in PrincipalInputs
         /\ x.target.resourceType \in Strings /\ x.target.resourceID \in Strings
         /\ x.parameters \in ParametersInputs
         /\ x.payload \in [digest : Strings, classification : Seq(Strings),
                           sizeBytes : Seq(Int)]
         /\ x.evidence \in Seq(EvidenceInputs)
<1>1. Typed(a) /\ Typed(b)
  BY DEF ProposedActionInputs, EvidenceInputs
<1>2. a.parameters.type = a.type /\ b.parameters.type = b.type
  BY DEF ValidAction
<1>3. UTC(a.requestedAt) = UTC(b.requestedAt) <=> Meaning(a).at = Meaning(b).at
  BY <1>1 DEF UTC, Instant, Meaning
<1>4. /\ TrimSpace(a.actor.agentID) = TrimSpace(b.actor.agentID) <=>
           Meaning(a).agent = Meaning(b).agent
      /\ TrimSpace(a.actor.sessionID) = TrimSpace(b.actor.sessionID) <=>
           Meaning(a).session = Meaning(b).session
  BY <1>1, WordSame DEF Meaning
<1>5. /\ TrimSpace(a.delegation.id) = TrimSpace(b.delegation.id)
      /\ NewPrincipal(a.delegation.delegator) = NewPrincipal(b.delegation.delegator)
      <=> Meaning(a).delegation = Meaning(b).delegation
  BY <1>1, WordSame, PrincipalSame DEF Meaning
<1>6. /\ TrimSpace(a.target.resourceType) = TrimSpace(b.target.resourceType)
      /\ TrimSpace(a.target.resourceID) = TrimSpace(b.target.resourceID)
      <=> Meaning(a).target = Meaning(b).target
  BY <1>1, WordSame DEF Meaning
<1>7. /\ normalizeParameters(a.parameters) = normalizeParameters(b.parameters) <=>
           Meaning(a).parameters = Meaning(b).parameters
      /\ normalizeParameters(a.parameters) = normalizeParameters(b.parameters) =>
           a.type = b.type
  BY <1>1, <1>2, ParametersSame DEF Meaning
<1>8. NewPayloadFacts(a.payload) = NewPayloadFacts(b.payload) <=>
        Meaning(a).payload = Meaning(b).payload
  BY <1>1, PayloadSame DEF Meaning
<1>9. NormalizeAuthorizationEvidence(a.evidence) = NormalizeAuthorizationEvidence(b.evidence)
        <=> Meaning(a).evidence = Meaning(b).evidence
  BY <1>1, EvidenceSame DEF ValidAction, Meaning
<1>10. Meaning(a) = Meaning(b) <=>
         /\ Meaning(a).at = Meaning(b).at
         /\ Meaning(a).agent = Meaning(b).agent
         /\ Meaning(a).session = Meaning(b).session
         /\ Meaning(a).delegation = Meaning(b).delegation
         /\ Meaning(a).target = Meaning(b).target
         /\ Meaning(a).parameters = Meaning(b).parameters
         /\ Meaning(a).payload = Meaning(b).payload
         /\ Meaning(a).evidence = Meaning(b).evidence
  BY DEF Meaning
<1>11. NewProposedAction(rt, a) = NewProposedAction(ru, b) <=>
         /\ a.type = b.type
         /\ UTC(a.requestedAt) = UTC(b.requestedAt)
         /\ TrimSpace(a.actor.agentID) = TrimSpace(b.actor.agentID)
         /\ rt = ru
         /\ TrimSpace(a.actor.sessionID) = TrimSpace(b.actor.sessionID)
         /\ TrimSpace(a.delegation.id) = TrimSpace(b.delegation.id)
         /\ NewPrincipal(a.delegation.delegator) = NewPrincipal(b.delegation.delegator)
         /\ TrimSpace(a.target.resourceType) = TrimSpace(b.target.resourceType)
         /\ TrimSpace(a.target.resourceID) = TrimSpace(b.target.resourceID)
         /\ normalizeParameters(a.parameters) = normalizeParameters(b.parameters)
         /\ NewPayloadFacts(a.payload) = NewPayloadFacts(b.payload)
         /\ NormalizeAuthorizationEvidence(a.evidence) =
              NormalizeAuthorizationEvidence(b.evidence)
  BY DEF NewProposedAction
<1>. HIDE DEF Typed
<1>. QED
  BY <1>3, <1>4, <1>5, <1>6, <1>7, <1>8, <1>9, <1>10, <1>11

\* Neither the digest nor the coordinator's JSON loses anything of it.
LEMMA FormsInjective ==
    ASSUME NEW a \in ProposedActionInputs, NEW b \in ProposedActionInputs, NEW rt, NEW ru
    PROVE  LET m == NewProposedAction(rt, a)
               n == NewProposedAction(ru, b)
           IN  /\ CanonicalAction(m) = CanonicalAction(n) <=> m = n
               /\ marshalAction(m) = marshalAction(n) <=> m = n
<1>. DEFINE m == NewProposedAction(rt, a)
            n == NewProposedAction(ru, b)
            Session(s) == IF s = Empty THEN <<>> ELSE <<s>>
            Shown(y) == /\ marshalAction(y).type = y.type
                        /\ marshalAction(y).requestedAt = Instant(y.requestedAt)
                        /\ marshalAction(y).actor =
                             [agentID |-> y.actor.agentID, runtimeID |-> y.actor.runtimeID,
                              sessionID |-> Session(y.actor.sessionID)]
                        /\ marshalAction(y).delegation = y.delegation
                        /\ marshalAction(y).target = y.target
                        /\ marshalAction(y).parameters = y.parameters
                        /\ marshalAction(y).payload = y.payload
                        /\ marshalAction(y).evidence = y.evidence
<1>1. /\ m.requestedAt = UTC(a.requestedAt) /\ a.requestedAt \in Times
      /\ n.requestedAt = UTC(b.requestedAt) /\ b.requestedAt \in Times
  BY DEF NewProposedAction, ProposedActionInputs
<1>2. Instant(m.requestedAt) = Instant(n.requestedAt) <=> m.requestedAt = n.requestedAt
  BY <1>1, InstantFacts DEF UTC
<1>3. \A s, t : Session(s) = Session(t) <=> s = t
  OBVIOUS
<1>4. m = n <=>
        /\ m.type = n.type /\ m.requestedAt = n.requestedAt
        /\ m.actor.agentID = n.actor.agentID /\ m.actor.runtimeID = n.actor.runtimeID
        /\ m.actor.sessionID = n.actor.sessionID
        /\ m.delegation = n.delegation /\ m.target = n.target
        /\ m.parameters = n.parameters /\ m.payload = n.payload
        /\ m.evidence = n.evidence
  BY DEF NewProposedAction
<1>5. ASSUME NEW c, NEW x \in ProposedActionInputs
      PROVE  LET y == NewProposedAction(c, x)
             IN  /\ CanonicalAction(y).type = y.type
                 /\ CanonicalAction(y).requestedAt = Instant(y.requestedAt)
                 /\ CanonicalAction(y).actor = y.actor
                 /\ CanonicalAction(y).delegation = y.delegation
                 /\ CanonicalAction(y).target = y.target
                 /\ CanonicalAction(y).parameters = y.parameters
                 /\ CanonicalAction(y).payload = y.payload
                 /\ CanonicalAction(y).evidence = y.evidence
  BY DEF CanonicalAction, NewProposedAction
<1>6. Shown(m) /\ Shown(n)
  BY DEF marshalAction, NewProposedAction
<1>. HIDE DEF m, n, Session
<1>7. CanonicalAction(m) = CanonicalAction(n) => m = n
  BY <1>2, <1>4, <1>5 DEF m, n
<1>8. marshalAction(m) = marshalAction(n) => m = n
  <2>. SUFFICES ASSUME marshalAction(m) = marshalAction(n)
                PROVE  m = n
    OBVIOUS
  <2>1. /\ m.actor.agentID = n.actor.agentID
        /\ m.actor.runtimeID = n.actor.runtimeID
        /\ Session(m.actor.sessionID) = Session(n.actor.sessionID)
    <3>1. [agentID |-> m.actor.agentID, runtimeID |-> m.actor.runtimeID,
           sessionID |-> Session(m.actor.sessionID)] =
          [agentID |-> n.actor.agentID, runtimeID |-> n.actor.runtimeID,
           sessionID |-> Session(n.actor.sessionID)]
      BY <1>6, Zenon
    <3>. QED
      BY <3>1
  <2>2. /\ m.type = n.type /\ Instant(m.requestedAt) = Instant(n.requestedAt)
        /\ m.delegation = n.delegation /\ m.target = n.target
        /\ m.parameters = n.parameters /\ m.payload = n.payload
        /\ m.evidence = n.evidence
    BY <1>6, Zenon
  <2>3. m.actor.sessionID = n.actor.sessionID
    BY <1>3, <2>1, Zenon
  <2>. QED
    BY <1>2, <1>4, <2>1, <2>2, <2>3, Zenon
<1>. QED
  BY <1>7, <1>8 DEF m, n

-----------------------------------------------------------------------------
(* The inductive invariant                                                 *)

Statuses == {200, 400, 401, 403, 409, 422, 500}

AcceptedRequests == {r \in Requests : Accepted(r)}

DigestsSent == {Digest(r) : r \in AcceptedRequests}

Records == [decisionID : Nat, evaluation : Evaluations, digest : DigestsSent]

Replies == [status : Statuses, record : Records \cup {NoValue}]

\* Only the latest attempt may be without a reply, and it is past the checks
\* exactly when its request passes them.
AttemptFits ==
    /\ policyEvaluator \in PolicyEvaluators
    /\ stage \in {"idle", "received", "policy", "commit", "committed"}
    /\ sent \in Seq(Requests) /\ Len(sent) <= MaxAttempts
    /\ replies \in Seq(Replies)
    /\ stage = "idle" => Len(replies) = Len(sent)
    /\ stage # "idle" => Len(replies) + 1 = Len(sent)
    /\ stage \in {"policy", "commit", "committed"} => Accepted(request)
    /\ stage \in {"commit", "committed"} => evaluation \in Evaluations
    /\ stage \notin {"commit", "committed"} => evaluation = NoValue
    /\ faulty \subseteq DOMAIN sent

\* A row is made of the request of the attempt whose number is its decision ID,
\* and until that attempt is answered it is in the stage after the commit.
RowFits(row) ==
    LET r == sent[row.decisionID]
    IN  /\ row.decisionID \in DOMAIN sent
        /\ row.evaluation \in Evaluations
        /\ Accepted(r)
        /\ row.key = Key(r)
        /\ row.digest = Digest(r)
        /\ row.action = CanonicalAction(NormalizedAction(r))
        /\ row.decisionID \in DOMAIN replies \/ stage = "committed"

LedgerFits ==
    /\ \A row \in ledger : RowFits(row)
    /\ \A x, y \in ledger : x.key = y.key => x = y
    /\ stage \in {"policy", "commit"} => \A row \in ledger : row.key # Key(request)

\* The status of a request that the checks turn away.
RefusalStatus(r) ==
    IF ~ Authenticates(r) THEN 401
    ELSE IF ~ Decoded(r) THEN 400
    ELSE IF ~ Mapped(r) THEN 422
    ELSE writeApplicationError(InputErrors(r))

ReplyFits(i) ==
    /\ replies[i].status = 200 =>
         \E row \in ledger : replies[i].record = RecordOf(row)
    /\ i \notin faulty =>
         /\ \A row \in ledger : row.decisionID = i => replies[i].status = 200
         /\ ~ Accepted(sent[i]) => replies[i].status = RefusalStatus(sent[i])
         /\ Accepted(sent[i]) => \/ replies[i].status \in {200, 409}
                                 \/ replies[i].status = 500 /\ Hopeless(sent[i])

RepliesFit == \A i \in DOMAIN replies : ReplyFits(i)

FactsSeen ==
    [attempt : Nat, input : {EvaluatorInput(NormalizedAction(r)) : r \in AcceptedRequests}]

FactFits(x) ==
    /\ x.attempt \in DOMAIN sent
    /\ Accepted(sent[x.attempt])
    /\ x.input = EvaluatorInput(NormalizedAction(sent[x.attempt]))

FactsFit == facts \in Seq(FactsSeen) /\ \A x \in ToSet(facts) : FactFits(x)

IInv == AttemptFits /\ LedgerFits /\ RepliesFit /\ FactsFit

-----------------------------------------------------------------------------
(* What the checks establish                                               *)

LEMMA AuthenticateFacts ==
    ASSUME NEW r \in Requests, Authenticates(r)
    PROVE  Authenticate(r) \in Strings /\ ValidIdentifier(Authenticate(r))
<1>. DEFINE t == TrimSpace(r.header[2])
            Holder == CHOOSE c \in Credentials : TrimSpace(c.token) = t
<1>1. t \in {TrimSpace(c.token) : c \in Credentials}
  BY DEF Authenticates, runtimesByToken
<1>2. \E c \in Credentials : TrimSpace(c.token) = t
  BY <1>1
<1>3. Holder \in Credentials
  BY <1>2
<1>4. Authenticate(r) = TrimSpace(Holder.runtimeID)
  BY <1>1 DEF Authenticate, runtimesByToken
<1>5. Holder.runtimeID \in Strings /\ ValidIdentifier(Holder.runtimeID)
  BY <1>3, CredentialsAssumption
<1>. HIDE DEF Holder
<1>. QED
  BY <1>4, <1>5, TrimSpaceFacts, TrimmedIdentifier

LEMMA AcceptedFacts ==
    ASSUME NEW r \in Requests, Accepted(r)
    PROVE  /\ r.action \in ProposedActionInputs /\ ValidAction(r.action)
           /\ r.requestID \in Strings
           /\ Authenticate(r) \in Strings /\ ValidIdentifier(Authenticate(r))
<1>1. r.action \in ProposedActionInputs /\ r.requestID \in Strings
  BY RequestsAssumption
<1>2. InputErrors(r) = {} /\ Authenticates(r)
  BY DEF Accepted
<1>3. ValidAction(r.action)
  BY <1>2 DEF InputErrors, NormalizeErrors
<1>. QED
  BY <1>1, <1>2, <1>3, AuthenticateFacts

LEMMA ErrorStatuses ==
    /\ writeApplicationError({"LedgerFailure"}) = 500
    /\ writeApplicationError({"PolicyUnavailable"}) = 500
    /\ writeApplicationError({"RequestIDConflict"}) = 409
    /\ \A r : InputErrors(r) # {} => writeApplicationError(InputErrors(r)) \in {403, 422}
<1>1. \A r : InputErrors(r) # {} => writeApplicationError(InputErrors(r)) \in {403, 422}
  BY DEF InputErrors, NormalizeErrors, writeApplicationError
<1>. QED
  BY <1>1 DEF writeApplicationError

LEMMA SameKeys ==
    ASSUME NEW r \in AcceptedRequests, NEW s \in AcceptedRequests
    PROVE  Key(r) = Key(s) <=> KeyMeant(r) = KeyMeant(s)
<1>1. r.requestID \in Strings /\ s.requestID \in Strings
  BY AcceptedFacts DEF AcceptedRequests
<1>. QED
  BY <1>1, WordSame DEF Key, KeyMeant, normalizeDecisionRequestID

\* Two digests are equal exactly when one runtime means one action.
LEMMA SameDigests ==
    ASSUME NEW r \in AcceptedRequests, NEW s \in AcceptedRequests
    PROVE  /\ NormalizedAction(r) = NormalizedAction(s) <=>
                /\ Authenticate(r) = Authenticate(s)
                /\ Meaning(r.action) = Meaning(s.action)
           /\ Digest(r) = Digest(s) <=> NormalizedAction(r) = NormalizedAction(s)
           /\ marshalAction(NormalizedAction(r)) = marshalAction(NormalizedAction(s))
                <=> NormalizedAction(r) = NormalizedAction(s)
<1>1. /\ r.action \in ProposedActionInputs /\ ValidAction(r.action)
      /\ s.action \in ProposedActionInputs /\ ValidAction(s.action)
  BY AcceptedFacts DEF AcceptedRequests
<1>2. NormalizedAction(r) = NormalizedAction(s) <=>
        /\ Authenticate(r) = Authenticate(s)
        /\ Meaning(r.action) = Meaning(s.action)
  BY <1>1, NormalizationIsMeaning DEF NormalizedAction, normalizeAction
<1>3. /\ Digest(r) = Digest(s) <=> NormalizedAction(r) = NormalizedAction(s)
      /\ marshalAction(NormalizedAction(r)) = marshalAction(NormalizedAction(s))
           <=> NormalizedAction(r) = NormalizedAction(s)
  BY <1>1, FormsInjective
     DEF Digest, ComputeActionDigest, NormalizedAction, normalizeAction
<1>. QED
  BY <1>2, <1>3

\* A row made of an accepted request can be read back, except for its time.
LEMMA RowReadable ==
    ASSUME NEW r \in AcceptedRequests, NEW row,
           row.action = CanonicalAction(NormalizedAction(r)), row.digest = Digest(r),
           Representable(row.action.requestedAt)
    PROVE  Readable(row) /\ decodeAction(row.action) = NormalizedAction(r)
<1>1. /\ r.action \in ProposedActionInputs /\ ValidAction(r.action)
      /\ Authenticate(r) \in Strings /\ ValidIdentifier(Authenticate(r))
  BY AcceptedFacts DEF AcceptedRequests
<1>2. NormalizedAction(r) = NewProposedAction(Authenticate(r), r.action)
  BY DEF NormalizedAction, normalizeAction
<1>3. CanonicalAction(NormalizedAction(r)).requestedAt = Instant(r.action.requestedAt)
  BY <1>1, <1>2, CanonicalFacts
<1>4. Decodes(row.action) /\ decodeAction(row.action) = NormalizedAction(r)
  BY <1>1, <1>2, <1>3, DecodeUndoesEncode
<1>. QED
  BY <1>4 DEF Readable, Digest, ComputeActionDigest

LEMMA KeyOfActor ==
    ASSUME NEW r
    PROVE  NormalizedAction(r).actor.runtimeID = Key(r).runtimeID
BY DEF NormalizedAction, normalizeAction, NewProposedAction, Key

-----------------------------------------------------------------------------
(* Steps                                                                   *)

\* Requests that were sent stay where they are.
SentKept ==
    /\ DOMAIN sent \subseteq DOMAIN sent'
    /\ \A i \in DOMAIN sent : sent'[i] = sent[i]

LEMMA FactsKept ==
    ASSUME FactsFit, SentKept, UNCHANGED <<facts, policyEvaluator>>
    PROVE  FactsFit'
<1>1. FactsSeen' = FactsSeen
  BY DEF FactsSeen, EvaluatorInput
<1>2. ASSUME NEW x \in ToSet(facts)
      PROVE  FactFits(x)'
  <2>1. FactFits(x)
    BY DEF FactsFit
  <2>. QED
    BY <2>1 DEF FactFits, SentKept, EvaluatorInput
<1>. QED
  BY <1>1, <1>2 DEF FactsFit

LEMMA RowsKept ==
    ASSUME NEW row, RowFits(row), SentKept, DOMAIN replies \subseteq DOMAIN replies',
           row.decisionID \in DOMAIN replies' \/ stage' = "committed"
    PROVE  RowFits(row)'
BY DEF RowFits, SentKept

LEMMA RepliesKept ==
    ASSUME AttemptFits, NEW i \in DOMAIN replies, ReplyFits(i), SentKept,
           replies'[i] = replies[i], faulty \subseteq faulty',
           policyEvaluator' = policyEvaluator, ledger \subseteq ledger',
           \A row \in ledger' \ ledger : row.decisionID # i
    PROVE  ReplyFits(i)'
<1>1. i \in DOMAIN sent /\ sent'[i] = sent[i]
  BY DEF AttemptFits, SentKept
<1>2. Hopeless(sent[i]) => Hopeless(sent[i])'
  BY <1>1 DEF Hopeless, EvaluatorFails
<1>. QED
  BY <1>1, <1>2 DEF ReplyFits

\* A reply to the attempt, with the ledger left alone.
LEMMA Replying ==
    ASSUME IInv, stage # "idle", NEW reply \in Replies, Reply(reply),
           UNCHANGED <<ledger, facts, policyEvaluator>>,
           faulty' \in {faulty, faulty \cup {attempt}},
           reply.status = 200 => \E row \in ledger : reply.record = RecordOf(row),
           attempt \notin faulty' =>
             /\ stage = "committed" => reply.status = 200
             /\ ~ Accepted(request) => reply.status = RefusalStatus(request)
             /\ Accepted(request) => \/ reply.status \in {200, 409}
                                     \/ reply.status = 500 /\ Hopeless(request)
    PROVE  IInv'
<1>. USE DEF IInv
<1>1. /\ replies' = Append(replies, reply) /\ stage' = "idle"
      /\ evaluation' = NoValue /\ sent' = sent
  BY DEF Reply
<1>2. /\ sent \in Seq(Requests) /\ replies \in Seq(Replies)
      /\ Len(replies) + 1 = Len(sent) /\ Len(sent) \in Nat
      /\ DOMAIN sent = 1..Len(sent) /\ DOMAIN replies = 1..Len(replies)
  BY DEF AttemptFits
<1>3. /\ replies' \in Seq(Replies) /\ Len(replies') = Len(replies) + 1
      /\ DOMAIN replies' = 1..Len(sent)
      /\ \A i \in DOMAIN replies : replies'[i] = replies[i]
      /\ replies'[attempt] = reply
      /\ attempt \in DOMAIN sent /\ DOMAIN replies \subseteq DOMAIN replies'
  BY <1>1, <1>2 DEF attempt
<1>4. SentKept
  BY <1>1 DEF SentKept
<1>5. AttemptFits'
  BY <1>1, <1>2, <1>3 DEF AttemptFits
<1>6. LedgerFits'
  <2>1. \A row \in ledger : RowFits(row)'
    BY <1>2, <1>3, <1>4, RowsKept DEF LedgerFits, RowFits
  <2>. QED
    BY <1>1, <2>1 DEF LedgerFits
<1>7. ASSUME NEW i \in DOMAIN replies'
      PROVE  ReplyFits(i)'
  <2>1. CASE i \in DOMAIN replies
    BY <1>3, <1>4, <2>1, RepliesKept DEF RepliesFit
  <2>2. CASE i = attempt
    <3>1. \A row \in ledger : row.decisionID = attempt => stage = "committed"
      BY <1>2 DEF LedgerFits, RowFits, attempt
    <3>2. sent'[i] = request /\ replies'[i] = reply
      BY <1>1, <1>3, <2>2 DEF request
    <3>3. Hopeless(request) => Hopeless(sent[i])'
      BY <3>2 DEF Hopeless, EvaluatorFails
    <3>. QED
      BY <2>2, <3>1, <3>2, <3>3 DEF ReplyFits
  <2>. QED
    BY <1>2, <1>3, <2>1, <2>2 DEF attempt
<1>8. RepliesFit'
  BY <1>7 DEF RepliesFit
<1>9. FactsFit'
  BY <1>4, FactsKept
<1>. QED
  BY <1>5, <1>6, <1>8, <1>9

LEMMA InitFits == Init => IInv
<1>. SUFFICES ASSUME Init PROVE IInv
  OBVIOUS
<1>1. /\ stage = "idle" /\ sent = <<>> /\ replies = <<>> /\ ledger = {}
      /\ facts = <<>> /\ evaluation = NoValue /\ faulty = {}
      /\ policyEvaluator \in PolicyEvaluators
  BY DEF Init
<1>2. AttemptFits
  BY <1>1, AttemptsAssumption DEF AttemptFits
<1>3. LedgerFits
  BY <1>1 DEF LedgerFits
<1>4. RepliesFit
  BY <1>1 DEF RepliesFit
<1>5. FactsFit
  BY <1>1 DEF FactsFit, ToSet
<1>. QED
  BY <1>2, <1>3, <1>4, <1>5 DEF IInv

LEMMA SendStep ==
    ASSUME IInv, Send, UNCHANGED policyEvaluator
    PROVE  IInv'
<1>. USE DEF IInv
<1>1. PICK r \in Requests : sent' = Append(sent, r)
  BY DEF Send
<1>2. /\ stage = "idle" /\ stage' = "received" /\ Len(sent) < MaxAttempts
      /\ UNCHANGED <<replies, ledger, facts, evaluation, faulty, policyEvaluator>>
  BY DEF Send, attempt
<1>3. /\ sent \in Seq(Requests) /\ Len(sent) \in Nat /\ Len(replies) = Len(sent)
      /\ DOMAIN sent = 1..Len(sent) /\ DOMAIN replies = 1..Len(replies)
  BY <1>2 DEF AttemptFits
<1>4. /\ sent' \in Seq(Requests) /\ Len(sent') = Len(sent) + 1
      /\ DOMAIN sent' = 1..(Len(sent) + 1)
      /\ \A i \in DOMAIN sent : sent'[i] = sent[i]
  BY <1>1, <1>3
<1>5. SentKept
  BY <1>3, <1>4 DEF SentKept
<1>6. AttemptFits'
  BY <1>2, <1>3, <1>4, AttemptsAssumption DEF AttemptFits
<1>7. LedgerFits'
  <2>1. \A row \in ledger : RowFits(row)'
    BY <1>2, <1>5, RowsKept DEF LedgerFits, RowFits
  <2>. QED
    BY <1>2, <2>1 DEF LedgerFits
<1>8. RepliesFit'
  BY <1>2, <1>5, RepliesKept DEF RepliesFit
<1>9. FactsFit'
  BY <1>2, <1>5, FactsKept
<1>. QED
  BY <1>6, <1>7, <1>8, <1>9

LEMMA NotFoundStep ==
    ASSUME IInv, NotFound, UNCHANGED policyEvaluator
    PROVE  IInv'
<1>. USE DEF IInv
<1>1. /\ stage = "received" /\ stage' = "policy" /\ Accepted(request)
      /\ \A row \in ledger : row.key # Key(request)
      /\ UNCHANGED <<sent, replies, ledger, facts, evaluation, faulty, policyEvaluator>>
  BY DEF NotFound
<1>2. SentKept
  BY <1>1 DEF SentKept
<1>3. AttemptFits'
  BY <1>1 DEF AttemptFits, request, attempt
<1>4. LedgerFits'
  <2>1. \A row \in ledger : RowFits(row)'
    BY <1>1, <1>2, RowsKept DEF LedgerFits, RowFits
  <2>. QED
    BY <1>1, <2>1 DEF LedgerFits, request, attempt
<1>5. RepliesFit'
  BY <1>1, <1>2, RepliesKept DEF RepliesFit
<1>6. FactsFit'
  BY <1>1, <1>2, FactsKept
<1>. QED
  BY <1>3, <1>4, <1>5, <1>6

LEMMA EvaluateStep ==
    ASSUME IInv, EvaluatePolicy, UNCHANGED policyEvaluator
    PROVE  IInv'
<1>. USE DEF IInv
<1>0. PICK fact :
        fact = [attempt |-> attempt, input |-> EvaluatorInput(NormalizedAction(request))]
  OBVIOUS
<1>1. /\ stage = "policy" /\ stage' = "commit" /\ evaluation' \in Evaluations
      /\ facts' = Append(facts, fact)
      /\ UNCHANGED <<sent, replies, ledger, faulty, policyEvaluator>>
  BY <1>0 DEF EvaluatePolicy
<1>2. SentKept
  BY <1>1 DEF SentKept
<1>3. AttemptFits'
  BY <1>1 DEF AttemptFits, request, attempt
<1>4. LedgerFits'
  <2>1. \A row \in ledger : RowFits(row)'
    BY <1>1, <1>2, RowsKept DEF LedgerFits, RowFits
  <2>. QED
    BY <1>1, <2>1 DEF LedgerFits, request, attempt
<1>5. RepliesFit'
  BY <1>1, <1>2, RepliesKept DEF RepliesFit
<1>6. attempt \in Nat /\ attempt \in DOMAIN sent /\ request \in AcceptedRequests
  BY <1>1 DEF AttemptFits, request, attempt, AcceptedRequests
<1>7. fact \in FactsSeen /\ fact.attempt = attempt
      /\ fact.input = EvaluatorInput(NormalizedAction(request))
  BY <1>0, <1>6 DEF FactsSeen
<1>8. FactsSeen' = FactsSeen
  BY <1>1 DEF FactsSeen, EvaluatorInput
<1>9. facts' \in Seq(FactsSeen) /\ ToSet(facts') = ToSet(facts) \cup {fact}
  <2>1. facts \in Seq(FactsSeen)
    BY DEF FactsFit
  <2>2. /\ facts' \in Seq(FactsSeen) /\ Len(facts') = Len(facts) + 1
        /\ \A i \in 1..Len(facts) : facts'[i] = facts[i]
        /\ facts'[Len(facts) + 1] = fact
    BY <1>1, <1>7, <2>1
  <2>3. \A x \in ToSet(facts') : x \in ToSet(facts) \cup {fact}
    BY <2>1, <2>2 DEF ToSet
  <2>4. \A x \in ToSet(facts) \cup {fact} : x \in ToSet(facts')
    BY <2>1, <2>2 DEF ToSet
  <2>. QED
    BY <2>2, <2>3, <2>4
<1>10. FactFits(fact)'
  <2>1. Accepted(request)
    BY <1>6 DEF AcceptedRequests
  <2>. QED
    BY <1>1, <1>6, <1>7, <2>1 DEF FactFits, EvaluatorInput, request
<1>11. \A x \in ToSet(facts) : FactFits(x)'
  BY <1>1 DEF FactsFit, FactFits, EvaluatorInput
<1>12. FactsFit'
  BY <1>8, <1>9, <1>10, <1>11 DEF FactsFit
<1>. QED
  BY <1>3, <1>4, <1>5, <1>12

\* encodeEvaluation finds nothing wrong: the actor is the authenticated runtime.
LEMMA NothingToEncode == EncodeErrors = {}
BY KeyOfActor DEF EncodeErrors

LEMMA CommitStep ==
    ASSUME IInv, Commit, UNCHANGED policyEvaluator
    PROVE  IInv'
<1>. USE DEF IInv
<1>0. PICK new : new = Row
  OBVIOUS
<1>1. /\ stage = "commit" /\ stage' = "committed" /\ ledger' = ledger \cup {new}
      /\ UNCHANGED <<sent, replies, evaluation, facts, faulty, policyEvaluator>>
  BY <1>0, NothingToEncode DEF Commit
<1>2. /\ new.key = Key(request) /\ new.digest = Digest(request)
      /\ new.action = CanonicalAction(NormalizedAction(request))
      /\ new.decisionID = attempt /\ new.evaluation = evaluation
  BY <1>0 DEF Row
<1>3. /\ sent \in Seq(Requests) /\ replies \in Seq(Replies)
      /\ Len(replies) + 1 = Len(sent) /\ Len(sent) \in Nat
      /\ DOMAIN sent = 1..Len(sent) /\ DOMAIN replies = 1..Len(replies)
      /\ Accepted(request) /\ evaluation \in Evaluations
  BY <1>1 DEF AttemptFits
<1>4. attempt \in DOMAIN sent /\ attempt \notin DOMAIN replies
  BY <1>3 DEF attempt
<1>5. SentKept
  BY <1>1 DEF SentKept
<1>6. AttemptFits'
  BY <1>1 DEF AttemptFits, request, attempt
<1>7. LedgerFits'
  <2>1. \A row \in ledger : RowFits(row)'
    BY <1>1, <1>5, RowsKept DEF LedgerFits, RowFits
  <2>2. RowFits(new)'
    BY <1>1, <1>2, <1>3, <1>4 DEF RowFits, request
  <2>3. \A row \in ledger : row.key # new.key
    BY <1>1, <1>2 DEF LedgerFits
  <2>. QED
    BY <1>1, <2>1, <2>2, <2>3 DEF LedgerFits
<1>8. RepliesFit'
  BY <1>1, <1>2, <1>4, <1>5, RepliesKept DEF RepliesFit
<1>9. FactsFit'
  BY <1>1, <1>5, FactsKept
<1>. QED
  BY <1>6, <1>7, <1>8, <1>9

LEMMA RefusalReply ==
    ASSUME NEW status \in Statuses
    PROVE  /\ [status |-> status, record |-> NoValue] \in Replies
           /\ [status |-> status, record |-> NoValue].status = status
BY DEF Replies

LEMMA RecordReply ==
    ASSUME IInv, NEW row \in ledger
    PROVE  /\ [status |-> 200, record |-> RecordOf(row)] \in Replies
           /\ [status |-> 200, record |-> RecordOf(row)].status = 200
           /\ [status |-> 200, record |-> RecordOf(row)].record = RecordOf(row)
<1>1. /\ row.decisionID \in DOMAIN sent /\ row.evaluation \in Evaluations
      /\ row.digest = Digest(sent[row.decisionID]) /\ Accepted(sent[row.decisionID])
      /\ sent \in Seq(Requests)
  BY DEF IInv, LedgerFits, RowFits, AttemptFits
<1>2. row.decisionID \in Nat /\ sent[row.decisionID] \in AcceptedRequests
  BY <1>1 DEF AcceptedRequests
<1>3. RecordOf(row) \in Records
  BY <1>1, <1>2 DEF RecordOf, Records, DigestsSent
<1>. QED
  BY <1>3 DEF Replies, Statuses

\* A row under the key of an accepted request cannot be read only because of
\* its time.
LEMMA UnreadableRow ==
    ASSUME IInv, NEW row \in ledger, ~ Readable(row)
    PROVE  ~ Representable(row.action.requestedAt)
<1>1. /\ RowFits(row) /\ sent \in Seq(Requests)
  BY DEF IInv, LedgerFits, AttemptFits
<1>2. sent[row.decisionID] \in AcceptedRequests
  BY <1>1 DEF RowFits, AcceptedRequests
<1>. QED
  BY <1>1, <1>2, RowReadable DEF RowFits

LEMMA ChecksStep ==
    ASSUME IInv, Unauthenticated \/ Malformed \/ Unmappable \/ RefuseInput,
           UNCHANGED policyEvaluator
    PROVE  IInv'
<1>1. stage = "received" /\ UNCHANGED <<ledger, facts, faulty>>
  BY DEF Unauthenticated, Malformed, Unmappable, RefuseInput
<1>2. /\ ~ Accepted(request) /\ RefusalStatus(request) \in Statuses \ {200}
      /\ Refuse(RefusalStatus(request))
  <2>1. CASE Unauthenticated
    BY <2>1 DEF Unauthenticated, Accepted, RefusalStatus, Statuses
  <2>2. CASE Malformed
    BY <2>2 DEF Malformed, Accepted, RefusalStatus, Statuses
  <2>3. CASE Unmappable
    BY <2>3 DEF Unmappable, Accepted, RefusalStatus, Statuses
  <2>4. CASE RefuseInput
    <3>1. writeApplicationError(InputErrors(request)) \in {403, 422}
      BY <2>4, ErrorStatuses DEF RefuseInput
    <3>. QED
      BY <2>4, <3>1 DEF RefuseInput, Accepted, RefusalStatus, Statuses
  <2>. QED
    BY <2>1, <2>2, <2>3, <2>4
<1>3. PICK reply \in Replies :
        /\ Reply(reply) /\ reply.status = RefusalStatus(request)
  BY <1>2, RefusalReply DEF Refuse
<1>. QED
  BY <1>1, <1>2, <1>3, Replying

LEMMA FoundStep ==
    ASSUME IInv, Found, UNCHANGED policyEvaluator
    PROVE  IInv'
<1>1. stage = "received" /\ Accepted(request) /\ UNCHANGED <<ledger, facts, faulty>>
  BY DEF Found
<1>2. PICK row \in ledger :
        /\ row.key = Key(request)
        /\ IF LookupErrors(row, Digest(request)) = {}
           THEN Reply([status |-> 200, record |-> RecordOf(row)])
           ELSE Refuse(writeApplicationError(LookupErrors(row, Digest(request))))
  BY DEF Found
<1>3. CASE ~ Readable(row)
  <2>1. Hopeless(request)
    BY <1>2, <1>3, UnreadableRow DEF Hopeless
  <2>2. LookupErrors(row, Digest(request)) = {"LedgerFailure"}
    BY <1>3 DEF LookupErrors
  <2>3. {"LedgerFailure"} # {}
    OBVIOUS
  <2>4. Refuse(500)
    BY <1>2, <2>2, <2>3, ErrorStatuses
  <2>5. PICK reply \in Replies : Reply(reply) /\ reply.status = 500
    BY <2>4, RefusalReply DEF Refuse, Statuses
  <2>. QED
    BY <1>1, <2>1, <2>5, Replying
<1>4. CASE Readable(row) /\ row.digest # Digest(request)
  <2>1. LookupErrors(row, Digest(request)) = {"RequestIDConflict"}
    BY <1>4 DEF LookupErrors
  <2>2. {"RequestIDConflict"} # {}
    OBVIOUS
  <2>3. Refuse(409)
    BY <1>2, <2>1, <2>2, ErrorStatuses
  <2>4. PICK reply \in Replies : Reply(reply) /\ reply.status = 409
    BY <2>3, RefusalReply DEF Refuse, Statuses
  <2>. QED
    BY <1>1, <2>4, Replying
<1>5. CASE Readable(row) /\ row.digest = Digest(request)
  <2>1. Reply([status |-> 200, record |-> RecordOf(row)])
    BY <1>2, <1>5 DEF LookupErrors
  <2>2. PICK reply \in Replies :
          Reply(reply) /\ reply.status = 200 /\ reply.record = RecordOf(row)
    BY <2>1, RecordReply
  <2>. QED
    BY <1>1, <2>2, Replying
<1>. QED
  BY <1>3, <1>4, <1>5

LEMMA FailureStep ==
    ASSUME IInv, LookupFails \/ CommitFails \/ CommitUncertain, UNCHANGED policyEvaluator
    PROVE  IInv'
<1>1. /\ stage # "idle" /\ Refuse(500)
      /\ UNCHANGED <<ledger, facts>> /\ faulty' = faulty \cup {attempt}
  BY ErrorStatuses DEF LookupFails, CommitFails, CommitUncertain
<1>2. PICK reply \in Replies : Reply(reply) /\ reply.status = 500
  BY <1>1, RefusalReply DEF Refuse, Statuses
<1>. QED
  BY <1>1, <1>2, Replying

LEMMA PolicyFailsStep ==
    ASSUME IInv, PolicyFails, UNCHANGED policyEvaluator
    PROVE  IInv'
<1>1. /\ stage = "policy" /\ Refuse(500) /\ Hopeless(request)
      /\ UNCHANGED <<ledger, facts, faulty>> /\ Accepted(request)
  BY ErrorStatuses DEF PolicyFails, Hopeless, IInv, AttemptFits
<1>2. PICK reply \in Replies : Reply(reply) /\ reply.status = 500
  BY <1>1, RefusalReply DEF Refuse, Statuses
<1>. QED
  BY <1>1, <1>2, Replying

LEMMA CommitRefusedStep ==
    ASSUME IInv, CommitRefused, UNCHANGED policyEvaluator
    PROVE  IInv'
<1>1. /\ stage = "commit" /\ Refuse(500) /\ Hopeless(request)
      /\ UNCHANGED <<ledger, facts, faulty>> /\ Accepted(request)
  BY ErrorStatuses DEF CommitRefused, Hopeless, IInv, AttemptFits
<1>2. PICK reply \in Replies : Reply(reply) /\ reply.status = 500
  BY <1>1, RefusalReply DEF Refuse, Statuses
<1>. QED
  BY <1>1, <1>2, Replying

LEMMA ReturnStep ==
    ASSUME IInv, Return, UNCHANGED policyEvaluator
    PROVE  IInv'
<1>1. /\ stage = "committed" /\ UNCHANGED <<ledger, facts, faulty>> /\ Accepted(request)
  BY DEF Return, IInv, AttemptFits
<1>2. PICK row \in ledger : Reply([status |-> 200, record |-> RecordOf(row)])
  BY DEF Return
<1>3. PICK reply \in Replies :
        Reply(reply) /\ reply.status = 200 /\ reply.record = RecordOf(row)
  BY <1>2, RecordReply
<1>. QED
  BY <1>1, <1>3, Replying

LEMMA NextFits == IInv /\ [Next]_vars => IInv'
<1>. SUFFICES ASSUME IInv, [Next]_vars PROVE IInv'
  OBVIOUS
<1>1. CASE UNCHANGED vars
  BY <1>1
     DEF vars, IInv, AttemptFits, LedgerFits, RowFits, RepliesFit, ReplyFits, FactsFit,
         FactFits, FactsSeen, Hopeless, EvaluatorFails, EvaluatorInput, request, attempt
<1>2. CASE Next
  BY <1>2, SendStep, ChecksStep, FoundStep, NotFoundStep, FailureStep, PolicyFailsStep,
     EvaluateStep, CommitStep, CommitRefusedStep, ReturnStep DEF Next
<1>. QED
  BY <1>1, <1>2

\* The inductive invariant holds throughout.
THEOREM Invariance == Spec => []IInv
BY InitFits, NextFits, PTL DEF Spec

-----------------------------------------------------------------------------
(* What follows                                                            *)

\* TypeOK: attempts are handled one after the other, nothing of one is left
\* when the next begins, and a request ID is bound once.
THEOREM TypeCorrectness == Spec => []TypeOK
<1>1. IInv => TypeOK
  <2>. SUFFICES ASSUME IInv PROVE TypeOK
    OBVIOUS
  <2>1. /\ policyEvaluator \in PolicyEvaluators
        /\ stage \in {"idle", "received", "policy", "commit", "committed"}
        /\ sent \in Seq(Requests)
        /\ evaluation \in IF stage \in {"commit", "committed"} THEN Evaluations ELSE {NoValue}
        /\ faulty \subseteq DOMAIN sent
    BY DEF IInv, AttemptFits
  <2>2. Len(replies) = IF stage = "idle" THEN Len(sent) ELSE Len(sent) - 1
    <3>1. Len(replies) \in Nat /\ Len(sent) \in Nat
      BY DEF IInv, AttemptFits
    <3>. QED
      BY <3>1 DEF IInv, AttemptFits
  <2>3. \A i \in DOMAIN replies : replies[i].status \in Statuses
    <3>1. replies \in Seq(Replies)
      BY DEF IInv, AttemptFits
    <3>2. \A i \in DOMAIN replies : replies[i] \in Replies
      BY <3>1
    <3>. QED
      BY <3>2 DEF Replies
  <2>4. /\ \A row \in ledger : row.decisionID \in DOMAIN sent /\ row.evaluation \in Evaluations
        /\ \A x, y \in ledger : x.key = y.key => x = y
    BY DEF IInv, LedgerFits, RowFits
  <2>. QED
    BY <2>1, <2>2, <2>3, <2>4 DEF TypeOK, Statuses
<1>. QED
  BY <1>1, Invariance, PTL

\* ErrorsBindNothing: an attempt that is answered with an error while the
\* database works leaves its request ID free.
THEOREM ErrorsAreFree == Spec => []ErrorsBindNothing
<1>1. IInv => ErrorsBindNothing
  BY DEF IInv, RepliesFit, ReplyFits, ErrorsBindNothing
<1>. QED
  BY <1>1, Invariance, PTL

\* StoredActionsReadable: decodeAction rebuilds the action that was evaluated
\* from every row whose time can be expressed.
THEOREM RowsReadBack == Spec => []StoredActionsReadable
<1>1. IInv => StoredActionsReadable
  <2>. SUFFICES ASSUME IInv, NEW row \in ledger, Representable(row.action.requestedAt)
                PROVE  /\ Readable(row)
                       /\ decodeAction(row.action) = NormalizedAction(sent[row.decisionID])
    BY DEF StoredActionsReadable
  <2>1. RowFits(row) /\ sent \in Seq(Requests)
    BY DEF IInv, LedgerFits, AttemptFits
  <2>2. sent[row.decisionID] \in AcceptedRequests
    BY <2>1 DEF RowFits, AcceptedRequests
  <2>. QED
    BY <2>1, <2>2, RowReadable DEF RowFits
<1>. QED
  BY <1>1, Invariance, PTL

\* PolicySeesTheAction: what marshalAction shows to the coordinator, or the
\* embedded rules are given, tells two actions apart exactly when their runtimes
\* or their meanings differ.
THEOREM PolicyIsShownTheMeaning == Spec => []PolicySeesTheAction
<1>1. IInv => PolicySeesTheAction
  <2>. SUFFICES ASSUME IInv, NEW x \in ToSet(facts), NEW y \in ToSet(facts)
                PROVE  x.input = y.input <=>
                         /\ Authenticate(sent[x.attempt]) = Authenticate(sent[y.attempt])
                         /\ Meaning(sent[x.attempt].action) = Meaning(sent[y.attempt].action)
    BY DEF PolicySeesTheAction
  <2>1. FactFits(x) /\ FactFits(y) /\ sent \in Seq(Requests)
    BY DEF IInv, FactsFit, AttemptFits
  <2>2. /\ sent[x.attempt] \in AcceptedRequests
        /\ sent[y.attempt] \in AcceptedRequests
    BY <2>1 DEF FactFits, AcceptedRequests
  <2>3. x.input = y.input <=>
          NormalizedAction(sent[x.attempt]) = NormalizedAction(sent[y.attempt])
    BY <2>1, <2>2, SameDigests DEF FactFits, EvaluatorInput
  <2>. QED
    BY <2>2, <2>3, SameDigests
<1>. QED
  BY <1>1, Invariance, PTL

\* The table of deserved statuses says what the checks in front of the ledger
\* say.  That it does is what the run of StatusDeserved finds out for every
\* request of the table.
TableAgrees ==
    \A r \in Requests : Deserved[r] = IF Accepted(r) THEN 200 ELSE RefusalStatus(r)

\* StatusDeserved: no layer behind the checks changes what they decide.  A
\* request they turn away is answered as they say, and one they let pass is
\* never blamed: it is decided, a conflict, or hopeless.
THEOREM StatusesAreDeserved ==
    ASSUME TableAgrees
    PROVE  Spec => []StatusDeserved
<1>1. IInv => StatusDeserved
  <2>. SUFFICES ASSUME IInv, NEW i \in DOMAIN replies \ faulty
                PROVE  IF Acceptable(sent[i])
                       THEN \/ replies[i].status \in {200, 409}
                            \/ replies[i].status = 500 /\ Hopeless(sent[i])
                       ELSE replies[i].status = Deserved[sent[i]]
    BY DEF StatusDeserved
  <2>1. ReplyFits(i)
    BY DEF IInv, RepliesFit
  <2>2. sent[i] \in Requests
    BY DEF IInv, AttemptFits
  <2>3. ~ Accepted(sent[i]) => RefusalStatus(sent[i]) # 200
    BY ErrorStatuses DEF RefusalStatus, Accepted
  <2>. QED
    BY <2>1, <2>2, <2>3 DEF ReplyFits, TableAgrees, Acceptable
<1>. QED
  BY <1>1, Invariance, PTL

-----------------------------------------------------------------------------
(* The endpoint implements AuthoritativeDecisions                          *)

Unseen == UNCHANGED <<Bound, Asked, Outcome, Told>>

LEMMA BoundKept ==
    ASSUME IInv, SentKept, ledger' = ledger
    PROVE  Bound' = Bound
<1>1. \A row \in ledger : row.decisionID \in DOMAIN sent
  BY DEF IInv, LedgerFits, RowFits
<1>2. \A row \in ledger : BindingOf(row)' = BindingOf(row)
  BY <1>1 DEF BindingOf, RecordMeant, RecordOf, SentKept
<1>. QED
  BY <1>2 DEF Bound

LEMMA AcceptedIsAcceptable ==
    ASSUME TableAgrees, NEW r \in Requests
    PROVE  Acceptable(r) <=> Accepted(r)
<1>1. ~ Accepted(r) => RefusalStatus(r) # 200
  BY ErrorStatuses DEF RefusalStatus, Accepted
<1>. QED
  BY <1>1 DEF TableAgrees, Acceptable

\* A record that was told names an attempt that was made.
LEMMA RecordsNameAttempts ==
    ASSUME IInv, NEW i \in DOMAIN replies, replies[i].status = 200
    PROVE  replies[i].record.decisionID \in DOMAIN sent
<1>1. PICK row \in ledger : replies[i].record = RecordOf(row)
  BY DEF IInv, RepliesFit, ReplyFits
<1>2. row.decisionID \in DOMAIN sent
  BY DEF IInv, LedgerFits, RowFits
<1>. QED
  BY <1>1, <1>2 DEF RecordOf

LEMMA ToldKept ==
    ASSUME IInv, SentKept, NEW i \in DOMAIN replies, replies[i].status = 200,
           replies'[i] = replies[i]
    PROVE  RecordMeant(replies[i].record)' = RecordMeant(replies[i].record)
BY RecordsNameAttempts DEF RecordMeant, SentKept

\* A reply to the attempt is told to one caller that had been told nothing.
LEMMA Telling ==
    ASSUME IInv, stage # "idle", NEW reply \in Replies, Reply(reply), ledger' = ledger
    PROVE  /\ attempt \in 1..MaxAttempts
           /\ Outcome[attempt] = "none"
           /\ Bound' = Bound /\ Asked' = Asked
           /\ Outcome' = [Outcome EXCEPT ![attempt] = OutcomeOf(reply)]
           /\ reply.status = 200 =>
                Told' = [Told EXCEPT ![attempt] = RecordMeant(reply.record)]
           /\ reply.status # 200 => Told' = Told
<1>1. replies' = Append(replies, reply) /\ sent' = sent
  BY DEF Reply
<1>2. /\ sent \in Seq(Requests) /\ replies \in Seq(Replies)
      /\ Len(replies) + 1 = Len(sent) /\ Len(sent) \in Nat /\ Len(sent) <= MaxAttempts
      /\ DOMAIN sent = 1..Len(sent) /\ DOMAIN replies = 1..Len(replies)
  BY DEF IInv, AttemptFits
<1>3. /\ DOMAIN replies' = 1..Len(sent)
      /\ \A i \in DOMAIN replies : replies'[i] = replies[i]
      /\ replies'[attempt] = reply
  BY <1>1, <1>2 DEF attempt
<1>4. attempt \in 1..MaxAttempts /\ attempt \notin DOMAIN replies /\ attempt \in DOMAIN replies'
  BY <1>2, <1>3, AttemptsAssumption DEF attempt
<1>5. \A i \in 1..MaxAttempts : i # attempt => (i \in DOMAIN replies' <=> i \in DOMAIN replies)
  BY <1>2, <1>3, AttemptsAssumption DEF attempt
<1>6. SentKept
  BY <1>1 DEF SentKept
<1>7. Bound' = Bound
  BY <1>6, BoundKept
<1>8. Asked' = Asked
  BY <1>1 DEF Asked
<1>9. Outcome[attempt] = "none"
  BY <1>4 DEF Outcome
<1>10. Outcome' = [Outcome EXCEPT ![attempt] = OutcomeOf(reply)]
  <2>1. \A i \in 1..MaxAttempts :
          Outcome'[i] = IF i = attempt THEN OutcomeOf(reply) ELSE Outcome[i]
    BY <1>3, <1>4, <1>5 DEF Outcome, OutcomeOf
  <2>2. Outcome = [i \in 1..MaxAttempts |-> Outcome[i]]
    BY DEF Outcome
  <2>3. Outcome' = [i \in 1..MaxAttempts |-> Outcome'[i]]
    BY DEF Outcome
  <2>. QED
    BY <2>1, <2>2, <2>3
<1>11. ASSUME reply.status = 200
       PROVE  Told' = [Told EXCEPT ![attempt] = RecordMeant(reply.record)]
  <2>1. \A i \in 1..MaxAttempts :
          Told'[i] = IF i = attempt THEN RecordMeant(reply.record) ELSE Told[i]
    BY <1>1, <1>3, <1>4, <1>5, <1>11 DEF Told, RecordMeant
  <2>2. Told = [i \in 1..MaxAttempts |-> Told[i]]
    BY DEF Told
  <2>3. Told' = [i \in 1..MaxAttempts |-> Told'[i]]
    BY DEF Told
  <2>. QED
    BY <2>1, <2>2, <2>3
<1>12. ASSUME reply.status # 200
       PROVE  Told' = Told
  BY <1>1, <1>3, <1>4, <1>5, <1>12 DEF Told, RecordMeant
<1>. QED
  BY <1>4, <1>7, <1>8, <1>9, <1>10, <1>11, <1>12

LEMMA AskedByAttempt ==
    ASSUME IInv, TableAgrees, stage # "idle", Accepted(request)
    PROVE  /\ attempt \in 1..MaxAttempts /\ request \in AcceptedRequests
           /\ Asked[attempt].key = KeyMeant(request)
           /\ Asked[attempt].digest = Meaning(request.action)
           /\ Authority!Waiting(attempt)
<1>1. /\ sent \in Seq(Requests) /\ Len(sent) \in Nat /\ Len(sent) <= MaxAttempts
      /\ Len(replies) \in Nat /\ Len(replies) + 1 = Len(sent)
      /\ DOMAIN sent = 1..Len(sent) /\ DOMAIN replies = 1..Len(replies)
  BY DEF IInv, AttemptFits
<1>2. /\ attempt \in 1..MaxAttempts /\ attempt \in DOMAIN sent
      /\ attempt \notin DOMAIN replies /\ request \in Requests
  BY <1>1, AttemptsAssumption DEF attempt, request
<1>3. Acceptable(request)
  BY <1>2, AcceptedIsAcceptable
<1>4. Asked[attempt] = AskedFor(request)
  BY <1>2, <1>3 DEF Asked, request
<1>5. AskedFor(request) \in [key : KeysMeant, digest : Meanings]
  BY <1>2, <1>3 DEF AskedFor, KeysMeant, Meanings
<1>6. Asked[attempt] # NoValue
  BY <1>4, <1>5, NoValueAssumption
<1>7. Outcome[attempt] = "none"
  BY <1>2 DEF Outcome
<1>8. AskedFor(request).key = KeyMeant(request) /\ AskedFor(request).digest = Meaning(request.action)
  BY DEF AskedFor
<1>. QED
  BY <1>2, <1>4, <1>6, <1>7, <1>8 DEF Authority!Waiting, AcceptedRequests

\* What a row binds, in terms of what the client meant.
LEMMA BindingFacts ==
    ASSUME IInv, NEW row \in ledger
    PROVE  /\ BindingOf(row) \in Bound
           /\ sent[row.decisionID] \in AcceptedRequests
           /\ BindingOf(row).key = KeyMeant(sent[row.decisionID])
           /\ BindingOf(row).record = RecordMeant(RecordOf(row))
           /\ BindingOf(row).record.decisionID = row.decisionID
           /\ BindingOf(row).record.digest = Meaning(sent[row.decisionID].action)
<1>1. RowFits(row) /\ sent \in Seq(Requests)
  BY DEF IInv, LedgerFits, AttemptFits
<1>2. sent[row.decisionID] \in AcceptedRequests
  BY <1>1 DEF RowFits, AcceptedRequests
<1>. QED
  BY <1>2 DEF Bound, BindingOf, RecordMeant, RecordOf

LEMMA ErrorTells ==
    ASSUME IInv, stage # "idle", NEW reply \in Replies, Reply(reply), ledger' = ledger,
           reply.status \notin {200, 409}
    PROVE  Authority!AbsNext
<1>1. OutcomeOf(reply) = "refused"
  BY DEF OutcomeOf
<1>2. Authority!TellError(attempt)
  BY <1>1, Telling DEF Authority!TellError
<1>. QED
  BY <1>2, Telling DEF Authority!AbsNext

LEMMA DecisionTells ==
    ASSUME IInv, TableAgrees, stage # "idle", Accepted(request), ledger' = ledger,
           NEW row \in ledger, Reply([status |-> 200, record |-> RecordOf(row)]),
           row.key = Key(request), row.digest = Digest(request)
    PROVE  Authority!AbsNext
<1>1. PICK reply \in Replies :
        Reply(reply) /\ reply.status = 200 /\ reply.record = RecordOf(row)
  BY RecordReply
<1>2. OutcomeOf(reply) = "decided"
  BY <1>1 DEF OutcomeOf
<1>3. /\ Bound' = Bound /\ Asked' = Asked
      /\ Outcome' = [Outcome EXCEPT ![attempt] = "decided"]
      /\ Told' = [Told EXCEPT ![attempt] = RecordMeant(RecordOf(row))]
  BY <1>1, <1>2, Telling
<1>. DEFINE made == sent[row.decisionID]
<1>4. row.key = Key(made) /\ row.digest = Digest(made)
  BY DEF IInv, LedgerFits, RowFits
<1>5. made \in AcceptedRequests /\ request \in AcceptedRequests
  BY AskedByAttempt, BindingFacts
<1>6. KeyMeant(made) = KeyMeant(request) /\ Meaning(made.action) = Meaning(request.action)
  BY <1>4, <1>5, SameKeys, SameDigests
<1>7. /\ BindingOf(row) \in Bound
      /\ BindingOf(row).key = Asked[attempt].key
      /\ BindingOf(row).record.digest = Asked[attempt].digest
      /\ BindingOf(row).record = RecordMeant(RecordOf(row))
  BY <1>6, AskedByAttempt, BindingFacts
<1>8. Authority!TellDecision(attempt)
  BY <1>3, <1>7, AskedByAttempt DEF Authority!TellDecision
<1>. QED
  BY <1>8, AskedByAttempt DEF Authority!AbsNext

LEMMA ConflictTells ==
    ASSUME IInv, TableAgrees, stage # "idle", Accepted(request), ledger' = ledger,
           NEW row \in ledger, Refuse(409),
           row.key = Key(request), row.digest # Digest(request)
    PROVE  Authority!AbsNext
<1>1. PICK reply \in Replies : Reply(reply) /\ reply.status = 409
  BY RefusalReply DEF Refuse, Statuses
<1>2. OutcomeOf(reply) = "RequestIDConflict"
  BY <1>1 DEF OutcomeOf
<1>3. /\ Bound' = Bound /\ Asked' = Asked /\ Told' = Told
      /\ Outcome' = [Outcome EXCEPT ![attempt] = "RequestIDConflict"]
  BY <1>1, <1>2, Telling
<1>. DEFINE made == sent[row.decisionID]
<1>4. row.key = Key(made) /\ row.digest = Digest(made)
  BY DEF IInv, LedgerFits, RowFits
<1>5. made \in AcceptedRequests /\ request \in AcceptedRequests
  BY AskedByAttempt, BindingFacts
<1>6. KeyMeant(made) = KeyMeant(request)
  BY <1>4, <1>5, SameKeys
<1>7. Authenticate(made) = Authenticate(request)
  BY <1>6 DEF KeyMeant
<1>8. Meaning(made.action) # Meaning(request.action)
  BY <1>4, <1>5, <1>7, SameDigests
<1>9. /\ BindingOf(row) \in Bound
      /\ BindingOf(row).key = Asked[attempt].key
      /\ BindingOf(row).record.digest # Asked[attempt].digest
  BY <1>6, <1>8, AskedByAttempt, BindingFacts
<1>10. Authority!TellConflict(attempt)
  BY <1>3, <1>9, AskedByAttempt DEF Authority!TellConflict
<1>. QED
  BY <1>10, AskedByAttempt DEF Authority!AbsNext

LEMMA CommitBinds ==
    ASSUME IInv, TableAgrees, Commit
    PROVE  Authority!AbsNext
<1>1. /\ stage = "commit" /\ ledger' = ledger \cup {Row}
      /\ UNCHANGED <<sent, replies, evaluation>>
  BY NothingToEncode DEF Commit
<1>2. /\ Accepted(request) /\ evaluation \in Evaluations
      /\ Len(replies) \in Nat /\ Len(replies) + 1 = Len(sent)
      /\ DOMAIN replies = 1..Len(replies)
  BY <1>1 DEF IInv, AttemptFits
<1>3. Asked' = Asked /\ Outcome' = Outcome /\ Told' = Told
  BY <1>1 DEF Asked, Outcome, OutcomeOf, Told, RecordMeant
<1>. DEFINE new == [key |-> Asked[attempt].key,
                    record |-> [decisionID |-> attempt, evaluation |-> evaluation,
                                digest |-> Asked[attempt].digest]]
<1>4. BindingOf(Row) = new
  BY <1>1, <1>2, AskedByAttempt DEF BindingOf, RecordMeant, RecordOf, Row, request
<1>5. Bound' = Bound \cup {new}
  <2>1. \A row : BindingOf(row)' = BindingOf(row)
    BY <1>1 DEF BindingOf, RecordMeant, RecordOf
  <2>2. Bound' = {BindingOf(row) : row \in ledger \cup {Row}}
    BY <1>1, <2>1 DEF Bound
  <2>. QED
    BY <1>4, <2>2 DEF Bound
<1>6. ASSUME NEW b \in Bound
      PROVE  b.key # Asked[attempt].key /\ b.record.decisionID # attempt
  <2>1. PICK row \in ledger : b = BindingOf(row)
    BY DEF Bound
  <2>2. RowFits(row) /\ row.key # Key(request)
    BY <1>1 DEF IInv, LedgerFits
  <2>3. KeyMeant(sent[row.decisionID]) # KeyMeant(request)
    BY <1>1, <1>2, <2>2, AskedByAttempt, BindingFacts, SameKeys DEF RowFits
  <2>4. row.decisionID # attempt
    BY <1>1, <1>2, <2>2 DEF RowFits, attempt
  <2>. QED
    BY <1>1, <1>2, <2>1, <2>3, <2>4, AskedByAttempt, BindingFacts
<1>7. attempt \in 1..MaxAttempts /\ Authority!Waiting(attempt)
  BY <1>1, <1>2, AskedByAttempt
<1>8. Authority!Bind(attempt)
  BY <1>2, <1>3, <1>5, <1>6, <1>7 DEF Authority!Bind
<1>. QED
  BY <1>7, <1>8 DEF Authority!AbsNext

LEMMA SendAsks ==
    ASSUME IInv, Send
    PROVE  Authority!AbsNext \/ Unseen
<1>1. PICK r \in Requests : sent' = Append(sent, r)
  BY DEF Send
<1>2. stage = "idle" /\ Len(sent) < MaxAttempts /\ UNCHANGED <<replies, ledger>>
  BY DEF Send, attempt
<1>3. /\ sent \in Seq(Requests) /\ Len(sent) \in Nat
      /\ Len(replies) = Len(sent)
      /\ DOMAIN sent = 1..Len(sent) /\ DOMAIN replies = 1..Len(replies)
  BY <1>2 DEF IInv, AttemptFits
<1>. DEFINE c == Len(sent) + 1
<1>4. /\ DOMAIN sent' = 1..c /\ sent'[c] = r
      /\ \A i \in DOMAIN sent : sent'[i] = sent[i]
      /\ c \in 1..MaxAttempts /\ c \notin DOMAIN sent /\ c \notin DOMAIN replies
  BY <1>1, <1>2, <1>3, AttemptsAssumption
<1>5. \A i \in 1..MaxAttempts : i # c => (i \in DOMAIN sent' <=> i \in DOMAIN sent)
  BY <1>3, <1>4, AttemptsAssumption
<1>6. SentKept
  BY <1>3, <1>4 DEF SentKept
<1>7. Bound' = Bound
  BY <1>2, <1>6, BoundKept
<1>8. Outcome' = Outcome
  BY <1>2 DEF Outcome, OutcomeOf
<1>9. Told' = Told
  <2>1. \A i \in DOMAIN replies : replies[i].status = 200 =>
          RecordMeant(replies[i].record)' = RecordMeant(replies[i].record)
    BY <1>2, <1>6, ToldKept
  <2>. QED
    BY <1>2, <2>1 DEF Told
<1>. HIDE DEF c
<1>10. \A i \in 1..MaxAttempts :
         Asked'[i] = IF i = c THEN IF Acceptable(r) THEN AskedFor(r) ELSE NoValue
                     ELSE Asked[i]
  BY <1>3, <1>4, <1>5 DEF Asked
<1>11. /\ Asked = [i \in 1..MaxAttempts |-> Asked[i]]
       /\ Asked' = [i \in 1..MaxAttempts |-> Asked'[i]]
  BY DEF Asked
<1>12. Asked[c] = NoValue /\ Outcome[c] = "none"
  BY <1>4 DEF Asked, Outcome
<1>13. CASE Acceptable(r)
  <2>1. Asked'[c] = AskedFor(r)
    BY <1>4, <1>10, <1>13
  <2>2. AskedFor(r) \in [key : KeysMeant, digest : Meanings]
    BY <1>13 DEF AskedFor, KeysMeant, Meanings
  <2>3. Asked' = [Asked EXCEPT ![c] = Asked'[c]]
    BY <1>10, <1>11
  <2>4. Authority!Ask(c)
    BY <1>7, <1>8, <1>9, <1>12, <2>1, <2>2, <2>3 DEF Authority!Ask
  <2>. QED
    BY <1>4, <2>4 DEF Authority!AbsNext
<1>14. CASE ~ Acceptable(r)
  <2>1. \A i \in 1..MaxAttempts : Asked'[i] = Asked[i]
    BY <1>10, <1>12, <1>14
  <2>2. Asked' = Asked
    BY <1>11, <2>1
  <2>. QED
    BY <1>7, <1>8, <1>9, <2>2 DEF Unseen
<1>. QED
  BY <1>13, <1>14

LEMMA QuietStep ==
    ASSUME UNCHANGED <<sent, replies, ledger>>
    PROVE  Unseen
BY DEF Unseen, Bound, BindingOf, RecordMeant, RecordOf, Asked, Outcome, OutcomeOf, Told

LEMMA FoundTells ==
    ASSUME IInv, TableAgrees, Found
    PROVE  Authority!AbsNext
<1>1. stage = "received" /\ Accepted(request) /\ ledger' = ledger
  BY DEF Found
<1>2. PICK row \in ledger :
        /\ row.key = Key(request)
        /\ IF LookupErrors(row, Digest(request)) = {}
           THEN Reply([status |-> 200, record |-> RecordOf(row)])
           ELSE Refuse(writeApplicationError(LookupErrors(row, Digest(request))))
  BY DEF Found
<1>3. CASE ~ Readable(row)
  <2>1. LookupErrors(row, Digest(request)) = {"LedgerFailure"}
    BY <1>3 DEF LookupErrors
  <2>2. {"LedgerFailure"} # {}
    OBVIOUS
  <2>3. Refuse(500)
    BY <1>2, <2>1, <2>2, ErrorStatuses
  <2>4. PICK reply \in Replies : Reply(reply) /\ reply.status = 500
    BY <2>3, RefusalReply DEF Refuse, Statuses
  <2>. QED
    BY <1>1, <2>4, ErrorTells
<1>4. CASE Readable(row) /\ row.digest # Digest(request)
  <2>1. LookupErrors(row, Digest(request)) = {"RequestIDConflict"}
    BY <1>4 DEF LookupErrors
  <2>2. {"RequestIDConflict"} # {}
    OBVIOUS
  <2>3. Refuse(409)
    BY <1>2, <2>1, <2>2, ErrorStatuses
  <2>. QED
    BY <1>1, <1>2, <1>4, <2>3, ConflictTells
<1>5. CASE Readable(row) /\ row.digest = Digest(request)
  <2>1. Reply([status |-> 200, record |-> RecordOf(row)])
    BY <1>2, <1>5 DEF LookupErrors
  <2>. QED
    BY <1>1, <1>2, <1>5, <2>1, DecisionTells
<1>. QED
  BY <1>3, <1>4, <1>5

LEMMA ReturnTells ==
    ASSUME IInv, TableAgrees, Return
    PROVE  Authority!AbsNext
<1>1. stage = "committed" /\ Accepted(request) /\ ledger' = ledger
  BY DEF Return, IInv, AttemptFits
<1>2. PICK row \in ledger :
        row.decisionID = attempt /\ Reply([status |-> 200, record |-> RecordOf(row)])
  BY DEF Return
<1>3. row.key = Key(request) /\ row.digest = Digest(request)
  BY <1>2 DEF IInv, LedgerFits, RowFits, request
<1>. QED
  BY <1>1, <1>2, <1>3, DecisionTells

LEMMA RefusalTells ==
    ASSUME IInv,
           \/ Unauthenticated \/ Malformed \/ Unmappable \/ RefuseInput
           \/ LookupFails \/ PolicyFails \/ CommitRefused \/ CommitFails
           \/ CommitUncertain
    PROVE  Authority!AbsNext
<1>1. PICK status \in Statuses \ {200, 409} :
        Refuse(status) /\ stage # "idle" /\ ledger' = ledger
  <2>1. CASE Unauthenticated \/ Malformed \/ Unmappable
    <3>1. \/ Refuse(401) \/ Refuse(400) \/ Refuse(422)
      BY <2>1 DEF Unauthenticated, Malformed, Unmappable
    <3>. QED
      BY <2>1, <3>1 DEF Unauthenticated, Malformed, Unmappable, Statuses
  <2>2. CASE RefuseInput
    <3>1. writeApplicationError(InputErrors(request)) \in {403, 422}
      BY <2>2, ErrorStatuses DEF RefuseInput
    <3>. QED
      BY <2>2, <3>1 DEF RefuseInput, Statuses
  <2>3. CASE LookupFails \/ PolicyFails \/ CommitRefused \/ CommitFails
               \/ CommitUncertain
    <3>1. Refuse(500) /\ stage # "idle" /\ ledger' = ledger
      BY <2>3, ErrorStatuses
         DEF LookupFails, PolicyFails, CommitRefused, CommitFails, CommitUncertain
    <3>. QED
      BY <3>1 DEF Statuses
  <2>. QED
    BY <2>1, <2>2, <2>3
<1>2. PICK reply \in Replies : Reply(reply) /\ reply.status = status
  BY <1>1, RefusalReply DEF Refuse
<1>. QED
  BY <1>1, <1>2, ErrorTells

\* EndpointImplementsAuthority: in terms of what clients mean, a request ID is
\* bound once, to one action and one decision; an attempt that means that action
\* is told that decision, however it is spelled; a conflict is told only to one
\* that means another action; and what the checks refuse binds nothing.
THEOREM Refinement ==
    ASSUME TableAgrees
    PROVE  Spec => EndpointImplementsAuthority
<1>1. Init => Authority!AbsInit
  BY DEF Init, Authority!AbsInit, Bound, Asked, Outcome, Told
<1>2. IInv /\ [Next]_vars => [Authority!AbsNext]_(Authority!absVars)
  <2>. SUFFICES ASSUME IInv, [Next]_vars
                PROVE  Authority!AbsNext \/ Unseen
    BY DEF Unseen, Authority!absVars
  <2>1. CASE UNCHANGED vars
    BY <2>1, QuietStep DEF vars
  <2>2. CASE NotFound \/ EvaluatePolicy
    BY <2>2, QuietStep DEF NotFound, EvaluatePolicy
  <2>. QED
    BY <2>1, <2>2, SendAsks, RefusalTells, FoundTells, CommitBinds, ReturnTells DEF Next
<1>. QED
  BY <1>1, <1>2, Invariance, PTL
     DEF Spec, EndpointImplementsAuthority, Authority!AbsSpec
=============================================================================
