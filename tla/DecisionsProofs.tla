-------------------------- MODULE DecisionsProofs --------------------------
(***************************************************************************)
(* Proofs about the decision value and the composer, for reasons of any    *)
(* number and in any order.  The first part is about Picked, which every   *)
(* loop of the code that keeps some elements of a list is written with.    *)
(***************************************************************************)
EXTENDS Decisions, FiniteSetTheorems, NaturalsInduction, TLAPS

LEMMA PositionType ==
    ASSUME NEW n \in Nat, NEW I \in SUBSET (1 .. n)
    PROVE  /\ IsFiniteSet(I)
           /\ Cardinality(I) \in Nat
           /\ \A i \in I : Position(I, i) \in 1 .. Cardinality(I)
<1>1. IsFiniteSet(1 .. n)
  BY FS_Interval
<1>2. IsFiniteSet(I) /\ Cardinality(I) \in Nat
  BY <1>1, FS_Subset, FS_CardinalityType
<1>3. ASSUME NEW i \in I
      PROVE  Position(I, i) \in 1 .. Cardinality(I)
  <2> DEFINE B == {j \in I : j <= i}
  <2>1. IsFiniteSet(B) /\ Cardinality(B) <= Cardinality(I) /\ Cardinality(B) \in Nat
    BY <1>2, FS_Subset, FS_CardinalityType
  <2>2. i \in B
    OBVIOUS
  <2>3. Cardinality(B) # 0
    BY <2>1, <2>2, FS_EmptySet
  <2>. QED
    BY <2>1, <2>3, <1>2 DEF Position
<1>. QED
  BY <1>2, <1>3

LEMMA PositionInjective ==
    ASSUME NEW n \in Nat, NEW I \in SUBSET (1 .. n),
           NEW i \in I, NEW j \in I, Position(I, i) = Position(I, j)
    PROVE  i = j
<1>1. ASSUME NEW a \in I, NEW b \in I, a < b
      PROVE  Position(I, a) # Position(I, b)
  <2> DEFINE A == {k \in I : k <= a}
             B == {k \in I : k <= b}
  <2>1. a \in Nat /\ b \in Nat /\ I \subseteq Nat
    OBVIOUS
  <2>2. /\ \A k \in A : k \in B
        /\ b \in B
        /\ b \notin A
    BY <1>1, <2>1
  <2>3. IsFiniteSet(B)
    BY PositionType, FS_Subset
  <2>4. Cardinality(B) # Cardinality(A)
    BY <2>2, <2>3, FS_Subset
  <2>. QED
    BY <2>4 DEF Position
<1>2. i \in Nat /\ j \in Nat
  OBVIOUS
<1>3. i < j \/ j < i \/ i = j
  BY <1>2
<1>. QED
  BY <1>1, <1>3

LEMMA PositionOnto ==
    ASSUME NEW n \in Nat, NEW I \in SUBSET (1 .. n), NEW k \in 1 .. Cardinality(I)
    PROVE  \E i \in I : Position(I, i) = k
<1> DEFINE N == Cardinality(I)
           f == [i \in I |-> Position(I, i)]
<1>1. N \in Nat /\ IsFiniteSet(I) /\ \A i \in I : Position(I, i) \in 1 .. N
  BY PositionType
<1>2. f \in [I -> 1 .. N]
  BY <1>1
<1>3. \A a, b \in I : f[a] = f[b] => a = b
  BY PositionInjective
<1>4. f \in Injection(I, 1 .. N)
  BY <1>2, <1>3 DEF Injection, IsInjective
<1>5. IsFiniteSet(1 .. N) /\ Cardinality(1 .. N) = N
  <2>. HIDE DEF N
  <2>. QED BY <1>1, FS_Interval
<1>6. f \in Surjection(I, 1 .. N)
  <2>. HIDE DEF f
  <2>. QED BY <1>4, <1>5, FS_Injection
<1>. QED
  BY <1>6 DEF Surjection

\* Each kept index is the choice at its position.
LEMMA PickedAt ==
    ASSUME NEW S, NEW s \in Seq(S), NEW I \in SUBSET DOMAIN s
    PROVE  /\ Cardinality(I) \in Nat
           /\ DOMAIN Picked(s, I) = 1 .. Cardinality(I)
           /\ \A i \in I : /\ Position(I, i) \in DOMAIN Picked(s, I)
                           /\ Picked(s, I)[Position(I, i)] = s[i]
           /\ \A k \in DOMAIN Picked(s, I) : \E i \in I : Position(I, i) = k
<1>1. Len(s) \in Nat /\ I \in SUBSET (1 .. Len(s))
  OBVIOUS
<1>2. Cardinality(I) \in Nat /\ \A i \in I : Position(I, i) \in 1 .. Cardinality(I)
  BY <1>1, PositionType
<1>3. DOMAIN Picked(s, I) = 1 .. Cardinality(I)
  BY DEF Picked
<1>4. ASSUME NEW i \in I
      PROVE  Picked(s, I)[Position(I, i)] = s[i]
  <2> DEFINE c == CHOOSE j \in I : Position(I, j) = Position(I, i)
  <2>1. c \in I /\ Position(I, c) = Position(I, i)
    <3>1. \E j \in I : Position(I, j) = Position(I, i)
      OBVIOUS
    <3>. QED BY <3>1
  <2>2. c = i
    <3>. HIDE DEF c
    <3>. QED BY <2>1, <1>1, PositionInjective
  <2>3. Picked(s, I)[Position(I, i)] = s[c]
    BY <1>2 DEF Picked
  <2>. QED
    BY <2>2, <2>3
<1>5. \A k \in 1 .. Cardinality(I) : \E i \in I : Position(I, i) = k
  BY <1>1, PositionOnto
<1>. QED
  BY <1>2, <1>3, <1>4, <1>5

\* Picked keeps exactly the elements at the given indexes.
LEMMA PickedElements ==
    ASSUME NEW S, NEW s \in Seq(S), NEW I \in SUBSET DOMAIN s
    PROVE  /\ Picked(s, I) \in Seq(S)
           /\ ToSet(Picked(s, I)) = {s[i] : i \in I}
           /\ Picked(s, I) = <<>> <=> I = {}
<1> DEFINE p == Picked(s, I)
<1>1. /\ Cardinality(I) \in Nat
      /\ DOMAIN p = 1 .. Cardinality(I)
      /\ \A i \in I : Position(I, i) \in DOMAIN p /\ p[Position(I, i)] = s[i]
      /\ \A k \in DOMAIN p : \E i \in I : Position(I, i) = k
  BY PickedAt
<1>2. \A k \in DOMAIN p : \E i \in I : p[k] = s[i]
  BY <1>1
<1>3. \A k \in 1 .. Cardinality(I) : p[k] \in S
  BY <1>1, <1>2
<1>4. p = [k \in 1 .. Cardinality(I) |-> p[k]]
  BY DEF Picked
<1>. HIDE DEF p
<1>5. p \in Seq(S)
  BY <1>1, <1>3, <1>4
<1>6. ToSet(p) = {s[i] : i \in I}
  <2>1. ASSUME NEW x \in ToSet(p) PROVE x \in {s[i] : i \in I}
    BY <1>2 DEF ToSet
  <2>2. ASSUME NEW i \in I PROVE s[i] \in ToSet(p)
    BY <1>1 DEF ToSet
  <2>. QED BY <2>1, <2>2
<1>7. p = <<>> <=> I = {}
  <2>1. p = <<>> => I = {}
    BY <1>1
  <2>2. I = {} => p = <<>>
    BY <1>1, <1>5
  <2>. QED BY <2>1, <2>2
<1>. QED
  BY <1>5, <1>6, <1>7 DEF p

-----------------------------------------------------------------------------
(* First-seen order                                                        *)

LEMMA LeastElement ==
    ASSUME NEW P \in SUBSET Nat, P # {}
    PROVE  \E m \in P : \A k \in P : m <= k
<1>1. PICK x \in P : TRUE
  OBVIOUS
<1>2. PICK m \in P : \A k \in P : <<k, m>> \notin OpToRel(<, Nat)
  BY <1>1, NatLessThanWellFounded, WFMin
<1>3. \A k \in P : ~ (k < m)
  BY <1>2 DEF OpToRel
<1>4. \A k \in P : m <= k
  BY <1>3
<1>. QED
  BY <1>4

LEMMA FirstSeenElements ==
    ASSUME NEW S, NEW s \in Seq(S)
    PROVE  /\ FirstSeen(s) \in Seq(S)
           /\ ToSet(FirstSeen(s)) = ToSet(s)
           /\ FirstSeen(s) = <<>> <=> s = <<>>
<1> DEFINE I == {i \in DOMAIN s : \A j \in DOMAIN s : j < i => s[j] # s[i]}
<1>1. I \in SUBSET DOMAIN s
  OBVIOUS
<1>2. FirstSeen(s) = Picked(s, I)
  BY DEF FirstSeen
<1>3. \A x \in ToSet(s) : \E i \in I : s[i] = x
  <2> SUFFICES ASSUME NEW x \in ToSet(s) PROVE \E i \in I : s[i] = x
    OBVIOUS
  <2> DEFINE P == {i \in DOMAIN s : s[i] = x}
  <2>1. P # {} /\ P \in SUBSET Nat
    BY DEF ToSet
  <2>2. PICK m \in P : \A k \in P : m <= k
    <3>. HIDE DEF P
    <3>. QED BY <2>1, LeastElement
  <2>3. \A j \in DOMAIN s : j < m => s[j] # s[m]
    BY <2>2
  <2>. QED
    BY <2>3
<1>4. \A i \in I : s[i] \in ToSet(s)
  BY DEF ToSet
<1>5. /\ Picked(s, I) \in Seq(S)
      /\ ToSet(Picked(s, I)) = {s[i] : i \in I}
      /\ Picked(s, I) = <<>> <=> I = {}
  <2>. HIDE DEF I
  <2>. QED BY <1>1, PickedElements
<1>6. {s[i] : i \in I} = ToSet(s)
  <2>. HIDE DEF I
  <2>. QED BY <1>3, <1>4
<1>7. I = {} <=> s = <<>>
  <2>1. s = <<>> => I = {}
    OBVIOUS
  <2>2. s # <<>> => s[1] \in ToSet(s)
    BY DEF ToSet
  <2>. QED
    BY <2>1, <2>2, <1>3
<1>. HIDE DEF I
<1>. QED
  BY <1>2, <1>5, <1>6, <1>7

LEMMA EmptyToSet ==
    ASSUME NEW S, NEW s \in Seq(S)
    PROVE  s = <<>> <=> ToSet(s) = {}
<1>1. s # <<>> => s[1] \in ToSet(s)
  BY DEF ToSet
<1>2. s = <<>> => ToSet(s) = {}
  BY DEF ToSet
<1>. QED
  BY <1>1, <1>2

WithoutRepetition(s) == \A i, j \in DOMAIN s : s[i] = s[j] => i = j

LEMMA FirstSeenOnce ==
    ASSUME NEW S, NEW s \in Seq(S)
    PROVE  WithoutRepetition(FirstSeen(s))
<1> DEFINE I == {i \in DOMAIN s : \A j \in DOMAIN s : j < i => s[j] # s[i]}
           p == Picked(s, I)
<1>1. I \in SUBSET DOMAIN s
  OBVIOUS
<1>2. \A i, j \in I : s[i] = s[j] => i = j
  <2> SUFFICES ASSUME NEW i \in I, NEW j \in I, s[i] = s[j] PROVE i = j
    OBVIOUS
  <2>1. i \in Nat /\ j \in Nat
    OBVIOUS
  <2>2. ~ (i < j) /\ ~ (j < i)
    OBVIOUS
  <2>. QED BY <2>1, <2>2
<1>3. /\ \A i \in I : p[Position(I, i)] = s[i]
      /\ \A k \in DOMAIN p : \E i \in I : Position(I, i) = k
  <2>. HIDE DEF I
  <2>. QED BY <1>1, PickedAt
<1>4. ASSUME NEW k \in DOMAIN p, NEW l \in DOMAIN p, p[k] = p[l]
      PROVE  k = l
  <2>1. PICK i \in I : Position(I, i) = k
    BY <1>3
  <2>2. PICK j \in I : Position(I, j) = l
    BY <1>3
  <2>3. s[i] = s[j]
    BY <2>1, <2>2, <1>3, <1>4
  <2>. QED
    BY <2>1, <2>2, <2>3, <1>2
<1>. QED
  BY <1>4 DEF FirstSeen, WithoutRepetition

LEMMA PickedAll ==
    ASSUME NEW S, NEW s \in Seq(S)
    PROVE  Picked(s, DOMAIN s) = s
<1> DEFINE n == Len(s)
           D == 1 .. n
<1>1. n \in Nat /\ DOMAIN s = D
  OBVIOUS
<1>2. Cardinality(D) = n
  <2>. HIDE DEF n
  <2>. QED BY <1>1, FS_Interval
<1>3. ASSUME NEW i \in D PROVE Position(D, i) = i
  <2>1. i \in Nat /\ i <= n /\ 1 <= i
    BY <1>1
  <2>2. {j \in D : j <= i} = 1 .. i
    <3>. HIDE DEF n
    <3>. QED BY <2>1, <1>1
  <2>3. Cardinality(1 .. i) = i
    <3>1. Cardinality(1 .. i) = IF 1 > i THEN 0 ELSE i - 1 + 1
      BY <2>1, FS_Interval
    <3>. QED BY <3>1, <2>1
  <2>. QED
    BY <2>2, <2>3 DEF Position
<1>4. /\ DOMAIN Picked(s, D) = D
      /\ \A i \in D : Picked(s, D)[i] = s[i]
  <2>. HIDE DEF n
  <2>1. D \in SUBSET DOMAIN s
    BY <1>1
  <2>. HIDE DEF D
  <2>. QED BY <2>1, <1>2, <1>3, PickedAt DEF D
<1>5. Picked(s, D) = [k \in 1 .. n |-> Picked(s, D)[k]]
  BY <1>2 DEF Picked
<1>6. s = [k \in 1 .. n |-> s[k]]
  OBVIOUS
<1>. QED
  BY <1>1, <1>4, <1>5, <1>6

LEMMA FirstSeenStable ==
    ASSUME NEW S, NEW s \in Seq(S), WithoutRepetition(s)
    PROVE  FirstSeen(s) = s
<1>1. DOMAIN s \subseteq Nat
  OBVIOUS
<1>2. ASSUME NEW i \in DOMAIN s, NEW j \in DOMAIN s, j < i
      PROVE  s[j] # s[i]
  <2>1. j # i
    BY <1>1, <1>2
  <2>. QED
    BY <2>1 DEF WithoutRepetition
<1>3. {i \in DOMAIN s : \A j \in DOMAIN s : j < i => s[j] # s[i]} = DOMAIN s
  BY <1>2
<1>. QED
  BY <1>3, PickedAll DEF FirstSeen

LEMMA WithoutReasonElements ==
    ASSUME NEW S, NEW s \in Seq(S), NEW x
    PROVE  /\ withoutReason(s, x) \in Seq(S)
           /\ ToSet(withoutReason(s, x)) = ToSet(s) \ {x}
<1> DEFINE I == {i \in DOMAIN s : s[i] # x}
<1>1. I \in SUBSET DOMAIN s
  OBVIOUS
<1>2. {s[i] : i \in I} = ToSet(s) \ {x}
  BY DEF ToSet
<1>3. Picked(s, I) \in Seq(S) /\ ToSet(Picked(s, I)) = {s[i] : i \in I}
  <2>. HIDE DEF I
  <2>. QED BY <1>1, PickedElements
<1>. QED
  BY <1>2, <1>3 DEF withoutReason

-----------------------------------------------------------------------------
(* DecisionComposer                                                        *)

Terminal(codes) ==
    \E r \in codes :
        r \notin {Approval, "EXTERNAL_DESTINATION", "VISIBILITY_EXPANSION",
                  "DESTRUCTIVE_OPERATION"}

\* The reasons and the required actions of the denial for a set of reasons.
ReasonsFor(codes) == IF Terminal(codes) THEN codes \ {Approval} ELSE codes

ActionsFor(codes) ==
    IF ~ Terminal(codes) /\ Approval \in codes THEN <<RequireApproval>> ELSE <<>>

LEMMA SingleAction ==
    /\ FirstSeen(<<>>) = <<>>
    /\ FirstSeen(<<RequireApproval>>) = <<RequireApproval>>
    /\ ToSet(<<>>) = {}
    /\ ToSet(<<RequireApproval>>) = {RequireApproval}
<1>1. <<>> \in Seq({RequireApproval}) /\ <<RequireApproval>> \in Seq({RequireApproval})
  OBVIOUS
<1>2. WithoutRepetition(<<>>) /\ WithoutRepetition(<<RequireApproval>>)
  BY DEF WithoutRepetition
<1>3. ToSet(<<>>) = {} /\ ToSet(<<RequireApproval>>) = {RequireApproval}
  BY DEF ToSet
<1>. QED
  BY <1>1, <1>2, <1>3, FirstSeenStable

\* NewDenyDecision accepts what has an approval action just when it has the
\* approval reason.
LEMMA DenyDecision ==
    ASSUME NEW reasons \in Seq(ReasonCodes), reasons # <<>>,
           NEW actions \in {<<>>, <<RequireApproval>>},
           Approval \in ToSet(reasons) <=> actions # <<>>
    PROVE  NewDenyDecision(reasons, actions) =
             [type |-> "DENY", reasons |-> FirstSeen(reasons), actions |-> actions]
<1>1. ToSet(reasons) \subseteq ReasonCodes
  BY DEF ToSet
<1>2. ToSet(actions) \subseteq {RequireApproval} /\ FirstSeen(actions) = actions
  BY SingleAction
<1>. QED
  BY <1>1, <1>2 DEF NewDenyDecision

IsDenial(d) ==
    /\ d = [type |-> "DENY", reasons |-> d.reasons, actions |-> d.actions]
    /\ d.reasons \in Seq(ReasonCodes)
    /\ d.reasons # <<>>
    /\ WithoutRepetition(d.reasons)
    /\ d.actions \in {<<>>, <<RequireApproval>>}
    /\ Approval \in ToSet(d.reasons) <=> d.actions # <<>>

LEMMA DenialOf ==
    ASSUME NEW reasons \in Seq(ReasonCodes), reasons # <<>>,
           NEW actions \in {<<>>, <<RequireApproval>>},
           Approval \in ToSet(reasons) <=> actions # <<>>
    PROVE  /\ IsDenial(NewDenyDecision(reasons, actions))
           /\ ToSet(NewDenyDecision(reasons, actions).reasons) = ToSet(reasons)
           /\ NewDenyDecision(reasons, actions).actions = actions
<1>1. /\ FirstSeen(reasons) \in Seq(ReasonCodes)
      /\ ToSet(FirstSeen(reasons)) = ToSet(reasons)
      /\ FirstSeen(reasons) # <<>>
      /\ WithoutRepetition(FirstSeen(reasons))
  BY FirstSeenElements, FirstSeenOnce
<1> DEFINE d == NewDenyDecision(reasons, actions)
<1>2. d = [type |-> "DENY", reasons |-> FirstSeen(reasons), actions |-> actions]
  BY DenyDecision
<1>. HIDE DEF d
<1>3. d.reasons = FirstSeen(reasons) /\ d.actions = actions
  BY <1>2
<1>4. d = [type |-> "DENY", reasons |-> d.reasons, actions |-> d.actions]
  BY <1>2, <1>3
<1>5. IsDenial(d)
  BY <1>1, <1>3, <1>4 DEF IsDenial
<1>. QED
  BY <1>1, <1>3, <1>5 DEF d

\* Compose never fails: any reasons at all make a decision, and which one
\* depends on the set of the reasons only.
LEMMA ComposeShape ==
    ASSUME NEW reasons \in Seq(ReasonCodes)
    PROVE  /\ reasons = <<>> => Compose(reasons) = NewAllowDecision
           /\ reasons # <<>> =>
                /\ IsDenial(Compose(reasons))
                /\ ToSet(Compose(reasons).reasons) = ReasonsFor(ToSet(reasons))
                /\ Compose(reasons).actions = ActionsFor(ToSet(reasons))
<1> DEFINE codes == ToSet(reasons)
<1>1. reasons = <<>> => Compose(reasons) = NewAllowDecision
  BY DEF Compose
<1>2. containsTerminalReason(reasons) <=> Terminal(codes)
  BY DEF containsTerminalReason, Terminal
<1>3. codes \subseteq ReasonCodes
  BY DEF ToSet
<1>4. CASE reasons # <<>> /\ Terminal(codes)
  <2> DEFINE rest == withoutReason(reasons, Approval)
  <2>1. rest \in Seq(ReasonCodes) /\ ToSet(rest) = codes \ {Approval}
    BY WithoutReasonElements
  <2>2. codes \ {Approval} # {}
    BY <1>4 DEF Terminal
  <2>3. rest # <<>>
    BY <2>1, <2>2, SingleAction
  <2>4. Compose(reasons) = NewDenyDecision(rest, <<>>)
    BY <1>2, <1>4 DEF Compose
  <2>5. Approval \notin ToSet(rest)
    BY <2>1
  <2>6. ReasonsFor(codes) = codes \ {Approval} /\ ActionsFor(codes) = <<>>
    BY <1>4 DEF ReasonsFor, ActionsFor
  <2>. HIDE DEF rest
  <2>. QED
    BY <1>4, <2>1, <2>3, <2>4, <2>5, <2>6, DenialOf
<1>5. CASE reasons # <<>> /\ ~ Terminal(codes)
  <2> DEFINE asked == IF Approval \in codes THEN <<RequireApproval>> ELSE <<>>
  <2>1. Compose(reasons) = NewDenyDecision(reasons, asked)
    BY <1>2, <1>5 DEF Compose
  <2>2. Approval \in codes <=> asked # <<>>
    OBVIOUS
  <2>3. ReasonsFor(codes) = codes /\ ActionsFor(codes) = asked
    BY <1>5 DEF ReasonsFor, ActionsFor
  <2>4. asked \in {<<>>, <<RequireApproval>>}
    OBVIOUS
  <2>. HIDE DEF asked
  <2>. QED
    BY <1>5, <2>1, <2>2, <2>3, <2>4, DenialOf
<1>. QED
  BY <1>1, <1>4, <1>5

-----------------------------------------------------------------------------
(* Storing and reading back                                                *)

IsDecision(d) == d = NewAllowDecision \/ IsDenial(d)

\* The four descriptions of a decision agree: NewDenyDecision, the constraints
\* of table decisions, decodeDecision and DecisionResponse.Validate.
LEMMA DecisionSurvives ==
    ASSUME NEW d, IsDecision(d),
           NEW row, row.type = d.type, row.reasons = d.reasons, row.actions = d.actions
    PROVE  /\ d # Invalid
           /\ DecisionRowValid(d)
           /\ decodeDecision(row) = d
           /\ ResponseValid(d)
<1>1. CASE d = NewAllowDecision
  <2>1. d.type = "ALLOW" /\ d.reasons = <<>> /\ d.actions = <<>>
    BY <1>1 DEF NewAllowDecision
  <2>2. d # Invalid
    BY <1>1 DEF Invalid, NewAllowDecision
  <2>3. ToSet(d.reasons) = {}
    BY <2>1, SingleAction
  <2>4. DecisionRowValid(d) /\ ResponseValid(d)
    BY <2>1, <2>3 DEF DecisionRowValid, ResponseValid
  <2>5. decodeDecision(row) = d
    BY <1>1, <2>1, <2>3 DEF decodeDecision
  <2>. QED BY <2>2, <2>4, <2>5
<1>2. CASE IsDenial(d)
  <2>1. /\ d = [type |-> "DENY", reasons |-> d.reasons, actions |-> d.actions]
        /\ d.reasons \in Seq(ReasonCodes) /\ d.reasons # <<>>
        /\ WithoutRepetition(d.reasons)
        /\ d.actions \in {<<>>, <<RequireApproval>>}
        /\ Approval \in ToSet(d.reasons) <=> d.actions # <<>>
    BY <1>2 DEF IsDenial
  <2>2. d.type = "DENY"
    BY <2>1
  <2>3. d # Invalid
    BY <2>2 DEF Invalid
  <2>4. DecisionRowValid(d)
    <3>1. <<RequireApproval>> # <<>>
      OBVIOUS
    <3>. QED BY <2>1, <2>2, <3>1, Zenon DEF DecisionRowValid
  <2>5. ToSet(d.actions) \subseteq {RequireApproval} /\ (d.actions # <<>> <=> Len(d.actions) = 1)
    BY <2>1, SingleAction
  <2>6. ResponseValid(d)
    BY <2>1, <2>2, <2>5 DEF ResponseValid
  <2>7. ToSet(d.reasons) \subseteq ReasonCodes
    BY <2>1 DEF ToSet
  <2>8. FirstSeen(d.reasons) = d.reasons
    BY <2>1, FirstSeenStable
  <2>9. NewDenyDecision(d.reasons, d.actions) = d
    BY <2>1, <2>8, DenyDecision
  <2>10. decodeDecision(row) = NewDenyDecision(d.reasons, d.actions)
    BY <2>2, <2>7 DEF decodeDecision
  <2>. QED BY <2>3, <2>4, <2>6, <2>9, <2>10
<1>. QED
  BY <1>1, <1>2 DEF IsDecision

\* Compose, whatever reasons an evaluator hands it: the decision is accepted by
\* the constraints of table decisions, read back unchanged and fit to be sent.
THEOREM ComposedDecisionsSurvive ==
    ASSUME NEW reasons \in Seq(ReasonCodes)
    PROVE  /\ DecisionRowValid(Compose(reasons))
           /\ decodeDecision(Compose(reasons)) = Compose(reasons)
           /\ ResponseValid(Compose(reasons))
<1>1. IsDecision(Compose(reasons))
  BY ComposeShape DEF IsDecision
<1>. QED
  BY <1>1, DecisionSurvives

\* Compose does not depend on the order of the reasons or on their repetition,
\* except for the order in which it lists them.
THEOREM ComposeIgnoresOrder ==
    ASSUME NEW a \in Seq(ReasonCodes), NEW b \in Seq(ReasonCodes),
           ToSet(a) = ToSet(b)
    PROVE  /\ Compose(a).type = Compose(b).type
           /\ ToSet(Compose(a).reasons) = ToSet(Compose(b).reasons)
           /\ Compose(a).actions = Compose(b).actions
<1>1. a = <<>> <=> b = <<>>
  BY EmptyToSet
<1>2. CASE a = <<>>
  BY <1>1, <1>2
<1>3. CASE a # <<>>
  <2>1. /\ IsDenial(Compose(a)) /\ IsDenial(Compose(b))
        /\ ToSet(Compose(a).reasons) = ReasonsFor(ToSet(a))
        /\ ToSet(Compose(b).reasons) = ReasonsFor(ToSet(b))
        /\ Compose(a).actions = ActionsFor(ToSet(a))
        /\ Compose(b).actions = ActionsFor(ToSet(b))
    BY <1>1, <1>3, ComposeShape
  <2>2. \A d : IsDenial(d) => d.type = "DENY"
    BY DEF IsDenial
  <2>. QED BY <2>1, <2>2
<1>. QED
  BY <1>2, <1>3
=============================================================================
