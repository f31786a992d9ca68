\* Two runtimes that use the same request ID; IDs may collide.
CONSTANTS
    Calls = {c1, c2}
    Runtimes = {r1, r2}
    RequestIDs = {q1}
    Digests = {a1, a2}
    Evaluations = {plain, review, cutShort}
    ReviewEvaluations = {review}
    DecisionIDs = {d1, d2}
    EffectIDs = {e1, e2}
    MaxOpenConns = 2
    NoCall = NoCall
    NoValue = NoValue
    CutShort = cutShort
    MaxCrashes = 1
SPECIFICATION Spec
SYMMETRY CallSymmetry
INVARIANTS
    ConflictIsReal
    LosersFindTheWinner
PROPERTIES
    ImplementsAuthority
CHECK_DEADLOCK FALSE
