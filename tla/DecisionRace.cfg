\* Three calls on one key, two different actions.
CONSTANTS
    Calls = {c1, c2, c3}
    Runtimes = {r1}
    RequestIDs = {q1}
    Digests = {a1, a2}
    Evaluations = {plain, review, cutShort}
    ReviewEvaluations = {review}
    DecisionIDs = {d1, d2}
    EffectIDs = {e1}
    MaxOpenConns = 2
    NoCall = NoCall
    NoValue = NoValue
    CutShort = cutShort
    MaxCrashes = 1
SPECIFICATION Spec
SYMMETRY CallSymmetry
INVARIANTS
    TypeOK
    LedgerWhole
    DecisionBelongsToItsAction
    AnswersAreAuthoritative
    RetriesAgree
    CutShortNeverStored
CHECK_DEADLOCK FALSE
