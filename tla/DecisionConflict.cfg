\* Two calls for different actions, no crash needed.
CONSTANTS
    Calls = {c1, c2}
    Runtimes = {r1}
    RequestIDs = {q1}
    Digests = {a1, a2}
    Evaluations = {plain, cutShort}
    ReviewEvaluations = {}
    DecisionIDs = {d1, d2}
    EffectIDs = {e1}
    MaxOpenConns = 2
    NoCall = NoCall
    NoValue = NoValue
    CutShort = cutShort
    MaxCrashes = 0
SPECIFICATION FairSpec
PROPERTIES
    ConflictDuringCommitReported
CHECK_DEADLOCK FALSE
