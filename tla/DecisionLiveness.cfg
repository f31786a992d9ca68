\* Three calls that share two connections.
CONSTANTS
    Calls = {c1, c2, c3}
    Runtimes = {r1}
    RequestIDs = {q1}
    Digests = {a1}
    Evaluations = {plain, cutShort}
    ReviewEvaluations = {}
    DecisionIDs = {d1}
    EffectIDs = {e1}
    MaxOpenConns = 2
    NoCall = NoCall
    NoValue = NoValue
    CutShort = cutShort
    MaxCrashes = 0
SPECIFICATION FairSpec
PROPERTIES
    EveryCallReturns
CHECK_DEADLOCK FALSE
