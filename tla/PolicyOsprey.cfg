\* What the Osprey adapter makes of every answer of up to three verdicts.
SPECIFICATION Spec
CONSTANTS
    PolicyEvaluator = "osprey"
    PolicyKeys = {"k1", "k2"}
    BadKey = "bad"
    MaxVerdicts = 3
    MaxAttempts = 3
    EvidenceTypes = {"t1"}
    EvidenceIDs = {"i1"}
    Issuers = {"own"}
    OwnRuntime = "own"
    AccessScopes = {"PRIVATE"}
    MaxEvidence = 0
INVARIANTS
    TypeOK
    FailsClosed
    ApprovalNeverCuresTerminal
    DecisionsSurviveStorage
    VerdictOrderIrrelevant
    RulesExplainReasons
CHECK_DEADLOCK FALSE
