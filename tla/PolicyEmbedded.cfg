\* What the embedded rules make of every action with up to two evidence items.
SPECIFICATION Spec
CONSTANTS
    PolicyEvaluator = "embedded"
    PolicyKeys = {"k1"}
    BadKey = "bad"
    MaxVerdicts = 0
    MaxAttempts = 2
    EvidenceTypes = {"t1", "t2"}
    EvidenceIDs = {"i1", "i2"}
    Issuers = {"own", "other"}
    OwnRuntime = "own"
    AccessScopes = {"PRIVATE", "WORKSPACE", "PUBLIC", "OTHER"}
    MaxEvidence = 2
INVARIANTS
    AllowOnlyWhenClear
    ClearIsAllowed
    RetriesReplyAlike
    SecretsAreReviewed
CHECK_DEADLOCK FALSE
