\* The README calls every deny verdict terminal.
SPECIFICATION Spec
CONSTANTS
    PolicyEvaluator = "osprey"
    PolicyKeys = {"k1", "k2"}
    BadKey = "bad"
    MaxVerdicts = 3
    MaxAttempts = 3
    EvidenceTypes = {"t1"}
    EvidenceIDs = {"i1"}
    Issuers = {"own"}
    OwnRuntime = "own"
    AccessScopes = {"PRIVATE"}
    MaxEvidence = 0
INVARIANT DenyVerdictIsTerminal
CHECK_DEADLOCK FALSE
