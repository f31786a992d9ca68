SPECIFICATION Spec
CONSTANTS
    Length <- MCLength
    DigestTexts <- MCDigestTexts
    NulTexts = {"NUL q"}
    MaxItems = 3
    MaxLabels = 2
    LastTime = 6
    Requests <- MCRequests
    Deserved <- MCDeserved
    Credentials <- MCCredentials
    PolicyEvaluators = {"embedded"}
    Evaluations = {"allow"}
    MaxAttempts = 2
    NoValue = NoValue
INVARIANTS
    ExactRetryStable
CHECK_DEADLOCK FALSE
