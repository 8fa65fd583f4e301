SPECIFICATION Spec
CONSTANTS
    e1 = e1
    e2 = e2
    Executions <- Two
    Retries = 2
    RetryAfters <- Spans
    BackoffCap <- Cap
    MaxDelay <- Delays
INVARIANTS
    SuccessIsStored
    FailureIsExhausted
    RepeatsAreEarned
    OneLatePost
PROPERTIES
    ImplementsDelivery
    CallsEnd
