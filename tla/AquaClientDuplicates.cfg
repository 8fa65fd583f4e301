SPECIFICATION Spec
CONSTANTS
    e1 = e1
    e2 = e2
    Executions <- One
    Retries = 2
    RetryAfters <- LongSpan
    BackoffCap <- Cap
    MaxDelay <- Delays
INVARIANTS
    OneExecutionPerTest
