CONSTANTS
    Chains <- OneRetry
    MaxAttempts = 2
    MaxCancels = 0
    RetriesTimeouts = FALSE
SPECIFICATION Spec
PROPERTIES
    NoExecutionAfterDispatchFailure
CHECK_DEADLOCK FALSE
