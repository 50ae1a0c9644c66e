CONSTANTS
    Chains <- Configurations
    MaxAttempts = 2
    MaxCancels = 2
    RetriesTimeouts = TRUE
SPECIFICATION Spec
INVARIANTS
    CancellationWins
PROPERTIES
    NoRetryOnceStopped
    DispatchErrorIsFinal
    ExecutionEnds
CHECK_DEADLOCK FALSE
