CONSTANTS
    Catalogs <- SmallCatalogs
    Executors <- SmallExecutors
    ToolNames = {"t", "u"}
    ArgumentSets <- SmallArguments
    MaxCalls = 2
SPECIFICATION Spec
INVARIANTS
    ErrorResultsAreExpected
    StartsAsDeclared
    EncodesExactlyJson
CHECK_DEADLOCK FALSE
