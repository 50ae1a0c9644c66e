CONSTANTS
    Catalogs <- OneTool
    Executors <- SmallExecutors
    ToolNames = {"t"}
    ArgumentSets <- SmallArguments
    MaxCalls = 1
SPECIFICATION Spec
INVARIANTS
    ErrorsFollowPolicy
CHECK_DEADLOCK FALSE
