CONSTANTS
    c1 = c1
    c2 = c2
    f1 = f1
    f2 = f2
    NoKey = NoKey
    Facades = {c1, c2}
    Flows = {f1, f2}
    First = c1
    Seeds <- FreshStart
    Registrable <- OneOfEach
    MaxRounds = 2
    MaxCalls = 2
    MaxInputs = 3
    MaxEdits = 2
    SendsContinuation = TRUE
    BeginFails = TRUE
SPECIFICATION Spec
INVARIANTS
    OneFlow
    RequestsWellFormed
    InputKeptInOrder
    ToolsAreDeliverable
    TurnBasedOnCommitted
    ContinuationIsCurrent
PROPERTIES
    ResultIsThisTurn
    TurnsEnd
    Transactional
    RemindersSettle
CHECK_DEADLOCK FALSE
