CONSTANTS
    c1 = c1
    c2 = c2
    f1 = f1
    f2 = f2
    NoKey = NoKey
    Facades = {c1}
    Flows = {f1}
    First = c1
    Seeds <- FreshStart
    Registrable <- OneOfEach
    MaxRounds = 1
    MaxCalls = 0
    MaxInputs = 1
    MaxEdits = 0
    SendsContinuation = TRUE
    BeginFails = TRUE
SPECIFICATION Spec
INVARIANTS
    BusyMatchesFlow
CHECK_DEADLOCK FALSE
