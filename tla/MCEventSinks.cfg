CONSTANTS
    Sinks <- Nested
    SinkFaults = {"exc", "cancel", "base"}
    MaxEffects = 2
SPECIFICATION Spec
INVARIANTS
    AcceptedByAll
PROPERTIES
    ObserversHearTheRun
    NoneOutlivesTheLost
CHECK_DEADLOCK FALSE
