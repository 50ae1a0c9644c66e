CONSTANTS
    MaxSteps = 3
    SinkFaults = {"exc", "ede", "cancel", "base"}
    ServiceFaults = {"exc", "ede", "cancel", "base"}
    FlowFaults = {"exc", "ede", "cancel", "base"}
    ExecFaults = {"exc", "ede", "cancel", "base"}
    CloseFaults = {"exc", "base"}
SPECIFICATION Spec
INVARIANTS
    ResultsAreObserved
    ClosedOnAbnormalExit
    ObserverAgreesWithCaller
    PrimaryErrorSurvives
PROPERTIES
    EventOrder
CHECK_DEADLOCK FALSE
