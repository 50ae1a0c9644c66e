CONSTANTS
    MaxSteps = 1
    SinkFaults = {"exc"}
    ServiceFaults = {}
    FlowFaults = {}
    ExecFaults = {"cancel"}
    CloseFaults = {}
SPECIFICATION ThreadedSpec
INVARIANTS
    CancellationStaysPrimary
CHECK_DEADLOCK FALSE
