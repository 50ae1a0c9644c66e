CONSTANTS
    MaxSteps = 1
    SinkFaults = {}
    ServiceFaults = {}
    FlowFaults = {}
    ExecFaults = {"cancel"}
    CloseFaults = {}
SPECIFICATION ThreadedSpec
PROPERTIES
    NoLateProgress
CHECK_DEADLOCK FALSE
