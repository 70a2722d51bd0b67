\* The signal, a failing server and the deadline at every point of the loop,
\* while operations fail and recover.
CONSTANTS
    MaxFaults = 2
    MaxFailures = 3
    OpKinds = {"storage", "progress"}
SPECIFICATION OpsSpec
INVARIANTS CleanExit NoFalseAlarm LogAgreesWithReadiness FailuresAccounted
PROPERTIES NoPollAfterStop StopIsNotLost DrainIsBounded DrainIsUnready
CHECK_DEADLOCK FALSE
