SPECIFICATION Spec
CONSTANTS
    Services = {"postgres", "consumer"}
    MaxAttempts = 3
    MaxFaults = 2
    MaxForeign = 2
    Inputs = {e1, e2}
INVARIANTS NoLeak ForeignIsSafe CompletedMeansStored InterruptIsCleaned
PROPERTY DemoEnds
CHECK_DEADLOCK FALSE
