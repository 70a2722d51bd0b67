\* The smallest study that shows it: one pipeline case.
CONSTANTS
    CaseCount = 1
    Pipeline = {1}
    Sources = {s1}
    Runtimes = {r1}
    None = None
    MaxRuns = 2
    MaxFaults = 1
SPECIFICATION Spec
INVARIANT AuditedStatus
CHECK_DEADLOCK FALSE
