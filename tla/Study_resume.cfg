\* Two cases, the second one a pipeline: three runs and two faults.
CONSTANTS
    CaseCount = 2
    Pipeline = {2}
    Sources = {s1, s2}
    Runtimes = {r1, r2}
    None = None
    MaxRuns = 3
    MaxFaults = 2
SYMMETRY Symmetry
SPECIFICATION Spec
INVARIANTS JournalIsBacked AuditedEvidence NamesAreFresh
PROPERTY DoneIsFinal
CHECK_DEADLOCK FALSE
