\* One sender with a queue of two: the third batch may find it full.
CONSTANTS
    N = 3
    Workers = {w1}
    MaxFaults = 1
SPECIFICATION Spec
INVARIANTS ObserverNeverBlocks OutcomeIsEarned NoSelfBlame
PROPERTIES ImplementsLedger SampleEnds
CHECK_DEADLOCK FALSE
