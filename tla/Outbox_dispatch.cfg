\* Two overlapping dispatchers, batches smaller than the table.
CONSTANTS
    Orders = {o1, o2, o3}
    Dispatchers = {d1, d2}
    BatchSize = 2
    MaxAttempts = 2
    MaxFaults = 2
SPECIFICATION Spec
INVARIANT OldestFirst
PROPERTIES ImplementsObligation EveryOrderDecided
CHECK_DEADLOCK FALSE
