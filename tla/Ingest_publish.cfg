\* A batch of two and a single event through a buffer of two records.
CONSTANTS
    r1 = r1  r2 = r2  r3 = r3  p1 = p1  p2 = p2  k1 = k1  k2 = k2  b1 = b1
    Requests = {r1, r2}
    Batch <- MixedBatch
    MaxBuffered = 2
    Partitions = {p1, p2}
    Keys = {k1, k2}
    Bodies = {b1}
    PartitionOf <- KeysSpread
    Poison = Poison
    NoRow = NoRow
    MaxLog = 2
SPECIFICATION FairSpec
INVARIANTS AcceptedIsInLog CallbacksNeverBlock CleanExit
PROPERTIES EveryRequestAnswered ShutdownEnds
CHECK_DEADLOCK FALSE
