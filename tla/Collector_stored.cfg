\* A request, a stray record, one consumer with two partitions, a failure.
CONSTANTS
    r1 = r1  r2 = r2  m1 = m1  p1 = p1  p2 = p2  k1 = k1  b1 = b1  b2 = b2
    Requests = {r1}
    Batch <- Conflict
    MaxBuffered = 1
    Members = {m1}
    NoMember = NoMember
    NoPartition = NoPartition
    BatchSize = 2
    MaxFaults = 1
    Partitions = {p1, p2}
    Keys = {k1}
    Bodies = {b1, b2}
    PartitionOf <- InP2
    Poison = Poison
    NoRow = NoRow
    MaxLog = 1
SPECIFICATION FairCollector
INVARIANT StoredWasSubmitted
PROPERTY AcceptedIsStored ImplementsReader
CHECK_DEADLOCK FALSE
