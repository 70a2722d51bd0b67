\* Liveness: two members, one partition, failures that stop.
CONSTANTS
    m1 = m1  m2 = m2  p1 = p1  k1 = k1  b1 = b1  b2 = b2
    Members = {m1, m2}
    Partitions = {p1}
    Keys = {k1}
    Bodies = {b1}
    PartitionOf <- AllInP1
    Poison = Poison
    NoRow = NoRow
    NoMember = NoMember
    NoPartition = NoPartition
    BatchSize = 2
    MaxLog = 2
    MaxFaults = 2
SPECIFICATION FairSpec
PROPERTY EverythingIsCommitted
CHECK_DEADLOCK FALSE
