\* Two members, one partition: fencing, replay, late statements.
CONSTANTS
    m1 = m1  m2 = m2  p1 = p1  k1 = k1  b1 = b1  b2 = b2
    Members = {m1, m2}
    Partitions = {p1}
    Keys = {k1}
    Bodies = {b1, b2}
    PartitionOf <- AllInP1
    Poison = Poison
    NoRow = NoRow
    NoMember = NoMember
    NoPartition = NoPartition
    BatchSize = 2
    MaxLog = 3
    MaxFaults = 2
SPECIFICATION Spec
SYMMETRY MemberSymmetry
INVARIANTS NoLoss FirstContentWins
PROPERTY ImplementsDelivery
CHECK_DEADLOCK FALSE
