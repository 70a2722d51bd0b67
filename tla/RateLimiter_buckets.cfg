SPECIFICATION Spec
CONSTANTS
    Handlers = {h1, h2}
    Tenants = {t1}
    Rps = 2
    Cost = 1
    TTL = 5
    MaxStall = 1
    MaxTime = 7
    MaxBuckets = 4
INVARIANTS
    BucketBound
    TenantBound
PROPERTY
    FairRefusal
SYMMETRY Symmetry
