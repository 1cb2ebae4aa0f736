SPECIFICATION LimiterSpec
CONSTANTS
    Requests = {r1, r2, r3, r4}
    Addresses = {a1}
    Burst = 2
    Rate = 1
    CleanupEvery = 2
    MaxTime = 3
    None = None
SYMMETRY Symmetry
INVARIANTS
    LimiterTypeOK
    BucketBound
    OneBucketPerPeriod
CHECK_DEADLOCK FALSE
