SPECIFICATION BreakerSpec
CONSTANTS
    Calls = {c1, c2, c3, c4, c5}
    MaxRequests = 1
    Interval = 2
    Timeout = 1
SYMMETRY Symmetry
INVARIANTS
    BreakerTypeOK
    CountsAreHistory
    SingleProbe
    RefusalsAreEarned
PROPERTIES
    ImplementsContract
CHECK_DEADLOCK FALSE
