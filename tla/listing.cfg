SPECIFICATION FairSpec
CONSTANTS
    Calls = {r1, r2}
    MaxRequests = 1
    Interval = 2
    Timeout = 1
    Queries <- EdgeQueries
    IntLimit = 16
    PageTTL = 1
    MaxEditions = 1
    Faults = {"db", "cut", "redis"}
    None = None
INVARIANTS
    TypeOK
    PagesAreAnswers
PROPERTIES
    PagesHeal
CHECK_DEADLOCK FALSE
