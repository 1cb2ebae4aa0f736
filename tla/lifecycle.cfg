SPECIFICATION FairSpec
CONSTANTS
    HttpRequests = {h1, h2}
    GrpcRequests = {g1}
    Deadline = 2
INVARIANTS
    TypeOK
    HttpRequestsAreServed
PROPERTIES
    StopsWhenTold
CHECK_DEADLOCK FALSE
