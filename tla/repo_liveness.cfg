SPECIFICATION FairSpec
CONSTANTS
    Requests = {r1, r2, r3}
    Products = {p1, p2}
    Users = {u1}
    Payloads <- CachePayloads
    Quantities = {1, 2}
    Seed <- OneProduct
    Ops = {"get", "update", "delete", "checkout"}
    MaxInFlight = 3
    MaxInt = 3
    MaxRetry = 1
    Faults = {}
    None = None
INVARIANTS
    StaleCopiesHaveACause
PROPERTIES
    EveryRequestIsAnswered
    SalesAreInvoicedOnce
CHECK_DEADLOCK FALSE
