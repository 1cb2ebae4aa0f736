SPECIFICATION Spec
CONSTANTS
    Requests = {r1, r2, r3, r4}
    Products = {p1, p2}
    Users = {u1}
    Payloads <- TwoPayloads
    Quantities = {1, 2}
    Seed <- OneProduct
    Ops = {"get", "getStock", "create", "update", "delete", "checkout"}
    MaxInFlight = 1
    MaxInt = 3
    MaxRetry = 1
    Faults = {}
    None = None
SYMMETRY Symmetry
PROPERTIES
    StockReadIsCurrent
CHECK_DEADLOCK FALSE
