SPECIFICATION Spec
CONSTANTS
    Requests = {r1, r2, r3}
    Products = {p1, p2}
    Users = {u1}
    Payloads <- TwoPayloads
    Quantities = {1, 2}
    Seed <- OneProduct
    Ops = {"update"}
    MaxInFlight = 2
    MaxInt = 3
    MaxRetry = 1
    Faults = {}
    None = None
SYMMETRY Symmetry
INVARIANTS
    LastEventIsCurrent
CHECK_DEADLOCK FALSE
