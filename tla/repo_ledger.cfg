SPECIFICATION Spec
CONSTANTS
    Requests = {r1, r2, r3}
    Products = {p1, p2}
    Users = {u1}
    Payloads <- EdgePayloads
    Quantities = {1, 2}
    Seed <- OneProduct
    Ops = {"getStock", "create", "update", "delete", "checkout"}
    MaxInFlight = 3
    MaxInt = 3
    MaxRetry = 1
    Faults = {"db", "ack", "redis", "kafka", "crash"}
    None = None
SYMMETRY Symmetry
INVARIANTS
    TypeOK
    StockNeverNegative
    ReservedRowIsUntouched
    SalesReferToProducts
    InvoicesAreForSales
    AcknowledgedCheckoutIsRecorded
    ReadsShowCommittedRows
    EventsNameKnownProducts
    InvoicesAreBounded
    EverySaleIsAccountedFor
PROPERTIES
    ImplementsLedger
CHECK_DEADLOCK FALSE
