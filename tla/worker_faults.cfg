SPECIFICATION Spec
CONSTANTS
    Workers = {w1, w2}
    ProductPartitions = {pp}
    InvoicePartitions = {}
    Products = {d1}
    PartitionOf <- OnePartition
    Rows = {v1}
    Invoices = {i1}
    MaxRetries = 1
    MaxMessages = 2
    Faults = {"crash", "pause", "commit", "term", "es"}
    MaxFaults = 3
    None = None
SYMMETRY Symmetry
INVARIANTS
    TypeOK
    EachLossIsAFailure
    OnlyFaultsReplay
    ClaimsAreExclusive
    ReplaysConverge
PROPERTIES
    CommitsNeverRewind
CHECK_DEADLOCK FALSE
