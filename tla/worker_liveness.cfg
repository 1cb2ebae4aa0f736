SPECIFICATION FairSpec
CONSTANTS
    Workers = {w1}
    ProductPartitions = {pp}
    InvoicePartitions = {ip}
    Products = {d1}
    PartitionOf <- OnePartition
    Rows = {v1}
    Invoices = {i1}
    MaxRetries = 1
    MaxMessages = 2
    Faults = {"crash", "es"}
    MaxFaults = 2
    None = None
PROPERTIES
    EveryMessageIsConsumed
    GroupSettles
CHECK_DEADLOCK FALSE
