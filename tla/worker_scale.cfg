SPECIFICATION FairSpec
CONSTANTS
    Workers = {w1, w2}
    ProductPartitions = {pp}
    InvoicePartitions = {ip}
    Products = {d1}
    PartitionOf <- OnePartition
    Rows = {v1}
    Invoices = {i1}
    MaxRetries = 1
    MaxMessages = 1
    Faults = {}
    MaxFaults = 1
    None = None
PROPERTIES
    GroupSettles
CHECK_DEADLOCK FALSE
