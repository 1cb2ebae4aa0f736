SPECIFICATION Spec
CONSTANTS
    Requests = {r1, r2}
    Addresses = {a1}
    Emails = {e1}
    Passwords = {p1, p2, long}
    Prefix <- OneLong
    Burst = 1
    Rate = 1
    CleanupEvery = 1
    MaxTime = 1
    TokenLife = 1
    Secret = secret
    Fallback = fallback
    Seeds <- NobodyOrAdmin
    Faults = {"db", "ack"}
    None = None
    long = long
SYMMETRY Symmetry
INVARIANTS
    TypeOK
    AdminsWereAdmins
    AccountsAreKept
CHECK_DEADLOCK FALSE
