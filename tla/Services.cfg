SPECIFICATION Spec
CONSTANTS
    Blob = {v1, v2, v3}
    Concurrency = 2
    MaxChanges = 2
    MaxPulls = 1
    Calendar = {p, q, r}
    MinSuccesses = 2
    Height = {1, 2}
    Caller = {c, d}
    Opens = {c}
    Ttl = 2
    ErrorTtl = 1
    Deadline = 1
    LastTime = 5
    A = A
    B = B
    a1 = a1
    b1 = b1
    Pinner = pinner
    NoValue = NoValue
    Tab = {t1}
    Account = {A, B}
    Token = {a1, b1}
    Owner <- MCOwner
    Slot = {k1}
    Hint = {}
    Overlap = TRUE
    MaxLoads = 2
INVARIANTS PullIsWhole
PROPERTIES OnlyDeletedIsLost AnchoredIsNotPending  AllowIsRecent FailOpenIsBrief 
CHECK_DEADLOCK FALSE
