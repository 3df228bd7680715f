SPECIFICATION Spec
CONSTANTS
    Caller = {c1, c2}
    Opens = {c1}
    Ttl = 2
    ErrorTtl = 1
    Deadline = 1
    LastTime = 5
PROPERTIES ClosedByDefault
CHECK_DEADLOCK FALSE
