SPECIFICATION Spec
CONSTANTS
    s1 = s1
    s2 = s2
    a1 = a1
    c1 = c1
    c2 = c2
    Nobody = Nobody
    NoCopy = NoCopy
    Caller = {c1, c2}
    Session = {s1}
    SessionOf <- MCSameSession
    Account = {a1}
    AccountOf <- MCAccountOf
    Iat <- MCIat
    Ttl = 1
    MaxStale = 1
    Retry = 1
    Timeout = 1
    Skew = 1
    StaleFrom = "at"
    Faults = {"wall", "suspend"}
    CachedFeed = TRUE
    MaxTime = 3
    MaxLag = 1
SYMMETRY MCSymmetry
PROPERTIES AdmittedWriteIsVouched
