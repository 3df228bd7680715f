SPECIFICATION Spec
CONSTANTS
    addr = addr
    k = k
    l = l
    ck = ck
    cl = cl
    stray = stray
    Copy = {ck, cl, stray}
    Address = {addr}
    Key = {k, l}
    AddressOf <- MCAddressOf
    KeysOf <- MCKeysOf
    Issued <- MCIssued
    Valid = {ck, cl}
    Ahead = {stray}
    Coins <- MCCoins
    Amounts = {1, 2}
    MaxInFlight = 2
    MaxReads = 1
INVARIANT UnsignedCountsForNothing
CHECK_DEADLOCK FALSE
