SPECIFICATION FilterSpec
CONSTANTS
    addr = addr
    k = k
    l = l
    ck = ck
    cl = cl
    stray = stray
    Copy = {ck, cl, stray}
    Address = {addr}
    Key = {k, l}
    AddressOf <- MCAddressOf
    KeysOf <- MCKeysOf
    Issued <- MCIssued
    Valid = {ck, cl}
    Ahead = {stray}
    Coins <- MCCoins
    Amounts = {1, 2}
    MaxInFlight = 2
    MaxReads = 1
    r1 = r1
    r2 = r2
    r3 = r3
    e1 = e1
    e2 = e2
    g2 = g2
    h2 = h2
    e3 = e3
    Relay = {r1, r2, r3}
    Event = {e1, e2, g2, h2, e3}
    At <- MCAt
    Contents <- MCContents
    PAGE_LIMIT = 2
    MAX_PAGES = 3
    WRITE_QUORUM = 2
    MaxLate = 1
INVARIANTS ReadMeansAllHeld SharedStakeIsCaught AnsweredNeverFailsOpen AgeIsOfTheAmount CompleteMissesNoQuorum
PROPERTIES HeldIsChecked
CHECK_DEADLOCK FALSE
