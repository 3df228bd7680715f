SPECIFICATION MCSpec
CONSTANTS
    e1 = e1
    e2 = e2
    f2 = f2
    g2 = g2
    e3 = e3
    x2 = x2
    Relay = {r1, r2}
    Event = {e1, e2, f2, g2, e3, x2}
    At <- MCAt
    LastSecond = 4
    Dropped = {x2}
    Limit = 3
    MinPage = 2
    MaxEvents = 9
    MaxPages = 9
    Caps = {1, 2, 3}
    Others = {0, 1, 2}
    Lossy = TRUE
    MaxLate = 1
SYMMETRY MCSymmetry
INVARIANTS TypeOK CompleteMeansAllRead UntruncatedMeansEnded SpreadRelayIsRead
