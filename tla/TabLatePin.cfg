SPECIFICATION Spec
CONSTANTS
    A = A
    B = B
    a1 = a1
    b1 = b1
    Pinner = pinner
    None = None
    Tab = {t1}
    Account = {A, B}
    Token = {a1, b1}
    Owner <- MCOwner
    Slot = {k1}
    Hint = {}
    Overlap = TRUE
    MaxLoads = 1
INVARIANT PinnedTabShowsItsAccount
