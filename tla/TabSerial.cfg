SPECIFICATION Spec
CONSTANTS
    A = A
    B = B
    a1 = a1
    b1 = b1
    Pinner = pinner
    None = None
    Tab = {t1, t2}
    Account = {A, B}
    Token = {a1, b1}
    Owner <- MCOwner
    Slot = {k1}
    Hint = {A}
    Overlap = FALSE
    MaxLoads = 2
SYMMETRY MCSymmetry
INVARIANTS PinNamesItsAccount PinnedTabShowsItsAccount PinEndsWithSignOut
PROPERTY NoTabIsYanked
