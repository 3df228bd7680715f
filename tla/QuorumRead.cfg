SPECIFICATION Spec
CONSTANTS
    a = a
    b = b
    c = c
    h = h
    Relay <- MCRelay
    Reference <- MCReference
    Asked <- MCReference
    Home = {h}
    Forgetfuls <- MCForgetfuls
    Attempts = 2
    Reader = {q1}
SYMMETRY MCSymmetry
INVARIANTS LiveMissesNoQuorum
PROPERTIES KeepsPromise
CHECK_DEADLOCK FALSE
