SPECIFICATION Spec
CONSTANTS
    p1 = p1
    p2 = p2
    h1 = h1
    Junk = Junk
    Pkg = {p1, p2}
    Handler = {h1}
    FAILURE_THRESHOLD = 3
    MaxFail = 3
INVARIANTS
    RecoveryWhenDue
    ListedIsWhole
    NoneLeftOut
PROPERTIES
    ComesUp
