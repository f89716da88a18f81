SPECIFICATION MCSpec
CONSTANTS
    NoTx = NoTx
    Tx = {t1, t2}
    Cat = {1, 2, 3}
    NoCat = 0
    Product = {p1, p2}
    NoProduct = NoProduct
    Kept = Kept
    MaxRequests = 5
    FirstTree <- MCFirstTree
SYMMETRY Perms
CHECK_DEADLOCK FALSE
INVARIANTS
    TreeStaysAcyclic
    NothingStranded
    WaitCirclesHoldAMove
PROPERTY CountHeals
