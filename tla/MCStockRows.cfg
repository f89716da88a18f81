SPECIFICATION StockSpec
CONSTANTS
    NoTx = NoTx
    Tx = {t1, t2, t3}
    p1 = p1
    p2 = p2
    Row = {p1, p2}
    Order = {o1, o2}
    NoOrder = NoOrder
    Opening <- MCOpening
    Demands <- MCDemands
SYMMETRY Perms
INVARIANTS
    NonNegative
    ReturnsAreWhole
PROPERTY StockMovesWithLedger
