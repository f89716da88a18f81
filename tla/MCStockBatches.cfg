SPECIFICATION BatchSpec
CONSTANTS
    NoTx = NoTx
    NoRow = NoRow
    NoCost = NoCost
    Tx = {t1, t2}
    p1 = p1
    p2 = p2
    low = low
    high = high
    Row = {p1, p2}
    Cost = {low, high}
    MaxBatch = 3
    Opening <- MCOpening
    Intakes <- MCIntakes
    Removals <- MCRemovals
    Sales <- MCSales
SYMMETRY Perms
INVARIANTS
    StockIsLedger
    ShortfallExplained
    OldestFirst
PROPERTY IntakesWeigh
