SPECIFICATION DeskSpec
CONSTANTS
    NoTx = NoTx
    Tx = {t1, t2}
    p1 = p1
    p2 = p2
    Row = {p1, p2}
    Order = {o1, o2}
    NoOrder = NoOrder
    c1 = c1
    Combo = {c1}
    NoCap = NoCap
    Dated = {}
    Admin = {}
    Keep = Keep
    OpeningStock = 2
    OfferCap = 1
    SecondPart = 0
    MaxBundles = 1
    Opening <- MCOpening
    Demands <- MCDemands
    Parts <- MCParts
    Cap <- MCCap
    Edits <- StatusEdits
CHECK_DEADLOCK FALSE
INVARIANT CapKept
