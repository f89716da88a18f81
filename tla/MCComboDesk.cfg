SPECIFICATION FairDeskSpec
CONSTANTS
    NoTx = NoTx
    Tx = {t1, t2}
    p1 = p1
    p2 = p2
    Row = {p1, p2}
    Order = {o1, o2}
    NoOrder = NoOrder
    c1 = c1
    Combo = {c1}
    NoCap = NoCap
    Dated = {c1}
    Admin = {a1}
    Keep = Keep
    OpeningStock = 3
    OfferCap = 2
    SecondPart = 0
    MaxBundles = 2
    Opening <- MCOpening
    Demands <- MCDemands
    Parts <- MCParts
    Cap <- MCCap
    Edits <- CapEdits
CHECK_DEADLOCK FALSE
INVARIANTS
    AvailabilityExact
PROPERTY ExpiredIsRetired
