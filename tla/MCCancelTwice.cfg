SPECIFICATION CheckoutSpec
CONSTANTS
    NoTx = NoTx
    Shopper = {s1}
    Clerk = {a1, a2}
    Tx = {s1, a1, a2}
    p1 = p1
    p2 = p2
    Row = {p1, p2}
    c1 = c1
    Combo = {c1}
    code = code
    Code = {code}
    Order = {o1}
    NoOrder = NoOrder
    NoCart = NoCart
    NoCode = NoCode
    NoLimit = NoLimit
    NoCap = NoCap
    Keep = Keep
    Customer = {"ann"}
    Anonymous = {}
    Admin = {}
    Edits = {}
    Dated = {}
    Stock1 = 2
    Stock2 = 2
    UsageLimit = 1
    OfferCap = NoCap
    StatusEdits = {"FAILED"}
    PayEdits = {}
    MaxHistory = 3
    Opening <- MCOpening
    Parts <- MCParts
    Cap <- MCCap
    Terms <- MCTerms
    Method <- MCMethod
    Demands <- MCDemands
    Carts <- MCBundle
SYMMETRY Perms
CHECK_DEADLOCK FALSE
INVARIANT RestoredOnce
