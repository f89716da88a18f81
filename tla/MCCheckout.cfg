SPECIFICATION CheckoutSpec
CONSTANTS
    NoTx = NoTx
    Shopper = {s1, s2}
    Clerk = {a1}
    Tx = {s1, s2, a1}
    p1 = p1
    p2 = p2
    Row = {p1, p2}
    c1 = c1
    Combo = {c1}
    code = code
    Code = {code}
    Order = {o1, o2, o3}
    NoOrder = NoOrder
    NoCart = NoCart
    NoCode = NoCode
    NoLimit = NoLimit
    NoCap = NoCap
    Keep = Keep
    Customer = {"ann"}
    Anonymous = {}
    Admin = {}
    Edits = {}
    Dated = {}
    Stock1 = 3
    Stock2 = 2
    UsageLimit = 1
    OfferCap = 2
    StatusEdits = {"CANCELLED", "FAILED"}
    PayEdits = {"PAID"}
    MaxHistory = 3
    Opening <- MCOpening
    Parts <- MCParts
    Cap <- MCCap
    Terms <- MCTerms
    Method <- MCMethod
    Demands <- MCDemands
    Carts <- MCCarts
SYMMETRY Perms
CHECK_DEADLOCK FALSE
INVARIANTS
    OrderComplete
    SoldMatchesOrders
PROPERTY AtomicShopSpec
