SPECIFICATION BookSpec
CONSTANTS
    NoTx = NoTx
    Tx = {t1, t2}
    NoOrder = NoOrder
    Order = {o1}
    Method <- MCMethod
    StatusEdits <- OrderStatus
    PayEdits = {"PAID", "CANCELLED"}
    MaxHistory = 7
SYMMETRY Perms
CHECK_DEADLOCK FALSE
INVARIANTS
    ChargeMirrorsOrder
PROPERTY OnlyOldReadersRevive
