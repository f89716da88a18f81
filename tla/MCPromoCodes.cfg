SPECIFICATION PromoSpec
CONSTANTS
    NoTx = NoTx
    Tx = {t1, t2, t3}
    code = code
    Code = {code}
    Customer = {ann, bob, guest}
    Anonymous = {guest}
    NoOrder = NoOrder
    Order = {o1, o2, o3, o4}
    NoCode = NoCode
    NoLimit = NoLimit
    Keep = Keep
    Admin = {a1}
    UsageLimit = 3
    PerUser = 1
    Terms <- MCTerms
    Edits <- SwitchEdits
SYMMETRY Perms
CHECK_DEADLOCK FALSE
INVARIANTS
    UsedIsRedeemed
    WithinLimit
    OverlapsAloneOverrun
