SPECIFICATION MCSpec
CONSTANTS
    NoTx = NoTx
    Tx = {t1, t2}
    Address = {a1, a2, a3}
    NoAddress = NoAddress
    Code = {1, 2, 3}
    File = {f1, f2, f3}
    NoFile = NoFile
    Image = {1, 2, 3, 4}
    FirstImages = 2
    BookRequests = 4
    AccountRequests = 3
    UploadRequests = 4
    Variant = {1, 2, 3}
    FirstVariants = {1, 2}
    FirstStock = 1
    Bodies <- MCBodies
    Statuses = {"ACTIVE", "INACTIVE", "DRAFT"}
    Keep = Keep
    Absent = Absent
    UnitPrices = {1, 5, 34}
    Quantities = {1, 3}
    MaxLines = 4
    Promos <- MCPromos
    NoMax = NoMax
    DeliveryCharge = 50
    Fine = 10
    BasePrices = {3005, 15000}
    DiscountValues = {1004, 10000, 33333, 100001}
    FirstPrice = 700
    Unsaid = Unsaid
    NoValue = NoValue
    GalleryRequests = 2
    ShelfRequests = 4
    TagRequests = 4
    Combo = {c1, c2}
    FirstCombo = c1
    FirstParts = {1}
    Lists <- MCLists
    BundleRequests = 3
    Company = {p1, p2}
    Zone = {z1, z2}
    Spelling <- MCSpellings
    Undrawn = Undrawn
    Deleted = Deleted
    CourierRequests = 4
SYMMETRY Perms
CHECK_DEADLOCK FALSE
INVARIANTS
    AccountsAreWhole
    LateNeverDangles
    ShownIsStored
    AlwaysADefault
    BillAddsUp
    NamesApart
PROPERTIES
    LoneDefaultIsOnly
    LastDefaultGoesByHand
    SpentWithItsEffect
    ReactivationIsOld
    LoneLeavesNoOrphan
    LoneEditArranges
    LoneRequestHeals
    LoneEditReprices
    LoneRequestKeepsBundles
