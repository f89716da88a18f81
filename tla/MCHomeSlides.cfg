SPECIFICATION MCSpec
CONSTANTS
    NoTx = NoTx
    Tx = {t1, t2}
    Slide = {1, 2, 3}
    FirstSlides = 2
    Position = {0, 3}
    Append = Append
    Pool = 2
    MaxRequests = 3
CHECK_DEADLOCK FALSE
INVARIANTS
    LivesAreLogged
PROPERTIES
    LoneKeepsOrder
    LoneMoveIsLogged
    EveryRequestEnds
