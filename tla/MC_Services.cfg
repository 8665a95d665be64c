SPECIFICATION FairServicesSpec
CHECK_DEADLOCK FALSE
CONSTANTS
    Owner = {maker, taker}
    maker = maker
    taker = taker
    MaxU64 = 12
    MaxI64 = 0
    MaxOrders = 2
    Params <- NoRequests
    ParamLists <- NoLists
    Intervals = {0}
    BatchIds = {1}
    MaxSlot = 0
    Mids = {3, 6}
    Levels = 1
    PerSide = 1
    Reach = 2
    Quantities = {1}
    Ticks = {t1, t2}
INVARIANTS
    ServicesTypeOK
    QuotesAreOneTicks
PROPERTIES
    MakerKeepsItsPlaces
    FullOfTakersIsForEver
    QuotesComeToRest
    AllServicesStart
