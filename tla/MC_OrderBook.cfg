SPECIFICATION FairOrderBookSpec
CONSTANTS
    Owner = {trader}
    MaxU64 = 3
    MaxI64 = 0
    MaxOrders = 1
    Params <- Quotes
    ParamLists <- NoLists
    Intervals = {0}
    BatchIds = {}
    MaxSlot = 0
    Connections = {c1}
    Polls = {p1, p2}
    MaxSafe = 1
    MaxTimers = 2
INVARIANT OrderBookTypeOK
PROPERTIES
    BookCatchesUp
    RestWithoutViewers
