SPECIFICATION Spec
CONSTANTS
    Owner = {trader}
    MaxU64 = 7
    MaxI64 = 0
    MaxOrders = 4
    Params <- BidBook
    ParamLists <- NoLists
    Intervals = {0}
    BatchIds = {}
    MaxSlot = 0
INVARIANTS
    ClearingIsOptimal
    TakersServedInPriceOrder
    TakersOfOnePriceShareAlike
    ShortfallWithinOneLevel
    SmallBooksNeverPanic
