SPECIFICATION Spec
CONSTANTS
    Owner = {trader}
    MaxU64 = 12
    MaxI64 = 0
    MaxOrders = 3
    Params <- BidBook
    ParamLists <- NoLists
    Intervals = {0}
    BatchIds = {}
    MaxSlot = 0
INVARIANT MakersShareTheVolume
