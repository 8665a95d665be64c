SPECIFICATION Spec
CONSTANTS
    Owner = {trader}
    MaxU64 = 8
    MaxI64 = 0
    MaxOrders = 3
    Params <- AskBook
    ParamLists <- NoLists
    Intervals = {0}
    BatchIds = {1}
    MaxSlot = 0
INVARIANTS
    ClearingIsOptimal
    TakersServedInPriceOrder
    ShortfallWithinOneLevel
PROPERTIES
    ReportedVolumeLeavesQueues
    BatchStepOnlyFills
