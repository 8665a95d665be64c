SPECIFICATION FairCrankSpec
CONSTANTS
    Owner = {trader}
    MaxU64 = 12
    MaxI64 = 1
    MaxOrders = 1
    Params <- NoRequests
    ParamLists <- NoLists
    Intervals = {1}
    BatchIds = {1, 2, 3}
    MaxSlot = 3
    Ticks = {t1, t2}
INVARIANTS
    CrankTypeOK
    ConfirmedTicksExecutedTheirBatch
PROPERTIES
    ReadersSeeALog
    TakenAddressStopsTheCrank
    BatchesContinue
