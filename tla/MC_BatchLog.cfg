SPECIFICATION Spec
CONSTANTS
    Owner = {trader}
    MaxU64 = 12
    MaxI64 = 3
    MaxOrders = 2
    Params <- NoRequests
    ParamLists <- NoLists
    Intervals = {0, 1, 2}
    BatchIds = {1, 2, 3, 4}
    MaxSlot = 6
INVARIANTS
    ResultsNumberTheBatches
PROPERTIES
    BatchesKeepTheInterval
