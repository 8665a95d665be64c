SPECIFICATION Spec
CONSTANTS
    Owner = {alice, bob}
    MaxU64 = 12
    MaxI64 = 1
    MaxOrders = 3
    Params <- SingleRequests
    ParamLists <- RequestLists
    Intervals = {0}
    BatchIds = {1}
    MaxSlot = 1
INVARIANT OrderIdsAreUnique
