SPECIFICATION Spec
CONSTANTS
    Owner = {alice, bob}
    MaxU64 = 12
    MaxI64 = 1
    MaxOrders = 2
    Params <- SingleRequests
    ParamLists <- RequestLists
    Intervals = {0}
    BatchIds = {1, 2}
    MaxSlot = 1
SYMMETRY Owners
INVARIANTS
    TypeOK
    QueuesHoldOpenOrders
    QueuesInTimeOrder
PROPERTIES
    OthersOrdersKept
    ReportedVolumeLeavesQueues
