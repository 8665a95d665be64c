SPECIFICATION FairAuctionResultsSpec
CONSTANTS
    Owner = {trader}
    MaxU64 = 12
    MaxI64 = 0
    MaxOrders = 1
    Params <- NoRequests
    ParamLists <- NoLists
    Intervals = {0}
    BatchIds = {1, 2, 3}
    MaxSlot = 0
    Count = 2
    Polls = {p1, p2}
INVARIANTS
    AuctionResultsTypeOK
    ListedResultsAreTheLog
PROPERTY ResultsCatchUp
