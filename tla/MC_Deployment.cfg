SPECIFICATION FairDeploymentSpec
CONSTANTS
    Owner = {wallet}
    wallet = wallet
    MaxU64 = 60
    MaxI64 = 0
    MaxOrders = 1
    Params <- OneTake
    ParamLists <- OneQuote
    Intervals = {1}
    BatchIds = {1, 2}
    MaxSlot = 1
    BasePrice = 4
    DemoLevels = 1
    PanelOrders <- OneTake
    MaxLate = 1
INVARIANTS
    DeploymentTypeOK
    DemoReportsItsBatch
PROPERTIES
    DelegatedInOrder
    
    RestartedScriptIsStuck
    ClientsComeBack
