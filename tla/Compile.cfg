SPECIFICATION CompileSpec
CONSTANTS
    FeeBase = 100
    Q = 4
    MaxFee = 50
    Markets <- MCMarkets
    MaxPay = 12
    MaxTrades = 3
    MaxNow = 3
    Pools = {"deep", "crossing", "thin"}
    Out <- MCOut
    UsdHeld = {2, 6}
    SolHeld = {2, 11, 20}
    MaxSol = 20
    Required = 6
    Reserve = 2
    Iterations = 4
    Tolerance <- MCTolerance
    Buffer <- MCBuffer
    MaxOthers = 2
    Configs <- MCConfigs
    Estimates <- MCEstimates
    MinTip <- MCMinTip
    SetupTip = 1
    Listed <- MCListed
    PacketLimit = 1232
    Requests <- MCRequests
    Limits <- MCLimits
    MaxInstructions = 12
INVARIANTS
    InstructionsKept
    FeesOnce
    NeverMissigned
    FitsIfItCan
    NoProfitFromRounding
    ReservesHold
    LandedIsFunded
    FeesInBounds
    SetupDeliveredOnce
PROPERTIES
    SpendsWithinRequest
CHECK_DEADLOCK FALSE
