SPECIFICATION FairSendSpec
CONSTANTS
    Endpoint = {e1, e2}
    Size = 2
    BundleMost = 2
    MaxRounds = 2
INVARIANTS
    OkMeansLanded
    GateHolds
PROPERTIES
    KeepsContract
    SendEnds
