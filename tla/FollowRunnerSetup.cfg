\* A buy before the deferred setup, with a delay, a dev auto sell after it, one send slot.
CONSTANTS
    Actions = {"b1", "d1"}
    Wallets = {"w1", "w2"}
    None = "none"
    Kind <- MCKind
    WalletOf <- TwoWallets
    Trigger <- SetupTrigger
    TriggerKey <- SetupKey
    Delayed = {"b1"}
    OrderIndex <- MCOrderIndex
    Lead <- MCLead
    PreSigned = {"b1", "d1"}
    SkipIfHeld = {"b1"}
    HasSetup = TRUE
    Pump = TRUE
    VaultRetry = {}
    RetryBudget = 1
    SendSlots = 1
    Operator = {"cancelJob"}
    Faults = {"launch", "precheck", "compile", "submit", "unacknowledged", "onchain", "unconfirmed", "refresh", "expiry"}
    MaxFaults = 2
SPECIFICATION Spec
INVARIANTS
    SendBound
    SendsAfterSetup
    SetupLandsOnce
    AttemptsBounded
