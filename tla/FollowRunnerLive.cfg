\* A buy before the deferred setup and a dev auto sell some blocks later, under the fairness of the executor.
CONSTANTS
    Actions = {"b1", "d1"}
    Wallets = {"w1"}
    None = "none"
    Kind <- MCKind
    WalletOf <- OneWallet
    Trigger <- LiveTrigger
    TriggerKey <- LiveKey
    Delayed = {}
    OrderIndex <- MCOrderIndex
    Lead <- MCLead
    PreSigned = {}
    SkipIfHeld = {}
    HasSetup = TRUE
    Pump = TRUE
    VaultRetry = {}
    RetryBudget = 0
    SendSlots = 2
    Operator = {"cancelJob"}
    Faults = {"launch", "slot", "precheck", "submit", "onchain", "unconfirmed", "refresh"}
    MaxFaults = 1
SPECIFICATION FairSpec
PROPERTIES
    JobEnds
    CancelEndsActions
