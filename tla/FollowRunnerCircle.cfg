\* A buy with a delay, its autosell in the block of the buy, and a deferred setup.
CONSTANTS
    Actions = {"b1", "s1"}
    Wallets = {"w1"}
    None = "none"
    Kind <- MCKind
    WalletOf <- OneWallet
    Trigger <- DelayTrigger
    TriggerKey <- DelayKey
    Delayed = {}
    OrderIndex <- MCOrderIndex
    Lead <- MCLead
    PreSigned = {}
    SkipIfHeld = {}
    HasSetup = TRUE
    Pump = TRUE
    VaultRetry = {}
    RetryBudget = 1
    SendSlots = 3
    Operator = {}
    Faults = {}
    MaxFaults = 0
SPECIFICATION FairSpec
PROPERTY EachActionRecorded
