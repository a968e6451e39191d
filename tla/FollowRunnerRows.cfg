\* A batch of the dev auto sell and a buy, and the autosell of the buy, with one wallet.
CONSTANTS
    Actions = {"b1", "d1", "s1"}
    Wallets = {"w1"}
    None = "none"
    Kind <- MCKind
    WalletOf <- OneWallet
    Trigger <- RowsTrigger
    TriggerKey <- RowsKey
    Delayed = {}
    OrderIndex <- MCOrderIndex
    Lead <- MCLead
    PreSigned = {"b1", "d1"}
    SkipIfHeld = {}
    HasSetup = FALSE
    Pump = TRUE
    VaultRetry = {"SniperBuy", "DevAutoSell", "SniperSell"}
    RetryBudget = 1
    SendSlots = 2
    Operator = {"cancelJob", "cancelAction"}
    Faults = {"launch", "market", "precheck", "compile", "submit", "unacknowledged", "onchain", "unconfirmed", "expiry", "account", "slotless"}
    MaxFaults = 1
SPECIFICATION Spec
INVARIANTS
    WalletMutex
    SellAfterBuy
    NoBlindResend
PROPERTY NoSendBeginsAfterCancel
