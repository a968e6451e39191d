SPECIFICATION WaitsSpec
CONSTANTS
    Waiter = {w1}
    MaxAttempts = 2
    MaxSlot = 1
    Consumer = {a1, a2}
    Worker = {o1, o2, o3}
    MaxHeight = 1
INVARIANTS
    WaitsTruthful
PROPERTIES
    CancelEndsWaits
    OffsetCompletes
\* The waits end.
CHECK_DEADLOCK FALSE
