SPECIFICATION JobSpec
CONSTANTS
    Reporter = {c1, c2}
    Arming = c1
    Task = {t1, t2}
    a1 = a1
    a2 = a2
    Trade = {a1, a2}
    Launches <- MCLaunches
    Percents = {50, 100}
    MaxMoves = 2
PROPERTIES
    LastStateReported
    RevertsExplained
    ProceedsArrive
\* The callers and the trades are done.
CHECK_DEADLOCK FALSE
