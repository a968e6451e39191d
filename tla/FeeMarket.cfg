SPECIFICATION FeeSpec
CONSTANTS
    MaxAge = 1
    MaxTime = 4
INVARIANT FeesFresh
CHECK_DEADLOCK FALSE
