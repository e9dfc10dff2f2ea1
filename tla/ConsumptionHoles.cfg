SPECIFICATION ConsumptionSpec
CONSTANTS
    SlotsPerDay = 2
    Lookback = 1
    MaxDelta = 3
    DeepestDays = 2
    KeepDays = 1
    MaxCatchup = 2
    Batch = 2
    LastDay = 4
    MaxInterrupted = 1
    Lives <- MCLives
    Careful = FALSE
INVARIANTS
    NothingPurgedUncounted
CHECK_DEADLOCK FALSE
