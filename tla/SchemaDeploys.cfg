SPECIFICATION Spec
CONSTANTS
    Starts <- MCStarts
    Floor = 4
    MaxKills = 1
    MaxDowns = 1
    Spared = {88}
INVARIANTS
    NothingRefused
    FunctionsRun
    HeadServesModels
    WithinBounds
PROPERTIES
    AlwaysAtARevision
CHECK_DEADLOCK FALSE
