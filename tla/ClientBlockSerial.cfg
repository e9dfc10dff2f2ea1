SPECIFICATION FairSpec
CONSTANTS
    r1 = r1
    job = job
    Requests <- OneRequest
    Enforcer <- job
    Modes <- AllModes
    Reaches <- AllReaches
    Outcomes <- AllOutcomes
    Faults <- NoFault
    MaxAborts = 0
INVARIANTS
    TypeOK
    NothingForgotten
    RouterMirrored
    EnforcedMeansCut
PROPERTIES
    LastUnblockPrevails
    LastBlockPrevails
