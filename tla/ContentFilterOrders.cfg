SPECIFICATION FairSpec
CONSTANTS
    Categories <- MCCategories
    Requests <- MCRequests
    Job = "job"
    Overlap = FALSE
INVARIANTS
    FilterInHand
PROPERTIES
    PlatformOrdersExact
    LastFilterPrevails
