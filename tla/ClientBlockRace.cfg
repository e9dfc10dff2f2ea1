SPECIFICATION FairSpec
CONSTANTS
    r1 = r1
    job = job
    Requests <- OneRequest
    Enforcer <- job
    Modes <- FullOnly
    Reaches <- SshOnly
    Outcomes <- NoRefusal
    Faults <- FaultKinds
    MaxAborts = 1
PROPERTIES
    IntentIsTheOperators
    RecordedRuleWithdrawn
    LastBlockPrevails
