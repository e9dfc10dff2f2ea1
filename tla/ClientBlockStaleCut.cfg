SPECIFICATION Spec
CONSTANTS
    r1 = r1
    job = job
    Requests <- OneRequest
    Enforcer <- job
    Modes <- FullOnly
    Reaches <- SshOnly
    Outcomes <- NoRefusal
    Faults <- Overlap
    MaxAborts = 0
INVARIANTS
    NothingForgotten
