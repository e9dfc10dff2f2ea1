SPECIFICATION Spec
CONSTANTS
    r1 = r1
    job = job
    Requests <- OneRequest
    Enforcer <- job
    Modes <- FullOnly
    Reaches <- SshOnly
    Outcomes <- NoRefusal
    Faults <- NoFault
    MaxAborts = 1
INVARIANTS
    NothingForgotten
