SPECIFICATION Spec
CONSTANTS
    Settings <- Defaults
    Kinds <- MCLitebeam
    Polls <- MCPolls
    WatchedPorts <- MCPorts
    Promoted <- MCPromoted
INVARIANTS
    ClientsHaveNone
