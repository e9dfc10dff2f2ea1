SPECIFICATION FairSpec
CONSTANTS
    Settings <- Defaults
    Kinds <- MCKinds
    Polls <- MCPolls
    WatchedPorts <- MCPorts
    Promoted <- MCPromoted
PROPERTIES
    BandNeverFlips
    ApartClientsHaveNone
    AllClears
