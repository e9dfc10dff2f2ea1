SPECIFICATION FairSpec
CONSTANTS
    ip1 = ip1
    ip2 = ip2
    NoIp = NoIp
    NoDevice = NoDevice
    Devices <- OneDevice
    Ips <- OneIp
    FirstKind <- ARocket
    FirstIp <- ItsAddress
    Threshold = 2
    BatchSize = 1
    Sweeps <- BothSweeps
    Keepers <- NoKeeper
    Conversions <- AllConversions
    Overlap = TRUE
    MaxMoves = 0
    MaxEdits = 0
    MaxAborts = 1
PROPERTIES
    OutageEnds
    DownIsReported
