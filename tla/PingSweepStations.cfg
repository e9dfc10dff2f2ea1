SPECIFICATION FairSpec
CONSTANTS
    ip1 = ip1
    ip2 = ip2
    NoIp = NoIp
    NoDevice = NoDevice
    Devices <- TwoDevices
    Ips <- TwoIps
    FirstKind <- BothLrs
    FirstIp <- OneAddress
    Threshold = 2
    BatchSize = 1
    Sweeps <- ClientSweep
    Keepers <- BothKeepers
    Conversions <- NoConversion
    Overlap = FALSE
    MaxMoves = 2
    MaxEdits = 1
    MaxAborts = 0
INVARIANTS
    UnpingedIsUnknown
PROPERTIES
    DownWasMeasured
    StationFollowed
