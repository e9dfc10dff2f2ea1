SPECIFICATION FairSpec
CONSTANTS
    r1 = r1
    r2 = r2
    NoBroadcast = NoBroadcast
    Broadcasts <- TwoBroadcasts
    Phones <- TwoPhones
    Requests <- OneOperator
    MaxAborts = 1
INVARIANTS
    NobodyWaitsInVain
PROPERTIES
    SettledStays
    EveryoneServed
