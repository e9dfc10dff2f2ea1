SPECIFICATION ServicesSpec
CONSTANTS
    None = None
    Absent = Absent
    SlotsPerDay = 2
    Lookback = 1
    MaxDelta = 3
    DeepestDays = 2
    KeepDays = 1
    MaxCatchup = 2
    Batch = 2
    LastDay = 4
    Careful = TRUE
    Lives <- MCLives
    MaxInterrupted = 1
    agents = agents
    Users = {u1, u2}
    Tokens = {t1}
    Workers = {1}
    Profiles = {Admin, agents}
    Admin = Admin
    Bootstrapped = {u1}
    MaxPasswords = 1
    Grants <- MCGrants
    down = down
    ccq = ccq
    ping = ping
    poll = poll
    Type <- MCType
    Owner <- MCOwner
    Overrides <- MCOverrides
    Looks <- MCLooks
    Sent <- MCSent
    Jobs = {ping, poll}
    Keys = {down, ccq}
    MaxFailures = 2
    Cooldown = 2
    MaxAborts = 1
INVARIANTS
    NothingPurgedUncounted
    WindowsAddUp
    LastAdminStays
    SessionsAreOfNow
    NothingOnlyForAdmins
    NobodyInTheDark
    HangsAreFew
PROPERTIES
    EveryDayCounted
CHECK_DEADLOCK FALSE
