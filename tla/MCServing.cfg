SPECIFICATION FairSpec
CONSTANTS
    Callers = {r1, r2, warmer}
    Warmer = warmer
    Nobody = nobody
    NoResult = NoResult
    MaxWrites = 2
    MaxFaults = 2
    Sessions = {r1, r2}
    NoSession = nobody
    Requests = {r1, r2}
    Limit = 2
    LastMinute = 1
    MaxCount = 3
    Collections = {notices, suppliers}
    Servers = {api, mcp}
    NoCollection = none
    MaxSetbacks = 2
INVARIANTS
    TypeOK
    StaleExplained
    FlightShared
    RuntimeInUse
    RateBound
    CountersExpire
    ReadyCanSearch
PROPERTIES
    CallsEnd
    RevokedKeyRefused
    ProvisionedInTheEnd
CHECK_DEADLOCK FALSE
