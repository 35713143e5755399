CONSTANTS
    c1 = c1
    c2 = c2
    Conns <- TwoConns
    Interrupted <- OneConn
    MaxConns = 2
    Known <- OneService
    Unknown <- NotRegistered
    TTLs <- Unit
    DefaultTTL = 1
    RandMayFail = FALSE
    MaxChallenges = 2
    MaxSessions = 2
    MaxTime = 0
    Capabilities <- Caps
    ServiceCaps <- KnownServices
    Allowlist <- Allow
    Required <- Handlers
    Intents <- Moves
    Traffic <- ClientTraffic
SPECIFICATION SysFairSpec
INVARIANTS
    OkMeansEarned
PROPERTIES
    ServerSpec
    ClientsTerminate
CHECK_DEADLOCK FALSE
