CONSTANTS
    c1 = c1
    c2 = c2
    Conns <- TwoConns
    MaxConns = 2
    Known <- OneService
    Unknown <- NotRegistered
    TTLs <- Unit
    DefaultTTL = 1
    RandMayFail = FALSE
    MaxChallenges = 2
    MaxSessions = 2
    MaxTime = 1
    Capabilities <- Caps
    ServiceCaps <- KnownServices
    Allowlist <- Allow
    Required <- IntentOnly
    Intents <- Moves
    Traffic <- OneIntent
SPECIFICATION FairSpec
PROPERTIES
    IdleConnectionsDropped
CHECK_DEADLOCK FALSE
