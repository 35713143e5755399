CONSTANTS
    c1 = c1
    c2 = c2
    Conns <- TwoConns
    MaxConns = 2
    Known <- OneService
    Unknown <- NotRegistered
    TTLs <- Unit
    DefaultTTL = 1
    RandMayFail = FALSE
    MaxChallenges = 2
    MaxSessions = 2
    MaxTime = 2
    Capabilities <- Caps
    ServiceCaps <- KnownServices
    Allowlist <- Allow
    Required <- Handlers
    Intents <- Moves
    Traffic <- SomeKinds
SPECIFICATION Spec
INVARIANTS
    SessionFresh
    RefusalNeedsRival
    ActionsAuthorised
    LateNeverDispatched
SYMMETRY Interchangeable
CHECK_DEADLOCK FALSE
