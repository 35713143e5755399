CONSTANTS
    Known <- Services
    Unknown <- NotRegistered
    TTLs <- Durations
    DefaultTTL = 1
    RandMayFail = TRUE
    MaxChallenges = 3
    MaxSessions = 2
    MaxTime = 3
SPECIFICATION AuthFairSpec
INVARIANTS
    NonceTriedOnce
PROPERTIES
    OnlyRevokedOrOverdueRemoved
    ExpiredEventuallyDropped
