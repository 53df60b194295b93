SPECIFICATION SetupSpec
CONSTANTS
    Grants = {"first", "again", "dangerous"}
    Grant <- MCGrant
    Unspecified = Unspecified
    Dangerous = {"admin"}
    GlobalScope = FALSE
    InitialRecords <- MCInitialRecords
    Delay = 1
    Lifetime = 1
    MaxLag = 1
    MaxClock = 2
    Setups = {"first", "again"}
    Earlier <- MCEarlier
    InitialPathways = {"none", "other"}
    Amount = 1
    MaxPathways = 3
INVARIANT ReturnedGrantHolds
INVARIANT DangerousRolesExpire
INVARIANT ReturnedSetupIsComplete
INVARIANT GrantsOnlyOnTheProfile
PROPERTY NoLostGrant
CHECK_DEADLOCK FALSE
