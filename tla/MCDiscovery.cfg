SPECIFICATION Spec
CONSTANTS
    Accounts <- MCAccounts
    AddressRank <- MCAddressRank
    NameRank <- MCNameRank
    KnownPdas <- MCKnownPdas
    ProgramAddress = "chancery"
    ZeroId = "zero"
    Null = Null
    MaxAccounts = 4
INVARIANT RepeatedDiscoveryAgrees
INVARIANT NonceVerdictsAreComplete
INVARIANT LinksAreExact
INVARIANT FailsExactlyOnBadLedger
INVARIANT NothingIsLost
