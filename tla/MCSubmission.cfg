SPECIFICATION FairSpec
CONSTANTS
    MaxAttempts = 2
    Commitment = 1
    Validity = 2
    ObservationValidity = 1
    MaximumPolls = 2
    MaxLag = 1
    MaxHeight = 5
INVARIANTS
    TypeOK
    ReturnedMeansSettled
    RefusalNeverSettles
    AtMostOneSettlement
PROPERTIES
    ExpiryIsFinal
    ImplementsOutcome
    EveryCallEnds
CHECK_DEADLOCK FALSE
