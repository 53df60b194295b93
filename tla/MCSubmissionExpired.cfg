SPECIFICATION Spec
CONSTANTS
    MaxAttempts = 1
    Commitment = 1
    Validity = 2
    ObservationValidity = 1
    MaximumPolls = 2
    MaxLag = 1
    MaxHeight = 5
INVARIANTS
    ExpiredMeansNotReached
CHECK_DEADLOCK FALSE
