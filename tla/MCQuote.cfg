SPECIFICATION Spec
CONSTANTS
    RatePrecision = 4
    BasisPoints = 5
    Terms <- MCTerms
    MaxAmount = 12
    MaxEpoch = 1
INVARIANTS
    QuoteConserves
    ReceiptWithinRate
    NoFreeRoundTrip
PROPERTIES
    MonotoneInAmount
CHECK_DEADLOCK FALSE
