SPECIFICATION Spec
CONSTANTS
    Settlements = {s1, s2, s3}
INVARIANTS
    SettlementIsTraceable
PROPERTIES
    ImplementsOutcome
CHECK_DEADLOCK FALSE
