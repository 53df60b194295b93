SPECIFICATION SequentialSpec
CONSTANTS
    WindowKinds <- MCWindowKinds
    Period <- MCPeriod
    Policy <- MCPolicy
    Operations = {"first", "second"}
    Request <- MCRequest
    NoOverride = NoOverride
    WindowOrder <- MCWindowOrder
    Settlements <- MCSettlements
    Ticks <- MCTicks
    StartTime <- MCStartTime
    MaxLag = 1
    MaxSlot = 3
INVARIANTS
    TypeOK
    ReadsAtOrAboveFloor
    ReadyWithinCap
    RefusalJustified
CHECK_DEADLOCK FALSE
