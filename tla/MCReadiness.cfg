SPECIFICATION Spec
CONSTANTS
    Cases <- AllCases
    Pathways <- MCPathways
    Changes <- MCChanges
    Missing = Missing
    None = None
    Day = 2
    MaxSlot = 2
INVARIANTS
    ReadyIsAccepted
    RefusalWasReal
CHECK_DEADLOCK FALSE
