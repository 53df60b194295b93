SPECIFICATION Spec
CONSTANTS
    Cases <- AllCases
    Pathways <- MCPathways
    Changes <- MCChanges
    Missing = Missing
    None = None
    Day = 2
    MaxSlot = 2
INVARIANTS
    ActivePathwayProceeds
CHECK_DEADLOCK FALSE
