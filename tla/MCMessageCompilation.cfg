SPECIFICATION EventSpec
CONSTANTS
    Addresses = {"payer", "a", "b"}
    Programs = {"program", "swap", "a"}
    FeePayer = "payer"
    EphemeralSigners = {"b"}
    TableChoices <- MCTableChoices
    MaxKeys = 4
    MaxInstructions = 2
    MaxMentions = 3
    MaxTableLength = 3
    ChanceryProgram = "a"
    EventAuthority = "b"
    InnerSequences <- MCInnerSequences
    MaxExecuted = 2
INVARIANT TypeOK
INVARIANT ExecutesAsRequested
INVARIANT NoExtraPrivilege
INVARIANT VaultExecutesMessage
INVARIANT EvidenceIsTheProgramsOwn
INVARIANT EvidenceErrorsAreReal
CHECK_DEADLOCK FALSE
