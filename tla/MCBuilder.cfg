SPECIFICATION Spec
CONSTANTS
    Instructions <- MCInstructions
    INSTRUCTION_TEMPLATES <- MCTemplates
    TemplateOf <- MCTemplateOf
    Typed <- MCTyped
    Multisigs = {m1, m2}
    None = None
    Empty = Empty
    Token = Token
    MaxEdits = 4
    MaxGenerations = 2
INVARIANTS OutputIsOneTemplates ProposalUsesItsVault ExportIsShown AddressesAreTheCallers
PROPERTY GenerationEnds
CHECK_DEADLOCK FALSE
