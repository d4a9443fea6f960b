CONSTANTS
    MemSize = 10
    Base <- MCBase
    Char <- MCChar
    Forms <- MCForms
    MaxTrys = 2
    PowerFails = {"config", "running"}
    LostWrites = TRUE
    FactoryBlank = FALSE
SPECIFICATION FairSpec
INVARIANTS
    PortVerified
PROPERTIES
    SaveEnds
