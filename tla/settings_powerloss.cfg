CONSTANTS
    MemSize = 10
    Base <- MCBase
    Char <- MCChar
    Forms <- MCForms
    MaxTrys = 2
    PowerFails = {"boot", "erase", "check", "config", "save", "verify", "load", "running", "reset"}
    LostWrites = FALSE
    FactoryBlank = FALSE
SPECIFICATION FairSpec
INVARIANTS
    TypeOK
    SavedIsStored
    ErasedIsNotLoaded
    NoReadBlocks
PROPERTIES
    ImplementsSettingsStore
    BootDecides
