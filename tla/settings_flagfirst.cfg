CONSTANTS
    MemSize = 10
    Base <- MCBase
    Char <- MCChar
    Forms <- MCForms
    MaxTrys = 2
    PowerFails = {"boot", "erase", "check", "config", "save", "verify", "load", "running", "reset"}
    LostWrites = FALSE
    FactoryBlank = FALSE
SPECIFICATION Spec
INVARIANTS
    LoadsOnlySaved
