CONSTANTS
    AddressRange = 6
    MemSize = 3
    Byte <- MCByte
    Calls <- MCCalls
    Faults = {"send", "data"}
    HeapLimit = 4
SPECIFICATION FairSpec
INVARIANTS
    TypeOK
    WriteVerified
PROPERTIES
    WritesInOrder
    ImplementsByteStore
    EveryCallReturns
