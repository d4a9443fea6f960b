CONSTANTS
    b1 = b1
    b2 = b2
    b3 = b3
    p1 = p1
    p2 = p2
    p3 = p3
    Block <- MCBlock
    Pcb <- MCPcb
    None = None
    MaxConfigs = 2
    MaxTexts = 7
SPECIFICATION FairSpec
PROPERTIES
    UploadEnds
CHECK_DEADLOCK FALSE
