CONSTANTS
    p1 = p1
    p2 = p2
    b1 = b1
    b2 = b2
    u = u
    v = v
    Pcb <- MCPcb
    Block <- MCBlock
    None = None
    Value <- MCValue
    Unset = Unset
    Requests <- MCRequests
    MaxUnacked = 2
    Errors = {"ERR_RST"}
    OpenFails = TRUE
SPECIFICATION BrowsingSpec
INVARIANTS
    TypeOK
    ArgsAlive
    AllSupplied
    AppliedIsTheForm
PROPERTIES
    SubmitIsApplied
CHECK_DEADLOCK FALSE
