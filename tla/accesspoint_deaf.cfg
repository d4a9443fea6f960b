SPECIFICATION FairSpec
CONSTANTS
    a = a
    b = b
    Client <- MCClient
    PoolSize = 7
    Query <- MCQuery
    Header = 12
    MaxLabel = 63
    MaxName = 255
    BufferSize = 300
    Refusals = {}
PROPERTY FormGetsThrough
CHECK_DEADLOCK FALSE
