CONSTANTS
    c1 = c1
    c2 = c2
    c3 = c3
    MaxIp = 2
    Client <- MCClient
    NoMac = NoMac
    Nowhere = Nowhere
    Modulus = 8
    Granule = 2
    Lease = 2
SPECIFICATION FairSpec
INVARIANTS
    TypeOK
    LeasesExclusive
    AddressKept
PROPERTIES
    ImplementsLeaseService
    AskersAreServed
