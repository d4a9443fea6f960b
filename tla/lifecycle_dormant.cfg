SPECIFICATION FairSpec
CONSTANTS
    TryLimit = 2
    ResetLimit = 2
    Faults <- MCFaults
    Revives = FALSE
PROPERTY SleepEnds
