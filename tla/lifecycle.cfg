SPECIFICATION FairSpec
CONSTANTS
    TryLimit = 2
    ResetLimit = 2
    Faults <- MCFaults
    Revives = TRUE
INVARIANTS SleepIsQuiet BufferPaired RadioPaired LinkIsKept AlarmsWakeOnce
PROPERTIES NoAlarmLost WakeIsFollowedUp SupplyKeepsAwake PanelReturns
