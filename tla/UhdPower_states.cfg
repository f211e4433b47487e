SPECIFICATION FairSpec
CONSTANTS
    RESUME = 2
    MaxPlug = 2
    MaxCall = 2
    MaxStart = 2
INVARIANTS
    TypeOK
    LocksHaveHolders
    AwakeWhileActive
    SuspendedCanWake
    AllManaged
PROPERTIES
    Noticed
\* a host that was stopped for the last time, or a quiet bus, takes no step
CHECK_DEADLOCK FALSE
