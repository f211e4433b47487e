SPECIFICATION Spec
CONSTANTS
    RESUME = 2
    MaxPlug = 2
    MaxCall = 2
    MaxStart = 1
INVARIANTS
    NoLockTooFew
CHECK_DEADLOCK FALSE
