SPECIFICATION FairSpec
CONSTANTS
    UHD_ENDPOINT_MAX_TRANS = 5
    PipeSize = 2
    MaxInRequests = 3
    TIMEOUT = 2
    RESUME = 1
    Sizes = {1, 6}
    MaxRuns = 2
    MaxConnect = 2
    MaxSuspend = 1
INVARIANTS TypeOK CalledBackOnce ReportIsTrue WithinBuffer BusyIsWorkedOn NeverHangs
PROPERTIES JobEnds
\* the last device is gone and the last job made, or the interrupt waits for ever
CHECK_DEADLOCK FALSE
