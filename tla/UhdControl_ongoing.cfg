SPECIFICATION Spec
CONSTANTS
    CTRL_TIMEOUT = 3
    ENUM_NB_TRY = 1
    EnumPipeSize = 3
    PipeSize = 2
    DataLength = 3
    MainKinds = {"in", "out"}
    MaxMain = 2
    MaxConnect = 2
INVARIANTS AssertOngoing
\* the driver stops where it uses the head of an empty queue, or waits in the interrupt
CHECK_DEADLOCK FALSE
