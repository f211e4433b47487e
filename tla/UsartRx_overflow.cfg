SPECIFICATION Spec
CONSTANTS
    BUFFER_SIZE = 3
    DataLen = 3
    MaxBytes = 7
    BurstBytes = 1
INVARIANT LineBufferFits
\* a write past the line buffer is undefined: the model stops there
CHECK_DEADLOCK FALSE
