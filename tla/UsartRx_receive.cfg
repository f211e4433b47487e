SPECIFICATION FairSpec
CONSTANTS
    BUFFER_SIZE = 3
    DataLen = 4
    MaxBytes = 7
    BurstBytes = 1
INVARIANTS TypeOK DmaInBounds NothingLostOrInvented
PROPERTIES ImplementsChannel FlushedUnlessBoundary
\* a write past the line buffer is undefined: the model stops there
CHECK_DEADLOCK FALSE
