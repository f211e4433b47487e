SPECIFICATION FairSpec
CONSTANTS
    Ops = {"open", "send"}
    Busy = FALSE
    Chain = TRUE
    Items = {"OK", "text"}
    BuffUnits = 1
    MAX_BUF_SIZE = 3
    MaxPayload = 0
    MaxSocketBytes = 0
    Trailer = 0
PROPERTY ChainedCalledBack
