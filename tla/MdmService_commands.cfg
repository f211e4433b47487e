SPECIFICATION Spec
CONSTANTS
    Ops = {"init", "open", "send", "close", "status"}
    Busy = FALSE
    Chain = TRUE
    Items = {"OK", "ERROR", ">", "SRING: 1", "NO CARRIER", "text"}
    BuffUnits = 2
    MAX_BUF_SIZE = 3
    MaxPayload = 0
    MaxSocketBytes = 0
    Trailer = 0
INVARIANTS TypeOK CommandInBounds UsesEachAckOnce
PROPERTY CallbackMatches
