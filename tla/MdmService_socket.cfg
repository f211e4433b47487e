SPECIFICATION FairSpec
CONSTANTS
    Ops = {"open", "send"}
    Busy = FALSE
    Chain = FALSE
    Items = {"ERROR", "OK", "SRING: 1"}
    BuffUnits = 1
    MAX_BUF_SIZE = 5
    MaxPayload = 3
    MaxSocketBytes = 4
    Trailer = 1
PROPERTIES SocketDataInOrder CalledBack
\* an answer that does not fit is written past mdm_data_buff: the model stops there
CHECK_DEADLOCK FALSE
