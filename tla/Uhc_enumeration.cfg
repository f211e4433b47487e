SPECIFICATION FairSpec
CONSTANTS
    UHC_ENUM_NB_TRY = 4
    Outcomes = {"small", "norequest", "nomem", "overcurrent", "unsupported", "limit", "wakeup"}
    MaxConnect = 3
    MaxCalls = 3
INVARIANTS TypeOK DescriptorOwned ReadyWhenEnumerated ReleasedWhenGone TriesBounded
PROPERTIES EnumerationEnds
\* the last device is gone and the last call made
CHECK_DEADLOCK FALSE
