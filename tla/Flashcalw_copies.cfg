SPECIFICATION Spec
CONSTANTS
    FuseBytes = 2
    FuseByte = 2
    FuseCount = 3
    BOOTPROT = {1}
    Bits = {0, 1}
    DWord = 2
    PageSize = 6
    Pages = 2
    Regions = 2
    UserPage = 18
    Fresh <- MCFresh
    Patterns <- MCPatterns
    Source <- MCSource
    FuseValues <- MCFuseValues
    MaxCall = 3
INVARIANTS TypeOK Stored OnePageAtRisk StatusIsTrue FusesKept
\* the driver may not be called again
CHECK_DEADLOCK FALSE
