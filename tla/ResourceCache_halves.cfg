\* The contents and the readiness of the cache, one at a time.
SPECIFICATION ResourceCacheSpec

CONSTANTS
    Names = {a, b}
    Cap = 1
    MaxWrites = 3
    MaxErrors = 2
    MaxFailures = 2
    BurstThreshold = 1
    MaxBackoff = 2

    Kinds = {pod, node}
    MissPercent = 40
    MissWindow = 1
    FailureThreshold = 1
    TimeoutThreshold = 1
    TimeoutWindow = 1
    BurstWindow = 1
    StaleAfter = 2
    MaxPerTick = 1

INVARIANTS
    TypeOK
    CaughtUpAgrees
    WithinCap
    ReadinessTypeOK

PROPERTIES
    CatchesUp
    AllowedOnceListed
    ReadyIsEarned
    PartialDoesNotLast
    Recovers
    OneFailedListDegradesForGood
