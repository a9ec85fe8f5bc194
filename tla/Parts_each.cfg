\* Each of five parts that share no state, one at a time.
SPECIFICATION Spec

CONSTANTS
    Resources = {r1, r2}
    Sizes = {1, 3}
    MaxVersions = 3
    Retention = 2
    FailsafeAge = 1
    SoftLimit = 5
    HardLimit = 7
    FailsafeLimit = 9
    MaxLate = 1

    Tables = {t1}
    KeptRows = 1
    MaxStored = 3
    MaxFaults = 1

    Pods = {p1, p2}
    NodeNames = {n1}
    Others = {c1}
    Depth = 3
    MaxChanges = 3
    MaxSkips = 1

    Series = {s1, s2}
    CountThreshold = 4
    DeltaThreshold = 2
    ObservationWindow = 1
    Cooldown = 2
    MaxCount = 4
    MaxClock = 2
    Nobody = nobody

INVARIANTS
    PartsTypeOK
    NoHoles
    AdjacencyAgrees
    BlastRadiusIsCurrent
    RateAlertBacked

PROPERTIES
    LatestKept
    AcceptedIsKept
    EventuallyOnDisk
    EndsOnceSignalled

\* Each bound stops what it bounds.
CHECK_DEADLOCK FALSE
