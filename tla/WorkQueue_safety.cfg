SPECIFICATION Spec
CONSTANTS
    podA = podA
    podB = podB
    podC = podC
    None = None
    Workers = {w1, w2}
    Items = {i1, i2}
    Resources = {podA, podB, podC}
    Keys = {podA, podB}
    KeyOf <- SharedKeys
    Capacity = 2
    Threshold = 0
    MaxStarts = 2
    Window = 1
    DefaultRate = 2
    DegradedRate = 1
    HalveFor = 1
SYMMETRY Interchangeable
INVARIANTS
    TypeOK
    RegistryMatchesQueue
    PendingIsOwned
    BackgroundLeavesRoom
    SentinelForEachWorker
    RateBounded
PROPERTIES
    SettledOnce
    ServesRequests
    HalvedWhileBackingOff
