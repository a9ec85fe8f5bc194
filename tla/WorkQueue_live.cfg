SPECIFICATION FairSpec
CONSTANTS
    podA = podA
    podB = podB
    podC = podC
    None = None
    Workers = {w1}
    Items = {i1, i2, i3}
    Resources = {podA, podB}
    Keys = {podA, podB}
    KeyOf <- EachItsOwnKey
    Capacity = 2
    Threshold = 1
    MaxStarts = 1
    Window = 0
    DefaultRate = 1
    DegradedRate = 1
    HalveFor = 0
PROPERTIES
    InteractiveServed
    JoinReturns
