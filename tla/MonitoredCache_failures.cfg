SPECIFICATION MonitoredSpec
CONSTANTS
    MaxFailures = 3
    BurstThreshold = 1
    MaxBackoff = 2
    MaxRV = 1
    Kinds = {pod}
    MissPercent = 5
    MissWindow = 0
    FailureThreshold = 3
    TimeoutThreshold = 2
    TimeoutWindow = 0
    BurstWindow = 0
    StaleAfter = 1
    MaxPerTick = 1
PROPERTIES
    OutageDegrades
