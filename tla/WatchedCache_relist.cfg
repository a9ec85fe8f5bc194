SPECIFICATION FairSpec
CONSTANTS
    Names = {a}
    Cap = 2
    MaxWrites = 2
    MaxErrors = 1
    MaxFailures = 1
    BurstThreshold = 1
    MaxBackoff = 1
PROPERTIES
    RelistRecovers
