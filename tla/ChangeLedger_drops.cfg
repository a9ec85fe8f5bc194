SPECIFICATION LedgerSpec
CONSTANTS
    Resources = {r1, r2}
    Sizes = {1, 3}
    MaxVersions = 3
    Retention = 2
    FailsafeAge = 1
    SoftLimit = 5
    HardLimit = 7
    FailsafeLimit = 9
    MaxLate = 1
INVARIANTS
    DropsOnlyAfterEviction
