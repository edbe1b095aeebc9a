SPECIFICATION Spec
CONSTANTS
    Clients = {c1, c2}
    Keys = {k1, k2}
    Bucket <- OwnBuckets
    RotSets <- WholeSet
    WriteSets <- Singletons
    VersionCap = 100
    MaxVersions = 100
    MaxOps = 2
    MaxTotal = 3
    MaxTries = 1
    Versions <- MCVersions
    DeadSlot <- NoGarbage
PROPERTIES ReadsReportTheNewest
\* Every client stops after MaxOps operations.
CHECK_DEADLOCK FALSE
