SPECIFICATION Spec
CONSTANTS
    Clients = {c1, c2}
    Keys = {k1, k2}
    Bucket <- OwnBuckets
    RotSets <- AllSets
    WriteSets <- AllSets
    VersionCap = 100
    MaxVersions = 100
    MaxOps = 3
    MaxTotal = 3
    MaxTries = 2
    Versions <- MCVersions
    DeadSlot <- NoGarbage
SYMMETRY Symmetry
INVARIANTS TypeOK SnapshotsAreStable SessionOrder SnapshotsAreCausal AppliedAtMostOnce RotsNeverWait
PROPERTIES StoreSpec
\* Every client stops after MaxOps operations.
CHECK_DEADLOCK FALSE
