SPECIFICATION Spec
CONSTANTS
    Readers = {r1, r2}
    WriteVersions <- MoonWrites
    ReadVersions <- MoonReads
    MaxVersions = 1
    MaxNumber = 4
    MaxEvents = 2
INVARIANT SnapshotsKeepTheirVersion
CHECK_DEADLOCK FALSE
