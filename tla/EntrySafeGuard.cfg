SPECIFICATION Spec
CONSTANTS
    Readers = {r1}
    WriteVersions <- MoonWrites
    ReadVersions <- MoonReads
    MaxVersions = 2
    MaxNumber = 6
INVARIANT SafeGuardNotReached
CHECK_DEADLOCK FALSE
