SPECIFICATION Spec
CONSTANTS
    Readers = {r1, r2}
    WriteVersions <- MoonWrites
    ReadVersions <- MoonReads
    MaxVersions = 2
    MaxNumber = 6
INVARIANTS TypeOK VersionsDescending StableReads RepeatableReads SnapshotsPinned CounterMatchesChain
PROPERTIES GCFromTheOldest FaultsAreExplained
\* After a fault the server is gone and nothing runs.
CHECK_DEADLOCK FALSE
