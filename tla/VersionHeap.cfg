SPECIFICATION Spec
CONSTANTS
    Readers = {r1, r2}
    WriteVersions <- MoonWrites
    ReadVersions <- MoonReads
    MaxVersions = 1
    MaxNumber = 4
    MaxEvents = 2
SYMMETRY Symmetry
INVARIANTS HeapIsLinked BackPointersHold
PROPERTY ImplementsVersionList
\* After a fault the server is gone; an entry that is destroyed rests.
CHECK_DEADLOCK FALSE
