SPECIFICATION Spec
CONSTANTS
    Writes = {1, 2, 3}
    Proposals <- RisingProposals
    ReadVersions = {2}
    BatchSync = TRUE
    SegmentSize = 2
    MaxVersions = 2
    MaxGen = 2
    MaxFaults = 2
INVARIANTS TypeOK MemoryIsLogged AckedIsDurable
PROPERTY FlushIsInvisible
\* The writes and the faults are bounded.
CHECK_DEADLOCK FALSE
