SPECIFICATION Spec
CONSTANTS
    Writes = {1, 2, 3}
    Proposals <- RisingProposals
    ReadVersions = {2}
    BatchSync = TRUE
    SegmentSize = 3
    MaxVersions = 100
    MaxGen = 1
    MaxFaults = 1
PROPERTY LostIsRecovered
\* The writes and the faults are bounded.
CHECK_DEADLOCK FALSE
