SPECIFICATION Spec
CONSTANTS
    Keys = {k1, k2}
    Readers = {r1}
    Writers = {w1, w2}
    MaxVersions = 2
    MaxTries <- Tries
    Retrying = {w1}
    MaxReads = 2
INVARIANT ReadsAreRecent
PROPERTY ReadsReturn
\* Every transaction and batch ends.
CHECK_DEADLOCK FALSE
