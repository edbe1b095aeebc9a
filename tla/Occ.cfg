SPECIFICATION Spec
CONSTANTS
    Keys = {k1, k2}
    Readers = {r1}
    Writers = {2, 3}
    MaxTries = 2
    MaxTime = 3
SYMMETRY Symmetry
INVARIANTS ValidatedReadsAreSnapshots RefusedOnlyByWrites
\* Every transaction and batch ends.
CHECK_DEADLOCK FALSE
