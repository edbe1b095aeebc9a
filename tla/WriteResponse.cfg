SPECIFICATION FairSpec
CONSTANTS
    w1 = w1
    w2 = w2
    w3 = w3
    Batches <- MCBatches
    Replicas = {r1, r2}
    Local = {r1}
    BlockFor = 1
    Versions <- MCVersions
    Size <- MCSize
    BackgroundLimit = 0
    QueueLimit = 2
INVARIANTS TypeOK NoBrokenPromise BackgroundIsCounted ThrottledIsQueued
PROPERTIES AnsweredOnce BatchSpec BatchesReturn
\* Nothing is left to do once every batch has been answered.
CHECK_DEADLOCK FALSE
