SPECIFICATION FairSpec
CONSTANTS
    Keys = {k1, k2, k3}
    Buckets <- MCBuckets
    Hashings <- MCHashings
    MaxCopies = 2
INVARIANTS
    TypeOK
    EntriesSound
    ReturnedOnce
    QueuedAreSingle
    StopsAtCore
    ErrorIffUnbalanced
PROPERTY
    IterationEnds
CHECK_DEADLOCK FALSE
