SPECIFICATION FairSpec
CONSTANTS
    Links = {l1, l2}
    Requests = {q1}
    Rechecks = {c1}
    Replicas = 2
    NoLock = NoLock
    ChunkSize = 1
    MaxStarts = 2
    Deletions = {l1}
    Mishaps = {"crash", "fault"}
    MaxMishaps = 1
INVARIANT RowsOwned
PROPERTIES
    JobsEnd
    QueuedSettles
    FlagFalls
CHECK_DEADLOCK FALSE
