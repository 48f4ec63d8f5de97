SPECIFICATION Spec
CONSTANTS
    Links = {l1, l2}
    Requests = {q1, q2}
    Rechecks = {}
    Replicas = 2
    NoLock = NoLock
    ChunkSize = 1
    MaxStarts = 2
    Deletions = {l1, l2}
    Mishaps = {"crash", "fault", "lapse"}
    MaxMishaps = 2
SYMMETRY Interchangeable
INVARIANTS
    TypeOK
    LockHeld
    FlagCoversRun
    RowsOwned
    ThrowsOnlyOnDeleted
PROPERTY LockIsLease
CHECK_DEADLOCK FALSE
