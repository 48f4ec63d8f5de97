SPECIFICATION Spec
CONSTANTS
    Links = {l1, l2}
    Requests = {q1}
    Rechecks = {c1}
    Replicas = 2
    NoLock = NoLock
    ChunkSize = 1
    MaxStarts = 2
    Deletions = {l1, l2}
    Mishaps = {}
    MaxMishaps = 2
SYMMETRY Interchangeable
INVARIANT NoOverlappingChecks
CHECK_DEADLOCK FALSE
