SPECIFICATION Spec
CONSTANTS
    Links = {l1, l2}
    Requests = {q1}
    Rechecks = {}
    Replicas = 2
    NoLock = NoLock
    ChunkSize = 1
    MaxStarts = 2
    Deletions = {l1, l2}
    Mishaps = {}
    MaxMishaps = 2
SYMMETRY Interchangeable
INVARIANT QueuedIsInBullMQ
CHECK_DEADLOCK FALSE
