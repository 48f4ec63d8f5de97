SPECIFICATION FairSpec
CONSTANTS
    Links = {l1, l2}
    Requests = {q1}
    Rechecks = {}
    Replicas = 2
    NoLock = NoLock
    ChunkSize = 1
    MaxStarts = 2
    Deletions = {l1, l2}
    Mishaps = {"crash"}
    MaxMishaps = 2
PROPERTY FlagMirrorsLock
CHECK_DEADLOCK FALSE
