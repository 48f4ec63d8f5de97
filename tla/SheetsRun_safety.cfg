SPECIFICATION Spec
CONSTANTS
    Tasks = {t1, t2}
    Jobs = {j1, j2}
    Rechecks = {c1}
    RowNums = {1, 2}
    Replicas = 2
    NoLock = NoLock
    ChunkSize = 1
    MaxStarts = 2
    Incidents = {"crash", "fault", "lapse", "delete", "recheck"}
    MaxIncidents = 1
SYMMETRY Interchangeable
INVARIANTS
    TypeOK
    LockHeld
    RunIsShown
    RunningOwned
PROPERTY LockIsLease
CHECK_DEADLOCK FALSE
