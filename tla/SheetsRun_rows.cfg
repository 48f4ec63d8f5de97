SPECIFICATION Spec
CONSTANTS
    Tasks = {t1}
    Jobs = {j1}
    Rechecks = {}
    RowNums = {1, 2}
    Replicas = 1
    NoLock = NoLock
    ChunkSize = 2
    MaxStarts = 1
    Incidents = {"delete"}
    MaxIncidents = 1
INVARIANTS
    OrderMirrorsRows
CHECK_DEADLOCK FALSE
