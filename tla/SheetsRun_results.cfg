SPECIFICATION FairSpec
CONSTANTS
    Tasks = {t1}
    Jobs = {j1}
    Rechecks = {c1}
    RowNums = {1, 2, 3}
    Replicas = 1
    NoLock = NoLock
    ChunkSize = 2
    MaxStarts = 1
    Incidents = {"crash", "fault", "lapse", "delete", "recheck"}
    MaxIncidents = 2
INVARIANTS
    BesideItsRow
    EveryRowAnswered
PROPERTIES
    CollectsFinalStatuses
    JobsEnd
    TaskSettles
CHECK_DEADLOCK FALSE
