SPECIFICATION Spec
CONSTANTS
    Workers = {w1}
    Calls = {c1, c2, c3, c4}
    Hosts = {h1}
    Home <- Together
    HostOf <- OneHost
    FailureThreshold = 2
    CooldownMs = 1
    Limit = 1
    TtlMs = 1
    Capacity = 1
    Token = 1
    PerTick = 1
    LimiterWait = 1
    SlotWait = 1
    MaxLag = 1
    MaxCrashes = 1
    MaxTime = 1
SYMMETRY Interchangeable
INVARIANTS
    TypeOK
    ClosedBelowThreshold
    HoldersBounded
    SlotReturned
    RateBound
    ContractOrder
CHECK_DEADLOCK FALSE
