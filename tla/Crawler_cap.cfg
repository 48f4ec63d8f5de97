SPECIFICATION Spec
CONSTANTS
    Workers = {w1}
    Calls = {c1, c2, c3}
    Hosts = {h1}
    Home <- Together
    HostOf <- OneHost
    FailureThreshold = 2
    CooldownMs = 1
    Limit = 1
    TtlMs = 1
    Capacity = 2
    Token = 2
    PerTick = 1
    LimiterWait = 2
    SlotWait = 1
    MaxLag = 0
    MaxCrashes = 0
    MaxTime = 1
SYMMETRY Interchangeable
INVARIANT CapRespected
CHECK_DEADLOCK FALSE
