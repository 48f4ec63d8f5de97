SPECIFICATION Spec
CONSTANTS
    Workers = {c1, c2, c3, c4}
    Calls = {c1, c2, c3, c4}
    Hosts = {h1}
    Home <- Apart
    HostOf <- OneHost
    FailureThreshold = 2
    CooldownMs = 1
    Limit = 5
    TtlMs = 2
    Capacity = 1
    Token = 1
    PerTick = 1
    LimiterWait = 0
    SlotWait = 1
    MaxLag = 1
    MaxCrashes = 0
    MaxTime = 1
SYMMETRY Interchangeable
INVARIANT PlainRate
CHECK_DEADLOCK FALSE
