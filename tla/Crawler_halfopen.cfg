SPECIFICATION Spec
CONSTANTS
    Workers = {w1}
    Calls = {c1, c2, c3}
    Hosts = {h1}
    Home <- Together
    HostOf <- OneHost
    FailureThreshold = 1
    CooldownMs = 1
    Limit = 3
    TtlMs = 2
    Capacity = 3
    Token = 2
    PerTick = 1
    LimiterWait = 2
    SlotWait = 1
    MaxLag = 0
    MaxCrashes = 0
    MaxTime = 1
SYMMETRY Interchangeable
INVARIANT OneTrialCall
CHECK_DEADLOCK FALSE
