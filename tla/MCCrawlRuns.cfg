SPECIFICATION Spec
CONSTANTS
    Shops = {s1}
    Workers = {w1, w2}
    Runs = {r1, r2}
    NoRun = NoRun
    NoKey = NoKey
    StaleAfter = 1
    Interval = 1
    RefreshInterval = 1
    MaxBackOff = 1
    MaxAttempts = 2
    MaxStalled = 1
    MaxFaults = 2
    SlowPhases <- SlowDiscovery
INVARIANTS TypeOK OneAtATime
PROPERTIES BackOffRespected
SYMMETRY Interchangeable
CHECK_DEADLOCK FALSE
