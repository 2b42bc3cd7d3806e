SPECIFICATION Spec
CONSTANTS
    Shops = {s1}
    Workers = {w1}
    Runs = {r1, r2}
    NoRun = NoRun
    NoKey = NoKey
    StaleAfter = 1
    Interval = 2
    RefreshInterval = 1
    MaxBackOff = 1
    MaxAttempts = 1
    MaxStalled = 1
    MaxFaults = 0
    SlowPhases <- SlowRefresh
INVARIANT LiveRunNotReaped
CHECK_DEADLOCK FALSE
