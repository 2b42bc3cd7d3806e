SPECIFICATION FairSpec
CONSTANTS
    Shops = {s1}
    Workers = {w1}
    Runs = {r1, r2}
    NoRun = NoRun
    NoKey = NoKey
    StaleAfter = 1
    Interval = 1
    RefreshInterval = 1
    MaxBackOff = 1
    MaxAttempts = 1
    MaxStalled = 1
    MaxFaults = 1
    SlowPhases <- SlowDiscovery
PROPERTIES EveryRunCloses DiscoveryRecurs
CHECK_DEADLOCK FALSE
