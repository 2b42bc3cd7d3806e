SPECIFICATION Spec
CONSTANTS
    Variants = {v1}
    Shops = {s1}
    Slots = {b1}
    MaxGeneration = 3
    MaxBucket = 2
    Keep = 0
    MaxAttempts = 2
    MaxChanges = 2
    MaxFaults = 0
    AutoPublish = {TRUE}
    NothingShown = NothingShown
    CleanupFaults = FALSE
INVARIANT DecisionShown
CHECK_DEADLOCK FALSE
