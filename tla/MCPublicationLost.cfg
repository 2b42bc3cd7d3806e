SPECIFICATION Spec
CONSTANTS
    Variants = {v1}
    Shops = {s1, s2}
    Slots = {b1, b2}
    MaxGeneration = 3
    MaxBucket = 1
    Keep = 0
    MaxAttempts = 2
    MaxChanges = 1
    MaxFaults = 1
    AutoPublish = {TRUE}
    NothingShown = NothingShown
    CleanupFaults = TRUE
PROPERTY NeverUnpublished
CHECK_DEADLOCK FALSE
