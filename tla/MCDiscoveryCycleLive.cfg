SPECIFICATION Spec
CONSTANTS
    N = 3
    Lanes = {l1}
    MaxUrls = 3
    MaxChanges = 0
    MaxFaults = 1
PROPERTIES EveryTargetProcessed
CHECK_DEADLOCK FALSE
