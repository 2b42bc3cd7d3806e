SPECIFICATION Spec
CONSTANTS
    N = 2
    Lanes = {l1, l2}
    MaxUrls = 2
    MaxChanges = 1
    MaxFaults = 0
PROPERTIES QuarantineKeepsLastGood
CHECK_DEADLOCK FALSE
SYMMETRY Interchangeable
