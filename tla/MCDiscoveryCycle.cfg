SPECIFICATION Spec
CONSTANTS
    N = 3
    Lanes = {l1, l2}
    MaxUrls = 2
    MaxChanges = 1
    MaxFaults = 1
INVARIANTS TypeOK CutoffCovers MarkingIsEarned
CHECK_DEADLOCK FALSE
SYMMETRY Interchangeable
