SPECIFICATION LedgerSpec
CONSTANTS
    Operations = {"apply"}  Enqueuers = {"api"}
    JobAttempts = 2  JobStalls = 0  MaxSubmits = 2  MaxLedgerRows = 2
    MaxLedgerFaults = 0
INVARIANT RunningIsAtWork
CHECK_DEADLOCK FALSE
