CONSTANTS
    WorkerCounts = {2}
    MaxNonce = 4
    CheckInterval = 2
    CancelledBefore = {TRUE}
SPECIFICATION Spec
INVARIANTS
    CancelledMineFails
CHECK_DEADLOCK FALSE
