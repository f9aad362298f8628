CONSTANTS
    WorkerCounts = {0, 1, 2, 3}
    MaxNonce = 6
    CheckInterval = 2
    CancelledBefore = {TRUE, FALSE}
SPECIFICATION FairSpec
INVARIANTS
    TypeOK
    WinnerIsSmallest
    NoNonceIsTrue
    CtxErrIsCallers
    HashesCountNonces
    SendNeverBlocks
PROPERTIES
    Returns
CHECK_DEADLOCK FALSE
