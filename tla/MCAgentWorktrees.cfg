SPECIFICATION FairSpec
CONSTANTS
    Requests = {r1, r2}
    Callers = {c1, c2}
    Nobody = nobody
    MaxAttempts = 2
    MaxFaults = 2
INVARIANTS
    DeliveryIsTrue
    UnfinishedHasWorker
    MonitorWatchesOwn
CHECK_DEADLOCK FALSE
PROPERTIES
    KeepsPromise
    WaiterReturns
