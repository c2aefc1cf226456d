SPECIFICATION LiveSpec
CONSTANTS
    e1 = e1
    e2 = e2
    w1 = w1
    w2 = w2
    Employees <- OneEmployee
    Workers <- TwoWorkers
    Stamps = {1, 2}
    BatchSize = 2
    LeaseOverruns = TRUE
CHECK_DEADLOCK FALSE
INVARIANTS OneWorkerPerRow LatestNeverLost IInv
PROPERTIES ImplementsChannel LatestReachesIdSync
