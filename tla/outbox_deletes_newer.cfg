SPECIFICATION Spec
CONSTANTS
    e1 = e1
    e2 = e2
    w1 = w1
    w2 = w2
    Employees <- OneEmployee
    Workers <- TwoWorkers
    Stamps = {1, 2, 3, 4}
    BatchSize = 2
    LeaseOverruns = FALSE
CHECK_DEADLOCK FALSE
PROPERTIES NeverDeletesNewer
