SPECIFICATION SyncSpec
CONSTANTS
    e1 = e1
    w1 = w1
    r1 = r1
    r2 = r2
    active = active
    Absent = Absent
    Employees <- OneEmployee
    Workers <- OneWorker
    Requests <- TwoRequests
    Profiles <- OneProfile
    Stamps = {1, 2, 3}
    BatchSize = 1
    LeaseOverruns = FALSE
SYMMETRY Symmetric
CHECK_DEADLOCK FALSE
INVARIANT ConvergesUnlessRaced
