SPECIFICATION SharedSpec
CONSTANTS
    l1 = l1
    l2 = l2
    t1 = t1
    t2 = t2
    Links <- TwoLinks
    Threads <- TwoThreads
    MaxDocs = 2
SYMMETRY Symmetry
CHECK_DEADLOCK FALSE
INVARIANT OnlyReviewedLeaves
