SPECIFICATION StaffSpec
CONSTANTS
    h1 = h1
    h2 = h2
    e1 = e1
    e2 = e2
    u1 = u1
    u2 = u2
    private = private
    Threads <- Two
    Emails <- TwoKeys
    MaxTokens = 1
    MaxPeople = 2
    Docs <- TwoKeys
    Workers <- Two
    AppEvents <- TwoKeys
    GoogleUsers <- Pair
    Callers <- Two
    MaxGoogle = 2
    Sessions <- Two
    Legacy <- OneOld
    MaxNumber = 4
    MaxDraws = 2
    Requests <- Two
    MaxItems = 2
    MaxLinks = 2
    Events <- TwoKeys
    Deliveries <- Two
    Tolerance = 2
    MaxClock = 4
    Staff <- Two
    Records <- TwoKeys
    Company <- Pair
    Private <- OnePrivate
    MaxEdits = 1
    Visits <- Two
    MaxBrought = 4
SYMMETRY Symmetry
CONSTRAINT OneMishap
\* The bounds on people, events, numbers, items and time let the system come to rest.
CHECK_DEADLOCK FALSE
INVARIANTS
    StaffTypeOK
    
    LinkIsSingleUse
    OneAccountEach
    CalendarAgrees
    CodesAreIssuedOnce
    
    
    OneAddressEach
