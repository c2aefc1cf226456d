SPECIFICATION PapersSpec
CONSTANTS
    aadhaar = aadhaar
    f1 = f1
    f2 = f2
    h1 = h1
    h2 = h2
    n1 = n1
    n2 = n2
    panv = panv
    ccrv = ccrv
    DocTypes <- OneType
    Files <- TwoFiles
    Handlers <- TwoHandlers
    Servers <- TwoServers
    Ids <- TwoIds
    Strangers <- OneStranger
    Codes <- TwoCodes
    DocumentBacked <- OneBacked
    NeedsConsent = TRUE
    BankRequired = TRUE
    Links <- TwoLinks
    Threads <- TwoThreads
    MaxDocs = 2
    Cards <- OneCard
    Others <- OneOther
    Confidences <- LowOrHigh
    Portals <- TwoPortals
    Types <- TwoTypes
    Offerings <- TwoOfferings
    Fillings <- GoodOrMalformed
    MaxFiles = 1
    MaxSends = 1
SYMMETRY Symmetry
CONSTRAINTS Settled OneOddity FewClaims
\* Documents and numbers run out, and the candidate may be gone.
CHECK_DEADLOCK FALSE
INVARIANTS
    PapersTypeOK
    VerifiedByHR
    
    
    AnswersAreKept
    OnlyOurIndividual
    OneIndividual
    IndividualsStayNamed
    OutcomesAreKept
    StatusIsCurrent
    
    MisreadsAreCaught
    RecordsCanBeChecked
