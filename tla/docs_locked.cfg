SPECIFICATION Spec
CONSTANTS
    aadhaar = aadhaar
    f1 = f1
    f2 = f2
    h1 = h1
    h2 = h2
    DocTypes <- OneType
    Files <- TwoFiles
    Handlers <- TwoHandlers
    NeedsConsent = TRUE
    BankRequired = TRUE
SYMMETRY Symmetric
CHECK_DEADLOCK FALSE
PROPERTIES VerifiedIsLocked
