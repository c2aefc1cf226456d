SPECIFICATION PublicSpec
CONSTANTS
    h1 = h1
    h2 = h2
    j1 = j1
    j2 = j2
    c1 = c1
    c2 = c2
    Handlers <- HandlersDef
    Postings <- PostingsDef
    Candidates <- CandidatesDef
    Calls <- CandidatesDef
    Starters <- HandlersDef
    Hooks = {"webhook"}
    Reported = {"in-progress"}
    Outcomes = {"completed"}
    MaxCodes = 2
    PerHour = 1
    MaxAttempts = 1
    Solvers <- HandlersDef
    Works <- PostingsDef
    MaxViolations = 2
    Addresses <- HandlersDef
    Paths <- TwoLimiters
    Rules <- RulesDef
    GcEvery = 3
    MaxNow = 4
    Options = {"A", "B"}
    Questions <- QuestionsDef
    MaxAsked = 3
    MaxQuestions = 2
SYMMETRY Symmetry
CONSTRAINT OneExcuse
\* The bounds on codes, works and time let the system come to rest.
CHECK_DEADLOCK FALSE
INVARIANTS
    OneApplication
    VerificationIsUsedOnce
    OtpLimitsHold
    AnswersStand
    WindowsHold
    CallsAreRatedLikeForms
    OneCallAtATime
