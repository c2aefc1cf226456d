SPECIFICATION VoiceSpec
CONSTANTS
    c1 = c1
    s1 = s1
    h1 = h1
    h2 = h2
    Calls <- OneCall
    Starters <- OneStarter
    Hooks <- TwoHooks
    Reported = {"queued","ringing","in-progress"}
    Outcomes = {"completed","failed"}
    MaxFrames = 3
    MaxTexts = 2
    MaxWaiting = 1
    ChunkSize = 2
\* A call may have its verdict and a session may be over.
CHECK_DEADLOCK FALSE
INVARIANTS
    
    BridgeAddsUp
PROPERTIES
    VerdictIsFinal
    StopsBlocking
    SessionsEnd
