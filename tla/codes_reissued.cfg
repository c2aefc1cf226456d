SPECIFICATION CodesSpec
CONSTANTS
    h1 = h1
    h2 = h2
    Sessions <- TwoSessions
    Legacy <- OneOld
    MaxNumber = 4
    MaxDraws = 2
CHECK_DEADLOCK FALSE
INVARIANTS NeverReissued
