SPECIFICATION TestSpec
CONSTANTS
    h1 = h1
    w1 = w1
    Solvers <- OneSolver
    Works <- OneWork
    MaxViolations = 2
\* A graded test whose deadline has passed takes no step.
CHECK_DEADLOCK FALSE
PROPERTIES WriteOnce
