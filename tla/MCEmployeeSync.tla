--------------------------- MODULE MCEmployeeSync ---------------------------
\* Model values for EmployeeSync.
EXTENDS EmployeeSync, TLC

CONSTANTS e1, w1, r1, r2, active

OneEmployee == {e1}
OneWorker == {w1}
TwoRequests == {r1, r2}
OneProfile == {active}
Symmetric == Permutations(TwoRequests)
=============================================================================
