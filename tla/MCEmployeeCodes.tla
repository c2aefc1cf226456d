-------------------------- MODULE MCEmployeeCodes --------------------------
\* A request and a booting process; the old scheme has given one number.
EXTENDS EmployeeCodes

CONSTANTS h1, h2

TwoSessions == {h1, h2}
OneOld == {2}
=============================================================================
