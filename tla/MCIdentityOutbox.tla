------------------------- MODULE MCIdentityOutbox -------------------------
\* Model values for IdentityOutbox: the two uvicorn workers of the Dockerfile.
EXTENDS IdentityOutbox, TLC

CONSTANTS e1, e2, w1, w2

TwoWorkers == {w1, w2}
OneEmployee == {e1}
TwoEmployees == {e1, e2}
=============================================================================
