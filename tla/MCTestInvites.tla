--------------------------- MODULE MCTestInvites ---------------------------
\* One candidate with one thread, to show that no race is needed.
EXTENDS TestInvites

CONSTANTS h1, w1

OneSolver == {h1}
OneWork == {w1}
=============================================================================
