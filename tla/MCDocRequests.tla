--------------------------- MODULE MCDocRequests ---------------------------
\* Model values for DocRequests.
EXTENDS DocRequests, TLC

CONSTANTS aadhaar, f1, f2, h1, h2

OneType == {aadhaar}
TwoFiles == {f1, f2}
TwoHandlers == {h1, h2}
Symmetric == Permutations(TwoFiles) \union Permutations(TwoHandlers)
=============================================================================
