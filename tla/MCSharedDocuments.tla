------------------------- MODULE MCSharedDocuments -------------------------
\* Model values for SharedDocuments.
EXTENDS SharedDocuments, TLC

CONSTANTS l1, l2, t1, t2

TwoLinks == {l1, l2}
TwoThreads == {t1, t2}
Symmetry == Permutations(TwoLinks) \union Permutations(TwoThreads)
=============================================================================
