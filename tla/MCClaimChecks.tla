--------------------------- MODULE MCClaimChecks ---------------------------
\* An instance of ClaimChecks: two links, and the check of a document.
EXTENDS ClaimChecks

TwoPortals == {1, 2}
Full == {[text |-> "good", checked |-> "good"]}
PanCard == {"PAN card"}
DocumentCheck == {"PANV"}
=============================================================================
