------------------------------ MODULE MCPapers ------------------------------
\* The papers of a joiner, five components: part names the one a behaviour is about, so that
\* their states add up and do not multiply.  The other components' variables keep one of
\* their initial values.
EXTENDS DocRequests, OngridBgv, SharedDocuments, DocumentReading, ClaimChecks, TLC

CONSTANTS aadhaar, f1, f2, h1, h2, n1, n2, panv, ccrv

OneType == {aadhaar}
TwoFiles == {f1, f2}
TwoHandlers == {h1, h2}
TwoServers == TwoHandlers \* the components share no state and may share names
TwoLinks == TwoFiles
TwoThreads == TwoHandlers

\* A number is a stranger's in production.
TwoIds == {n1, n2}
OneStranger == {<<"production", n1>>}
TwoCodes == {panv, ccrv}
OneBacked == {panv}

Symmetry == Permutations(TwoFiles) \union Permutations(TwoHandlers)

\* The number of a card, and a reference number of as many digits.
OneCard == {<<2, 3, 4, 1, 2, 3, 4, 1, 2, 3, 4, 6>>}
OneOther == {<<4, 0, 0, 1, 1, 2, 2, 3, 3, 4, 4, 5>>}
LowOrHigh == {40, 90}

\* A qualification and an employment, each with a scan.
TwoPortals == {1, 2}
TwoTypes == {"Education certificates", "Salary slips"}
TwoOfferings == {"EDUV", "EMPV"}
GoodOrMalformed == {[text |-> "good", checked |-> "good"],
                    [text |-> "good", checked |-> "malformed"]}

VARIABLE part

-----------------------------------------------------------------------------

PapersInit ==
    /\ part \in {"requests", "ongrid", "shared", "reading", "claims"}
    /\ Init
    /\ OngridInit /\ (part # "ongrid" => here = "staging" /\ row = NoRow)
    /\ SharedInit /\ (part # "shared" => letter = FALSE)
    /\ ReadingInit /\ (part # "reading" => engine = TRUE)
    /\ ClaimInit

PapersNext ==
    /\ UNCHANGED part
    /\ \/ part = "requests" /\ Next
          /\ UNCHANGED <<ongridVars, sharedVars, readingVars, claimVars>>
       \/ part = "ongrid" /\ OngridNext
          /\ UNCHANGED <<vars, sharedVars, readingVars, claimVars>>
       \/ part = "shared" /\ SharedNext
          /\ UNCHANGED <<vars, ongridVars, readingVars, claimVars>>
       \/ part = "reading" /\ ReadingNext
          /\ UNCHANGED <<vars, ongridVars, sharedVars, claimVars>>
       \/ part = "claims" /\ ClaimNext
          /\ UNCHANGED <<vars, ongridVars, sharedVars, readingVars>>

papersVars == <<part, vars, ongridVars, sharedVars, readingVars, claimVars>>
PapersSpec == PapersInit /\ [][PapersNext]_papersVars

\* Bound: what the script unlinked is not followed on once two copies of the row were open
\* at once.
Settled == rowTorn => row.timeline = {} /\ row.checks[ccrv] = "none"

\* Bound: a behaviour of the shared documents meets one thing out of the ordinary: two open
\* copies of a link, a document judged on two links, a deleted link (then with one document),
\* a signed letter, or a deleted document.
Oddities == {e \in {"torn", "split", "dropped", "letter", "deleted"} :
    CASE e = "torn"    -> linkTorn
      [] e = "split"   -> split
      [] e = "dropped" -> dropped
      [] e = "letter"  -> letter
      [] e = "deleted" -> ~dropped /\ \E d \in 1..drawn : rows[d] = "none"}
OneOddity == Cardinality(Oddities) <= 1 /\ (dropped => drawn <= 1)

\* Bound: at most two claims are saved on the links together.
FewClaims == Cardinality({lc \in Portals \X Claims : filled[lc[1]][lc[2]] # <<>>}) <= 2

-----------------------------------------------------------------------------
\* Properties of the components are checked by the names they have there; in a component that
\* is not at work they hold as they hold at its start.

\* Every variable of the five components has its type.
PapersTypeOK == TypeOK /\ OngridTypeOK /\ SharedTypeOK /\ ReadingTypeOK /\ ClaimTypeOK
=============================================================================
