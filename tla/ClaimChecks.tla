---------------------------- MODULE ClaimChecks ----------------------------
(***************************************************************************)
(* What one send of background checks carries (api/routes/bgv_ongrid.py    *)
(* ongrid_verify, services/bgv_checks.py, services/bgv_records.py).  The   *)
(* candidate's answers and documents are spread over several document      *)
(* links, HR may type over the answers, and a claim is registered at       *)
(* OnGrid as a record before its check is started.  One candidate with one *)
(* individual, and one send at a time: overlapping sends and a change of   *)
(* individual are OngridBgv's.                                             *)
(***************************************************************************)
EXTENDS Integers, Sequences, FiniteSets, SequencesExt

CONSTANTS Portals,   \* document links of the candidate, in order of creation
          Types,     \* document types that are asked for
          Offerings, \* what HR may choose to have checked
          Fillings,  \* ways to fill in a claim, a subset of Filling
          MaxFiles,  \* bound: uploads
          MaxSends   \* bound: sends of HR

VARIABLES filled,     \* the claims saved on each link
          files,      \* the submissions of each link
          uploads,    \* uploads so far; a file is known by its number
          claimRow,   \* the bgvs row: the registered document's file, HR's claimDetails
          registered, \* the records at OnGrid
          running,    \* history: what the started checks were last run against
          answer,     \* what HR was told of the last send
          sends       \* sends so far

claimVars == <<filled, files, uploads, claimRow, registered, running, answer, sends>>

-----------------------------------------------------------------------------

Claims == {"uan", "education", "employment", "permanentAddress", "references"}

\* ClaimDetails: HR cannot type references.
HRClaims == Claims \ {"references"}

\* The claim a code verifies.
ClaimOf == [EHC |-> "uan", EDUV |-> "education", EMPV |-> "employment",
            PAV |-> "permanentAddress", PRC |-> "references"]

SelfContained == {"CCRV", "LAV"}
EducationDocType == "Education certificates"
EmploymentProofDocs == {"Experience letter", "Offer/appraisal letter", "Salary slips"}

\* text: the fields that are sent as they are; checked: those with a format (the level, the
\* dates).  Optional text is left out.
Filling == [text : {"blank", "good"}, checked : {"blank", "malformed", "good"}]
HR == 0
Entry == [by : Portals \union {HR}, as : Fillings]
By(who) == [by : {who}, as : Fillings]

ASSUME ClaimConstants ==
    /\ Portals \subseteq Nat \ {HR} /\ Fillings \subseteq Filling
    /\ MaxFiles \in Nat /\ MaxSends \in Nat

NoScan == 0
NoDocument == [file |-> NoScan, status |-> "none"]
Document == [file : 1..MaxFiles, status : {"Submitted", "Verified", "Rejected"}]

\* A record of OnGrid: the fields that were sent, and the scans with them.
Record == [claim : Claims, by : Portals \union {HR}, fields : SUBSET {"text", "checked"},
           malformed : BOOLEAN, scans : SUBSET (1..MaxFiles)]

ClaimTypeOK ==
    /\ filled \in [Portals -> [Claims -> Seq(Entry)]]
    /\ \A l \in Portals, c \in Claims :
         /\ filled[l][c] \in Seq(By(l))
         /\ c # "references" => Len(filled[l][c]) <= 1
    /\ files \in [Portals -> [Types -> Document \union {NoDocument}]]
    /\ uploads \in 0..MaxFiles /\ sends \in 0..MaxSends
    /\ claimRow.document \in 0..MaxFiles
    /\ DOMAIN claimRow.details \subseteq HRClaims
    /\ \A c \in DOMAIN claimRow.details : claimRow.details[c] \in By(HR)
    /\ registered \subseteq Record
    /\ running.file \in 0..MaxFiles
    /\ \A c \in Claims : running.claims[c] \in {<<>>} \union {<<e>> : e \in Entry}
    /\ answer \in [Offerings -> {"none", "missing", "refused", "started"}]

-----------------------------------------------------------------------------
\* The portal: PATCH writes a claim of one link, an upload replaces the submission of its
\* type there unless it is verified, and HR reviews it.

SaveClaim(l, claim, entries) ==
    /\ claim # "references" => Len(entries) <= 1
    /\ filled' = [filled EXCEPT ![l][claim] = entries]
    /\ UNCHANGED <<files, uploads, claimRow, registered, running, answer, sends>>

UploadScan(l, type) ==
    /\ uploads < MaxFiles
    /\ files[l][type].status # "Verified"
    /\ uploads' = uploads + 1
    /\ files' = [files EXCEPT ![l][type] = [file |-> uploads', status |-> "Submitted"]]
    /\ UNCHANGED <<filled, claimRow, registered, running, answer, sends>>

ReviewScan(l, type, verdict) ==
    /\ files[l][type] # NoDocument
    /\ files' = [files EXCEPT ![l][type].status = verdict]
    /\ UNCHANGED <<filled, uploads, claimRow, registered, running, answer, sends>>

-----------------------------------------------------------------------------
\* What a send has to go on.

\* _document_for: of the submissions on all links, a verified one, then the newest.
DocumentFor(type) ==
    LET submissions == {files[l][type] : l \in Portals} \ {NoDocument}
        verified == {s \in submissions : s.status = "Verified"}
    IN IF submissions = {} THEN NoScan
       ELSE Max({s.file : s \in IF verified # {} THEN verified ELSE submissions})

\* Storage may fail to deliver it.
Fetched(type, delivered) ==
    IF type \in delivered \intersect Types THEN DocumentFor(type) ELSE NoScan

\* employment_files.
Proofs(delivered) == {Fetched(t, delivered) : t \in EmploymentProofDocs} \ {NoScan}

\* _portal_field: the first link that holds the claim, in the order of creation.
PortalField(claim) ==
    LET holding == {l \in Portals : filled[l][claim] # <<>>}
    IN IF holding = {} THEN <<>> ELSE filled[Min(holding)][claim]

\* What HR typed wins over the stored copy.
Given(typed, claim) ==
    IF claim \in DOMAIN typed THEN <<typed[claim]>> ELSE PortalField(claim)

-----------------------------------------------------------------------------
\* bgv_records.

Mandatory(claim) == IF claim = "education" THEN {"text", "checked"} ELSE {"text"}

\* Mutant: a malformed date is forwarded.
CollectUnchecked(entry) == {f \in {"text", "checked"} : entry.as[f] # "blank"}

\* _collect: a blank field is omitted, a malformed date or level dropped.
Collect(entry) == {f \in {"text", "checked"} : entry.as[f] = "good"}

IsComplete(claim, entry) == Mandatory(claim) \subseteq Collect(entry)

\* The first complete entry; only references are more than one.
UsableClaim(typed, claim) ==
    LET first == SelectInSeq(Given(typed, claim), LAMBDA entry : IsComplete(claim, entry))
    IN IF first = 0 THEN <<>> ELSE <<Given(typed, claim)[first]>>

-----------------------------------------------------------------------------
\* bgv_checks.

\* The scans an education or employment record goes out with.
Scans(code, delivered) ==
    CASE code = "EDUV" -> {Fetched(EducationDocType, delivered)} \ {NoScan}
      [] code = "EMPV" -> Proofs(delivered)
      [] OTHER -> {}

NeedsScan == {"EDUV", "EMPV"}

\* Nothing is missing: OnGrid is called.
IsReady(code, typed, delivered) ==
    CASE code \in SelfContained -> TRUE
      [] code = "PANV" -> claimRow.document # NoScan \/ Fetched("PAN card", delivered) # NoScan
      [] code \in DOMAIN ClaimOf ->
           /\ UsableClaim(typed, ClaimOf[code]) # <<>>
           /\ code \in NeedsScan => Scans(code, delivered) # {}
      [] OTHER -> FALSE

\* The claims registered as a record first; a UAN and a referee go in the check's body.
RegisteredFirst == {"EDUV", "EMPV", "PAV"}

\* How far OnGrid lets a check come: its claim or document is refused, or registered and
\* the check refused, or started.  A questionnaire that is not configured is refused too.
Reach == {"refused", "registered", "started"}

RecordFor(code, typed, delivered) ==
    LET entry == Head(UsableClaim(typed, ClaimOf[code])) IN
    [claim |-> ClaimOf[code], by |-> entry.by, fields |-> Collect(entry),
     malformed |-> "checked" \in Collect(entry) /\ entry.as.checked = "malformed",
     scans |-> Scans(code, delivered)]

\* The document registered for PANV after this send: the one before, or a new one.
RegisteredDocument(reach, ready, delivered) ==
    IF "PANV" \in ready /\ claimRow.document = NoScan /\ reach["PANV"] # "refused"
    THEN Fetched("PAN card", delivered) ELSE claimRow.document

\* run_check for each of services, at OnGrid.
StartChecks(reach, ready, typed, delivered) ==
    LET started == {c \in ready : reach[c] = "started"} IN
    /\ registered' = registered \union
         {RecordFor(c, typed, delivered) :
            c \in {d \in ready \intersect RegisteredFirst : reach[d] # "refused"}}
    /\ running' = [file |-> IF "PANV" \in started
                            THEN RegisteredDocument(reach, ready, delivered) ELSE running.file,
                   claims |-> [claim \in Claims |->
                     IF \E c \in started \intersect DOMAIN ClaimOf : ClaimOf[c] = claim
                     THEN <<Head(UsableClaim(typed, claim))>> ELSE running.claims[claim]]]

Ready(services, typed, delivered) == {c \in services : IsReady(c, typed, delivered)}

\* The claims that some code of Codes verifies.
Asked == {ClaimOf[c] : c \in Offerings \intersect DOMAIN ClaimOf}

\* What HR may have typed into the dialog.
Details == UNION {[typed -> By(HR)] : typed \in SUBSET (HRClaims \intersect Asked)}

\* A request has HR's dialog or none.  The outcomes are answered, and the row's claimDetails
\* replaced if there was a dialog.
OngridVerify(services, dialog, typed, delivered) ==
    /\ sends < MaxSends
    /\ services # {}
    /\ ~dialog => DOMAIN typed = {}
    /\ sends' = sends + 1
    /\ LET ready == Ready(services, typed, delivered) IN
       \E reach \in [ready -> Reach] :
         /\ StartChecks(reach, ready, typed, delivered)
         /\ claimRow' = [document |-> RegisteredDocument(reach, ready, delivered),
                         details |-> IF dialog THEN typed ELSE claimRow.details]
         /\ answer' = [c \in Offerings |->
                         CASE c \notin services -> "none"
                           [] c \in services \ ready -> "missing"
                           [] c \in ready /\ reach[c] = "started" -> "started"
                           [] OTHER -> "refused"]
    /\ UNCHANGED <<filled, files, uploads>>

\* The send dies after some of its checks, and the row is not written.
VerifyDies(services, typed, delivered) ==
    /\ sends < MaxSends
    /\ services # {}
    /\ sends' = sends + 1
    /\ LET ready == Ready(services, typed, delivered) IN
       \E reach \in [ready -> Reach] : StartChecks(reach, ready, typed, delivered)
    /\ answer' = [c \in Offerings |-> "none"]
    /\ UNCHANGED <<filled, files, uploads, claimRow>>

-----------------------------------------------------------------------------

ClaimInit ==
    /\ filled = [l \in Portals |-> [c \in Claims |-> <<>>]]
    /\ files = [l \in Portals |-> [t \in Types |-> NoDocument]]
    /\ uploads = 0
    /\ claimRow = [document |-> NoScan, details |-> <<>>]
    /\ registered = {}
    /\ running = [file |-> NoScan, claims |-> [c \in Claims |-> <<>>]]
    /\ answer = [c \in Offerings |-> "none"]
    /\ sends = 0

ClaimNext ==
    \/ \E l \in Portals :
         \/ \E claim \in Asked, n \in 0..2 :
              \E entries \in [1..n -> By(l)] : SaveClaim(l, claim, entries)
         \/ \E type \in Types :
              UploadScan(l, type) \/ \E verdict \in {"Verified", "Rejected"} : ReviewScan(l, type, verdict)
    \/ \E services \in SUBSET Offerings, delivered \in SUBSET Types :
         \E typed \in Details :
           \/ \E dialog \in BOOLEAN : OngridVerify(services, dialog, typed, delivered)
           \/ VerifyDies(services, typed, delivered)

ClaimSpec == ClaimInit /\ [][ClaimNext]_claimVars

-----------------------------------------------------------------------------
\* Properties.

\* A record OnGrid can check: whole, well formed, and with a scan where its check needs one.
Checkable(record) ==
    /\ Mandatory(record.claim) \subseteq record.fields
    /\ ~record.malformed
    /\ record.claim \in {"education", "employment"} => record.scans # {}

\* "instead of an employment record being created that can never be checked"
\* (bgv_checks.py:335): whichever links hold the answers and the scans, whatever HR typed
\* over them and wherever a send dies, OnGrid holds no record that its check would refuse,
\* and the referee that was asked is complete.
RecordsCanBeChecked ==
    /\ \A r \in registered : Checkable(r)
    /\ \A c \in Claims : running.claims[c] # <<>> => IsComplete(c, Head(running.claims[c]))

\* "Prefers a verified submission, then the most recent" (bgv_ongrid.py:120): a document
\* check that a send has just started runs on that file.
RunsOnPreferredFile ==
    [][sends' # sends /\ "PANV" \in Offerings /\ answer'["PANV"] = "started"
         => running'.file = DocumentFor("PAN card")]_claimVars
=============================================================================
