-------------------------- MODULE SharedDocuments --------------------------
(***************************************************************************)
(* What leaves Circle of one hire's papers.  Avora fetches an employee's   *)
(* documents (app/services/avora_export.py, api/routes/avora_internal.py), *)
(* and an external system pulls a feed of the candidates HR has marked     *)
(* arrived (candidate_handoff.py).  Neither keeps a list: both decide when *)
(* asked, from the submissions of every documents link the person was sent *)
(* and from the documents table, while uploads and reviews are under way.  *)
(* Documents are of one type; an employee names its candidate.             *)
(***************************************************************************)
EXTENDS Integers, FiniteSets

CONSTANTS Links,     \* doc_requests ids (tokens)
          Threads,   \* threads serving uploads and reviews
          MaxDocs    \* bound: documents uploaded

ASSUME SharedAssumption == MaxDocs \in Nat \ {0}

VARIABLES letter,    \* is the type one of _SIGNED_LETTERS?
          links,     \* the doc_requests table
          rows,      \* the documents table: whose each document is
          person,    \* which records of the person exist
          drawn,     \* the document id given out last
          thread,    \* what each thread is doing
          verified,  \* history: documents HR has marked Verified
          verdict,   \* history: HR's last verdict on each document
          answered,  \* history: documents whose upload was answered 201
          linkTorn,  \* history: two copies of one link were open at once
          split,     \* history: a submission carried to a second link was judged on one of them
          dropped    \* history: a link was deleted

sharedHistory == <<verified, verdict, answered, linkTorn, split, dropped>>
sharedVars == <<letter, links, rows, person, drawn, thread, sharedHistory>>

-----------------------------------------------------------------------------

\* Ids are given out in the order of uploadedAt.
Docs == 1..MaxDocs
Verdicts == {"Verified", "Rejected"}
Owners == {"candidate", "employee"}

NothingSent == [doc |-> 0, status |-> "none"]
NoLink == [owner |-> "none", sub |-> NothingSent]
Sent == {NothingSent} \union [doc : Docs, status : Verdicts \union {"Submitted"}]
Link == [owner : Owners, sub : Sent]

\* What a thread is doing: with the copy of a link, and with the file it stored.
NoWork == [stage |-> "idle"]
Work == {NoWork}
    \union [stage : {"loaded"}, op : {"upload"} \union Verdicts, link : Links, copy : Link]
    \union [stage : {"stored"}, link : Links, copy : Link, doc : Docs]

SharedTypeOK ==
    /\ letter \in BOOLEAN /\ linkTorn \in BOOLEAN /\ split \in BOOLEAN /\ dropped \in BOOLEAN
    /\ links \in [Links -> Link \union {NoLink}]
    /\ rows \in [Docs -> Owners \union {"none"}]
    /\ person \in [candidate : BOOLEAN, employee : BOOLEAN, arrived : BOOLEAN]
    /\ drawn \in 0..MaxDocs
    /\ thread \in [Threads -> Work]
    /\ verified \subseteq Docs /\ answered \subseteq Docs
    /\ verdict \in [Docs -> Verdicts \union {"none"}]

Stored == {d \in Docs : rows[d] # "none"}
Live == {l \in Links : links[l] # NoLink}
Submissions == {links[l].sub : l \in Live} \ {NothingSent}
Release(w) == thread' = [thread EXCEPT ![w] = NoWork]

-----------------------------------------------------------------------------
\* What is shared.

\* review_of: the newest upload of the type on any of the person's links.  Copies of
\* one submission tie, and the rows' order decides: any of them may count.
Latest == {s \in Submissions : \A t \in Submissions : t.doc <= s.doc}

\* Mutant: every upload counts until HR rejects it.
AcceptedUnlessRejected(s) == s.status # "Rejected"

\* A signed letter counts unless it was rejected, anything else once it was verified.
Accepted(s) == IF letter THEN s.status # "Rejected" ELSE s.status = "Verified"

\* owner_refs: the person's files lie under the employee and under the candidate.
OwnFiles == {d \in Stored : rows[d] \in Owners}

\* is_shareable_document: an accepted upload, or a file in a category that no link asked for.
IsShareable(d) == Live = {} \/ \E s \in Latest : s.doc = d /\ Accepted(s)

\* _shareable_documents, which both the listing and the download go through.
AvoraShares == {d \in OwnFiles : person.employee /\ IsShareable(d)}

\* _resolve_candidate: the candidate, or a link that still carries the candidate's name.
CandidateLinks == {l \in Live : links[l].owner = "candidate"}
Resolved == person.candidate \/ CandidateLinks # {}

\* _verified_documents: what HR verified on the candidate's links.  Of several verified
\* documents it offers one, the one reviewed last.
VerifiedDocuments == {d \in Docs : \E l \in CandidateLinks :
                                      links[l].sub = [doc |-> d, status |-> "Verified"]}

\* feed: the candidates that arrived and can be resolved, with a URL for what is stored.
FeedOffers == {d \in VerifiedDocuments : person.arrived /\ Resolved /\ d \in Stored}

-----------------------------------------------------------------------------
\* HR's side.

\* A new link asks for the type again; the dashboard carries an approval forward, which
\* locks the document on the new link too (doc_requests.py:171).
SendLink(l, owner) ==
    /\ links[l] = NoLink
    /\ person[owner]
    /\ \E sub \in {NothingSent} \union {s \in Submissions : s.status = "Verified"} :
         links' = [links EXCEPT ![l] = [owner |-> owner, sub |-> sub]]
    /\ UNCHANGED <<letter, rows, person, drawn, thread, sharedHistory>>

DeleteLink(l) ==
    /\ links[l] # NoLink
    /\ links' = [links EXCEPT ![l] = NoLink]
    /\ dropped' = TRUE
    /\ UNCHANGED <<letter, rows, person, drawn, thread, verified, verdict, answered, linkTorn,
                   split>>

DeleteDocument(d) ==
    /\ rows[d] # "none"
    /\ rows' = [rows EXCEPT ![d] = "none"]
    /\ UNCHANGED <<letter, links, person, drawn, thread, sharedHistory>>

\* The conversion: the employee record, which names the candidate.
Hire ==
    /\ person.candidate /\ ~person.employee
    /\ person' = [person EXCEPT !.employee = TRUE]
    /\ UNCHANGED <<letter, links, rows, drawn, thread, sharedHistory>>

\* promote_candidate_documents moves every file, whatever HR thought of it.
Promote ==
    /\ person.employee
    /\ \E d \in Docs : rows[d] = "candidate"
    /\ rows' = [d \in Docs |-> IF rows[d] = "candidate" THEN "employee" ELSE rows[d]]
    /\ UNCHANGED <<letter, links, person, drawn, thread, sharedHistory>>

\* delete_candidate: "a later cleanup-delete of the stale candidate record" takes the links
\* with their verdicts, and leaves what was promoted.
DeleteCandidate ==
    /\ person.candidate
    /\ links' = [l \in Links |-> IF links[l].owner = "candidate" THEN NoLink ELSE links[l]]
    /\ rows' = [d \in Docs |-> IF rows[d] = "candidate" THEN "none" ELSE rows[d]]
    /\ person' = [person EXCEPT !.candidate = FALSE, !.arrived = FALSE]
    /\ dropped' = (dropped \/ CandidateLinks # {})
    /\ UNCHANGED <<letter, drawn, thread, verified, verdict, answered, linkTorn, split>>

MarkArrived ==
    /\ Resolved /\ ~person.arrived
    /\ person' = [person EXCEPT !.arrived = TRUE]
    /\ UNCHANGED <<letter, links, rows, drawn, thread, sharedHistory>>

-----------------------------------------------------------------------------
\* Uploads and reviews: a copy of the link is read, and written back whole.

ReadLink(w, l, op) ==
    /\ thread[w] = NoWork
    /\ links[l] # NoLink
    /\ IF op = "upload" THEN links[l].sub.status # "Verified" ELSE links[l].sub # NothingSent
    /\ thread' = [thread EXCEPT ![w] = [stage |-> "loaded", op |-> op, link |-> l,
                                        copy |-> links[l]]]
    /\ linkTorn' = (linkTorn \/ \E v \in Threads : thread[v] # NoWork /\ thread[v].link = l)
    /\ UNCHANGED <<letter, links, rows, person, drawn, verified, verdict, answered, split, dropped>>

\* The object and its row, under a new id.
StoreUpload(w, d) ==
    /\ thread[w].stage = "loaded" /\ thread[w].op = "upload"
    /\ d = drawn + 1
    /\ drawn' = d
    /\ rows' = [rows EXCEPT ![d] = thread[w].copy.owner]
    /\ thread' = [thread EXCEPT ![w] = [stage |-> "stored", link |-> @.link, copy |-> @.copy,
                                        doc |-> d]]
    /\ UNCHANGED <<letter, links, person, sharedHistory>>

WriteUpload(w) ==
    /\ thread[w].stage = "stored"
    /\ LET d == thread[w].doc IN
       /\ links' = [links EXCEPT ![thread[w].link] =
                      [thread[w].copy EXCEPT !.sub = [doc |-> d, status |-> "Submitted"]]]
       /\ answered' = answered \union {d}
    /\ Release(w)
    /\ UNCHANGED <<letter, rows, person, drawn, verified, verdict, linkTorn, split, dropped>>

WriteReview(w) ==
    /\ thread[w].stage = "loaded" /\ thread[w].op \in Verdicts
    /\ LET d == thread[w].copy.sub.doc
           says == thread[w].op IN
       /\ links' = [links EXCEPT ![thread[w].link] = [thread[w].copy EXCEPT !.sub.status = says]]
       /\ verified' = IF says = "Verified" THEN verified \union {d} ELSE verified
       /\ verdict' = [verdict EXCEPT ![d] = says]
       /\ split' = (split \/ \E l \in Live \ {thread[w].link} : links[l].sub.doc = d)
    /\ Release(w)
    /\ UNCHANGED <<letter, rows, person, drawn, answered, linkTorn, dropped>>

Die(w) ==
    /\ thread[w] # NoWork
    /\ Release(w)
    /\ UNCHANGED <<letter, links, rows, person, drawn, sharedHistory>>

SharedInit ==
    /\ letter \in BOOLEAN
    /\ links = [l \in Links |-> NoLink]
    /\ rows = [d \in Docs |-> "none"]
    /\ person = [candidate |-> TRUE, employee |-> FALSE, arrived |-> FALSE]
    /\ drawn = 0
    /\ thread = [w \in Threads |-> NoWork]
    /\ verified = {} /\ answered = {}
    /\ verdict = [d \in Docs |-> "none"]
    /\ linkTorn = FALSE /\ split = FALSE /\ dropped = FALSE

SharedNext ==
    \/ \E l \in Links : DeleteLink(l) \/ \E owner \in Owners : SendLink(l, owner)
    \/ \E d \in Docs : DeleteDocument(d)
    \/ Hire \/ Promote \/ DeleteCandidate \/ MarkArrived
    \/ \E w \in Threads :
         \/ \E l \in Links, op \in {"upload"} \union Verdicts : ReadLink(w, l, op)
         \/ \E d \in Docs : StoreUpload(w, d)
         \/ WriteUpload(w) \/ WriteReview(w) \/ Die(w)

SharedSpec == SharedInit /\ [][SharedNext]_sharedVars

-----------------------------------------------------------------------------
\* Properties.

\* "never an upload HR rejected, has not reviewed yet, or that a newer upload replaced"
\* (avora_export.py:172): over every order of uploads, reviews and new links, what Avora may
\* fetch HR has accepted, HR's last word on it was not a rejection, and no later upload was
\* answered 201; except once a link was deleted, for the last word when one document was
\* judged on two links, and for the last of them when two copies of a link were open at once.
AvoraIsCurrent ==
    \A d \in AvoraShares :
        /\ letter \/ d \in verified
        /\ linkTorn \/ \A e \in answered : e <= d
        /\ split \/ verdict[d] # "Rejected"

\* "only the documents HR APPROVED during verification" (candidate_handoff.py:8).
FeedIsApproved ==
    \A d \in FeedOffers : d \in verified /\ (split \/ verdict[d] = "Verified")

SharedIsAccepted == FeedIsApproved /\ (dropped \/ AvoraIsCurrent)

\* The inductive invariant: what the copies that threads hold and the links say of the
\* documents.
IdsAreDrawn ==
    /\ \A l \in Links : links[l].sub.doc <= drawn
    /\ \A d \in Docs : rows[d] # "none" \/ d \in answered \/ verdict[d] # "none" => d <= drawn
    /\ \A w \in Threads : thread[w].stage # "idle" => thread[w].copy.sub.doc <= drawn
    /\ \A w \in Threads : thread[w].stage = "loaded" /\ thread[w].op \in Verdicts
                            => thread[w].copy.sub # NothingSent

\* A file that is stored and not written to its link yet is nobody else's.
NewFilesAreFresh ==
    \A w \in Threads : thread[w].stage = "stored" =>
        /\ thread[w].doc <= drawn /\ verdict[thread[w].doc] = "none"
        /\ thread[w].copy.sub.doc < thread[w].doc
        /\ \A l \in Links : links[l].sub.doc # thread[w].doc
        /\ \A v \in Threads \ {w} :
             /\ thread[v].stage # "idle" => thread[v].copy.sub.doc # thread[w].doc
             /\ thread[v].stage = "stored" => thread[v].doc # thread[w].doc

VerdictsAgree ==
    \A l \in Links : links[l].sub # NothingSent =>
        LET s == links[l].sub IN
        /\ s.status = "Verified" => s.doc \in verified
        /\ split \/ verdict[s.doc] = IF s.status = "Submitted" THEN "none" ELSE s.status

LinksAreHeld ==
    ~dropped => /\ Live = {} => drawn = 0
                /\ \A w \in Threads : thread[w].stage # "idle" => thread[w].link \in Live

CopiesAreCurrent ==
    ~linkTorn =>
        /\ \A v, w \in Threads : v # w /\ thread[v].stage # "idle" /\ thread[w].stage # "idle"
                                => thread[v].link # thread[w].link
        /\ ~dropped => \A w \in Threads : thread[w].stage # "idle"
                                        => thread[w].copy = links[thread[w].link]

LatestAnswerCounts ==
    ~dropped /\ ~linkTorn => \A e \in answered : \E l \in Live : e <= links[l].sub.doc

SharedIInv == /\ SharedTypeOK /\ IdsAreDrawn /\ NewFilesAreFresh /\ VerdictsAgree
              /\ LinksAreHeld /\ CopiesAreCurrent /\ LatestAnswerCounts

\* The same of Avora without the exception: "never [...] an upload HR rejected, has not
\* reviewed yet" (avora_export.py:172).
OnlyReviewedLeaves == \A d \in AvoraShares : letter \/ d \in verified
=============================================================================
