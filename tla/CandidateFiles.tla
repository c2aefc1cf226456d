--------------------------- MODULE CandidateFiles ---------------------------
(***************************************************************************)
(* The documents of one candidate and what happens to them: upload,        *)
(* deletion (app/api/routes/documents.py), promotion to an employee        *)
(* (candidate_promote.py) and the cascade that deletes the candidate with  *)
(* every record that hangs off it (candidate_delete.py).  A document is a  *)
(* row and an S3 object, changed one after the other, and both cascade and *)
(* promotion work through a list they read once.                           *)
(***************************************************************************)
EXTENDS FiniteSets

CONSTANTS Docs,     \* document ids
          Workers   \* threads serving requests

VARIABLES rows,       \* the documents table
          blobs,      \* S3 objects: <<document, folder of its key>>
          children,   \* records of the candidate in other tables
          link,       \* the interview's row of calendar_links
          candidate,  \* the candidate's own row
          worker,     \* what each thread is doing
          torn,       \* history: documents two operations held at once, or one died on
          kept,       \* history: blobs whose deletion failed and was logged
          promoted,   \* history: documents promoted, and not deleted by HR since
          gone,       \* history: a cascade that overlapped nothing has answered 204
          stranded    \* history: a cascade died between the interview and its event

fileVars == <<rows, blobs, children, link, candidate, worker, torn, kept, promoted, gone, stranded>>
fileHistory == <<torn, kept, promoted, gone, stranded>>

-----------------------------------------------------------------------------

Folders == {"candidate", "employee"}
NoRow == [owner |-> "none", key |-> "none"]
OwnedBy(folder) == [owner |-> folder, key |-> folder]

\* One record found by its candidateId, one keyed by the candidate (_CHILD_BY_FIELD,
\* _CHILD_BY_KEY).
Children == {"interview", "bgv"}

Free == [stage |-> "idle"]

\* list: the documents still to be worked through; at: the one in hand; alone: no other
\* operation has run beside this cascade; event: it found the interview.
WorkStates ==
    {Free} \union [stage : {"fetched"}]
    \union [stage : {"uploaded", "emptied"}, at : Docs]
    \union [stage : {"deleting"}, at : Docs, key : Folders]
    \union [stage : {"writing"}, child : Children]
    \union [stage : {"promoting"}, list : SUBSET Docs]
    \union [stage : {"copied", "moved"}, at : Docs, list : SUBSET Docs]
    \union [stage : {"found", "unscheduled", "cleaned", "unkeyed"}, event : BOOLEAN, alone : BOOLEAN]
    \union [stage : {"sweeping"}, list : SUBSET Docs, alone : BOOLEAN]
    \union [stage : {"swept"}, at : Docs, list : SUBSET Docs, alone : BOOLEAN]

FileTypeOK ==
    /\ rows \in [Docs -> {NoRow} \union {OwnedBy(f) : f \in Folders}]
    /\ blobs \subseteq Docs \X Folders
    /\ children \subseteq Children
    /\ link \in BOOLEAN /\ candidate \in BOOLEAN /\ gone \in BOOLEAN /\ stranded \in BOOLEAN
    /\ worker \in [Workers -> WorkStates]
    /\ torn \subseteq Docs /\ promoted \subseteq Docs
    /\ kept \subseteq Docs

-----------------------------------------------------------------------------

Cascading == {"found", "unscheduled", "cleaned", "unkeyed", "sweeping", "swept"}

InHand(w) == IF worker[w].stage \in {"uploaded", "deleting", "emptied", "copied", "moved", "swept"}
             THEN {worker[w].at} ELSE {}
Listed(w) == IF worker[w].stage \in {"promoting", "copied", "moved", "sweeping", "swept"}
             THEN worker[w].list ELSE {}
InWork == UNION {InHand(w) \union Listed(w) : w \in Workers}

\* w takes up an operation: every cascade under way is no longer alone.
Begin(w, state) ==
    /\ worker[w] = Free
    /\ worker' = [v \in Workers |->
                    IF v = w THEN state
                    ELSE IF worker[v].stage \in Cascading THEN [worker[v] EXCEPT !.alone = FALSE]
                    ELSE worker[v]]

\* It begins on these documents.
TakeUp(docs) == torn' = torn \union (docs \intersect InWork)

Step(w, state) == worker' = [worker EXCEPT ![w] = state]

CandidateDocs == {d \in Docs : rows[d].owner = "candidate"}

-----------------------------------------------------------------------------
\* Uploads (also /apply and the portal): the object, then the row.  No route looks whether
\* the candidate exists.

\* Every upload has a new id.
Unused(d) ==
    /\ rows[d] = NoRow /\ d \notin InWork \union torn \union promoted
    /\ {d} \X Folders \intersect blobs = {}

UploadBlob(w, d) ==
    /\ Unused(d)
    /\ Begin(w, [stage |-> "uploaded", at |-> d])
    /\ blobs' = blobs \union {<<d, "candidate">>}
    /\ gone' = FALSE
    /\ UNCHANGED <<rows, children, link, candidate, torn, kept, promoted, stranded>>

UploadRow(w) ==
    /\ worker[w].stage = "uploaded"
    /\ rows' = [rows EXCEPT ![worker[w].at] = OwnedBy("candidate")]
    /\ Step(w, Free)
    /\ UNCHANGED <<blobs, children, link, candidate, fileHistory>>

\* import_from_drive: _drive_fetch is awaited first, and refuses with a 422; then it is an
\* upload like any other, of a candidate who may be gone by now.
DriveFetch(w) ==
    /\ Begin(w, [stage |-> "fetched"])
    /\ UNCHANGED <<rows, blobs, children, link, candidate, fileHistory>>

DriveStore(w, d) ==
    /\ worker[w].stage = "fetched"
    /\ Unused(d)
    /\ Step(w, [stage |-> "uploaded", at |-> d])
    /\ blobs' = blobs \union {<<d, "candidate">>}
    /\ gone' = FALSE
    /\ UNCHANGED <<rows, children, link, candidate, torn, kept, promoted, stranded>>

\* delete_document: the row is read, then the object and the row are deleted.
DeleteGet(w, d) ==
    /\ rows[d] # NoRow
    /\ Begin(w, [stage |-> "deleting", at |-> d, key |-> rows[d].key])
    /\ TakeUp({d})
    /\ promoted' = promoted \ {d}
    /\ UNCHANGED <<rows, blobs, children, link, candidate, kept, gone, stranded>>

DeleteBlob(w) ==
    /\ worker[w].stage = "deleting"
    /\ blobs' = blobs \ {<<worker[w].at, worker[w].key>>}
    /\ Step(w, [stage |-> "emptied", at |-> worker[w].at])
    /\ UNCHANGED <<rows, children, link, candidate, fileHistory>>

DeleteRow(w) ==
    /\ worker[w].stage = "emptied"
    /\ rows' = [rows EXCEPT ![worker[w].at] = NoRow]
    /\ Step(w, Free)
    /\ UNCHANGED <<blobs, children, link, candidate, fileHistory>>

\* A webhook, form or HR write of another record: read, then the whole document back.
ChildRead(w, child) ==
    /\ child \in children
    /\ Begin(w, [stage |-> "writing", child |-> child])
    /\ UNCHANGED <<rows, blobs, children, link, candidate, fileHistory>>

ChildWrite(w) ==
    /\ worker[w].stage = "writing"
    /\ children' = children \union {worker[w].child}
    /\ Step(w, Free)
    /\ UNCHANGED <<rows, blobs, link, candidate, fileHistory>>

-----------------------------------------------------------------------------
\* promote_candidate_documents.

PromoteFind(w) ==
    /\ CandidateDocs # {}
    /\ Begin(w, [stage |-> "promoting", list |-> CandidateDocs])
    /\ TakeUp(CandidateDocs)
    /\ UNCHANGED <<rows, blobs, children, link, candidate, kept, promoted, gone, stranded>>

\* storage.get and storage.put.
PromoteCopy(w, d) ==
    /\ worker[w].stage = "promoting"
    /\ d \in worker[w].list
    /\ <<d, "candidate">> \in blobs
    /\ blobs' = blobs \union {<<d, "employee">>}
    /\ Step(w, [stage |-> "copied", at |-> d, list |-> worker[w].list \ {d}])
    /\ UNCHANGED <<rows, children, link, candidate, fileHistory>>

\* "a missing/unreadable blob must not block promotion".
PromoteSkip(w, d) ==
    /\ worker[w].stage = "promoting"
    /\ d \in worker[w].list
    /\ Step(w, [worker[w] EXCEPT !.list = @ \ {d}])
    /\ UNCHANGED <<rows, blobs, children, link, candidate, fileHistory>>

\* The old object is deleted, or stays and is logged.
PromoteDropOld(w) ==
    /\ worker[w].stage = "copied"
    /\ LET d == worker[w].at IN
       \/ blobs' = blobs \ {<<d, "candidate">>} /\ kept' = kept
       \/ blobs' = blobs /\ kept' = kept \union {d}
    /\ Step(w, [worker[w] EXCEPT !.stage = "moved"])
    /\ UNCHANGED <<rows, children, link, candidate, torn, promoted, gone, stranded>>

\* Mutant: the row names the new key and keeps its owner.
PromoteKeyOnly(w) ==
    /\ worker[w].stage = "moved"
    /\ LET d == worker[w].at IN
       /\ rows' = [rows EXCEPT ![d] = [owner |-> "candidate", key |-> "employee"]]
       /\ promoted' = promoted \union {d}
    /\ Step(w, [stage |-> "promoting", list |-> worker[w].list])
    /\ UNCHANGED <<blobs, children, link, candidate, torn, kept, gone, stranded>>

PromoteRow(w) ==
    /\ worker[w].stage = "moved"
    /\ LET d == worker[w].at IN
       /\ rows' = [rows EXCEPT ![d] = OwnedBy("employee")]
       /\ promoted' = promoted \union {d}
    /\ Step(w, [stage |-> "promoting", list |-> worker[w].list])
    /\ UNCHANGED <<blobs, children, link, candidate, torn, kept, gone, stranded>>

PromoteEnd(w) ==
    /\ worker[w].stage = "promoting"
    /\ worker[w].list = {}
    /\ Step(w, Free)
    /\ UNCHANGED <<rows, blobs, children, link, candidate, fileHistory>>

-----------------------------------------------------------------------------
\* delete_candidate.  It may be called again, also after it has died halfway.

CascadeFind(w) ==
    /\ Begin(w, [stage |-> "found", event |-> "interview" \in children,
                 alone |-> \A v \in Workers \ {w} : worker[v] = Free])
    /\ UNCHANGED <<rows, blobs, children, link, candidate, fileHistory>>

CascadeChildren(w) ==
    /\ worker[w].stage = "found"
    /\ children' = IF worker[w].event THEN children \ {"interview"} ELSE children
    /\ Step(w, [worker[w] EXCEPT !.stage = "unscheduled"])
    /\ UNCHANGED <<rows, blobs, link, candidate, fileHistory>>

\* cleanup_calendar_events for the interviews found: the link goes whatever Google says.
CascadeCalendar(w) ==
    /\ worker[w].stage = "unscheduled"
    /\ link' = (link /\ ~worker[w].event)
    /\ Step(w, [worker[w] EXCEPT !.stage = "cleaned"])
    /\ UNCHANGED <<rows, blobs, children, candidate, fileHistory>>

CascadeByKey(w) ==
    /\ worker[w].stage = "cleaned"
    /\ children' = children \ {"bgv"}
    /\ Step(w, [worker[w] EXCEPT !.stage = "unkeyed"])
    /\ UNCHANGED <<rows, blobs, link, candidate, fileHistory>>

CascadeList(w) ==
    /\ worker[w].stage = "unkeyed"
    /\ Step(w, [stage |-> "sweeping", list |-> CandidateDocs, alone |-> worker[w].alone])
    /\ TakeUp(CandidateDocs)
    /\ UNCHANGED <<rows, blobs, children, link, candidate, kept, promoted, gone, stranded>>

\* The object is deleted, or stays and is logged.
CascadeBlob(w, d) ==
    /\ worker[w].stage = "sweeping"
    /\ d \in worker[w].list
    /\ \/ blobs' = blobs \ {<<d, "candidate">>} /\ kept' = kept
       \/ blobs' = blobs /\ kept' = kept \union {d}
    /\ Step(w, [stage |-> "swept", at |-> d, list |-> worker[w].list \ {d}, alone |-> worker[w].alone])
    /\ UNCHANGED <<rows, children, link, candidate, torn, promoted, gone, stranded>>

CascadeRow(w) ==
    /\ worker[w].stage = "swept"
    /\ rows' = [rows EXCEPT ![worker[w].at] = NoRow]
    /\ Step(w, [stage |-> "sweeping", list |-> worker[w].list, alone |-> worker[w].alone])
    /\ UNCHANGED <<blobs, children, link, candidate, fileHistory>>

CascadeCandidate(w) ==
    /\ worker[w].stage = "sweeping"
    /\ worker[w].list = {}
    /\ candidate' = FALSE
    /\ gone' = worker[w].alone
    /\ Step(w, Free)
    /\ UNCHANGED <<rows, blobs, children, link, torn, kept, promoted, stranded>>

-----------------------------------------------------------------------------
\* A failed statement or storage call that is not caught, or a dead process.

Die(w) ==
    /\ worker[w] # Free
    /\ torn' = torn \union InHand(w)
    /\ stranded' = (stranded \/ (worker[w].stage = "unscheduled" /\ worker[w].event))
    /\ Step(w, Free)
    /\ UNCHANGED <<rows, blobs, children, link, candidate, kept, promoted, gone>>

FileInit ==
    /\ rows = [d \in Docs |-> NoRow]
    /\ blobs = {}
    /\ children = Children
    /\ link = TRUE
    /\ candidate = TRUE
    /\ worker = [w \in Workers |-> Free]
    /\ torn = {} /\ kept = {} /\ promoted = {}
    /\ gone = FALSE /\ stranded = FALSE

FileNext ==
    \E w \in Workers :
        \/ \E d \in Docs : \/ UploadBlob(w, d) \/ DriveStore(w, d) \/ DeleteGet(w, d)
                           \/ PromoteCopy(w, d) \/ PromoteSkip(w, d) \/ CascadeBlob(w, d)
        \/ DriveFetch(w) \/ UploadRow(w) \/ DeleteBlob(w) \/ DeleteRow(w)
        \/ \E child \in Children : ChildRead(w, child)
        \/ ChildWrite(w)
        \/ PromoteFind(w) \/ PromoteDropOld(w) \/ PromoteRow(w) \/ PromoteEnd(w)
        \/ CascadeFind(w) \/ CascadeChildren(w) \/ CascadeCalendar(w) \/ CascadeByKey(w)
        \/ CascadeList(w) \/ CascadeRow(w) \/ CascadeCandidate(w)
        \/ Die(w)

FileSpec == FileInit /\ [][FileNext]_fileVars

-----------------------------------------------------------------------------
\* Properties.

\* A documents row that nobody is working on names an S3 object that exists, however
\* uploads, promotions, deletions and cascades overlap; except a document that two of them
\* held at once, or that one died on (candidate_promote.py:53 deletes the old object
\* before line 59 names the new one).
RowsHaveBlobs ==
    \A d \in Docs \ (InWork \union torn) : rows[d] # NoRow => <<d, rows[d].key>> \in blobs

\* "a later cleanup-delete of the stale candidate record can't sweep up documents that now
\* belong to a real employee" (candidate_promote.py:6-8): once promoted, a document stays the
\* employee's until HR deletes it, unless a cascade had listed it before.
PromotedStays ==
    \A d \in promoted \ torn : rows[d] = OwnedBy("employee") /\ <<d, "employee">> \in blobs

\* "Deleting a candidate must also remove every record that hangs off them"
\* (candidate_delete.py:3): a cascade that overlapped nothing leaves no record, document,
\* object or calendar link, whatever cascades, promotions and uploads died before it; except
\* objects S3 refused to delete, objects without a row, and the event of an interview that
\* an earlier cascade deleted before dying.
DeletedIsGone ==
    gone => /\ ~candidate /\ children = {} /\ CandidateDocs = {}
            /\ link => stranded
            /\ \A d \in Docs : <<d, "candidate">> \in blobs => d \in kept \union torn

\* A documents row names an object that exists, a promoted document stays the employee's, and
\* a cascade that overlapped nothing leaves nothing of the candidate.
DocumentsStand == RowsHaveBlobs /\ PromotedStays /\ DeletedIsGone

-----------------------------------------------------------------------------
\* What keeps the three, as one inductive invariant.

\* What w is doing with d.
Work(w, d) ==
    IF d \in InHand(w) THEN worker[w].stage ELSE IF d \in Listed(w) THEN "listed" ELSE "none"

\* The candidate's object of d is left behind only if its deletion failed.
Cleared(d) == <<d, "candidate">> \in blobs => d \in kept

\* What row and objects of d are when nobody works on it, and at each point of the work.
Settled(d) ==
    /\ rows[d] # NoRow => <<d, rows[d].key>> \in blobs
    /\ rows[d] # OwnedBy("candidate") => Cleared(d)

Candidates(d) == rows[d] = OwnedBy("candidate") /\ <<d, "candidate">> \in blobs

Reached(w, d) ==
    /\ Work(w, d) = "listed" => Candidates(d)
    /\ Work(w, d) = "uploaded" => rows[d] = NoRow /\ <<d, "candidate">> \in blobs
    /\ Work(w, d) = "deleting" => worker[w].key = rows[d].key /\ Settled(d)
    /\ Work(w, d) = "copied" => Candidates(d) /\ <<d, "employee">> \in blobs
    /\ Work(w, d) = "moved" =>
         rows[d] = OwnedBy("candidate") /\ <<d, "employee">> \in blobs /\ Cleared(d)
    /\ Work(w, d) \in {"emptied", "swept"} => Cleared(d)

\* A document that is not torn is in one worker's hands at most, and at the point of the work
\* that it has reached; once promoted, it is in nobody's.
DocStands(d) ==
    /\ \A v, w \in Workers : Work(v, d) # "none" /\ Work(w, d) # "none" => v = w
    /\ (\A w \in Workers : Work(w, d) = "none") => Settled(d)
    /\ \A w \in Workers : Reached(w, d)
    /\ d \in promoted =>
         rows[d] = OwnedBy("employee") /\ \A w \in Workers : Work(w, d) = "none"

\* The document in hand is off the list.
OffTheList == \A w \in Workers : InHand(w) \intersect Listed(w) = {}

\* An interview that goes takes its event with it, unless its cascade dies in between.
LinkGoes ==
    link /\ "interview" \notin children /\ ~stranded =>
        \E w \in Workers : worker[w].stage = "unscheduled" /\ worker[w].event

\* What a cascade that runs alone has achieved so far.
AloneSoFar(w) ==
    worker[w].stage \in Cascading /\ worker[w].alone =>
        /\ \A v \in Workers \ {w} : worker[v] = Free
        /\ worker[w].stage = "found" => (worker[w].event <=> "interview" \in children)
        /\ worker[w].stage # "found" => "interview" \notin children
        /\ worker[w].stage \in {"unkeyed", "sweeping", "swept"} => children = {}
        /\ worker[w].stage \in {"sweeping", "swept"} =>
             /\ CandidateDocs \subseteq InHand(w) \union Listed(w)
             /\ \A d \in Docs : <<d, "candidate">> \in blobs => d \in kept \union torn \union Listed(w)

\* Once all is gone, nobody is at work on anything of the candidate.
NobodyAtWork ==
    gone => \A w \in Workers :
        /\ worker[w].stage \in {"idle", "fetched", "deleting", "emptied", "sweeping"} \union
                                {"found", "unscheduled", "cleaned", "unkeyed"}
        /\ Listed(w) = {}

FileIInv ==
    /\ FileTypeOK /\ OffTheList /\ LinkGoes
    /\ \A d \in Docs \ torn : DocStands(d)
    /\ \A w \in Workers : AloneSoFar(w)
    /\ DeletedIsGone /\ NobodyAtWork
=============================================================================
