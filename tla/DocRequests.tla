---------------------------- MODULE DocRequests ----------------------------
(***************************************************************************)
(* One joining-documents link (app/api/routes/doc_requests.py): the        *)
(* candidate uploads and confirms documents and fills in forms, HR reads   *)
(* and reviews them.  Every operation reads the whole request, works on    *)
(* its copy, for as long as an upload, an S3 write or OCR takes, and       *)
(* writes the whole request back.                                          *)
(***************************************************************************)
EXTENDS FiniteSets

CONSTANTS DocTypes,      \* the required documents that are uploaded as files
          Files,         \* document ids, one per accepted upload
          Handlers,      \* threads serving requests on this link
          NeedsConsent,  \* needs_consent: FALSE for employees and signed letters
          BankRequired   \* is BANK_DOC_TYPE among requiredDocs?

ASSUME FlagsAssumption == NeedsConsent \in BOOLEAN /\ BankRequired \in BOOLEAN

VARIABLES request,    \* the doc_requests row
          documents,  \* the documents table: what has been stored
          bgv,        \* extractedFields of the candidate's bgvs row
          handler,    \* what each thread is doing
          approved,   \* history: files HR marked Verified
          told,       \* history: what the last successful answer on a type said, until torn
          torn        \* history: two copies of the request were open at once

vars == <<request, documents, bgv, handler, approved, told, torn>>

-----------------------------------------------------------------------------

NoSubmission == [file |-> "none", status |-> "none", fields |-> "none"]

\* fields: no extraction block, a block without values, or the document whose
\* values it holds, read off it or typed in for it.
Submission == [file : Files, status : {"Submitted", "Verified", "Rejected"},
               fields : Files \union {"none", "blank"}]
DocRequest == [status : {"Pending", "Submitted", "Verified"}, consent : BOOLEAN,
               bank : BOOLEAN, submissions : [DocTypes -> Submission \union {NoSubmission}]]

Op == [kind : {"upload"}, type : DocTypes, file : Files]
        \union [kind : {"confirm"}, type : DocTypes]
        \union [kind : {"extract"}, type : DocTypes]
        \union [kind : {"review"}, type : DocTypes, verdict : {"Verified", "Rejected"}]
        \union [kind : {"patch"}, field : {"consent", "bank"}]

Idle == [stage |-> "idle"]
Serving == [stage : {"copied", "stored"}, op : Op, copy : DocRequest]
Approved == [stage : {"approved"}, type : DocTypes, fields : Files]
Fields == Files \union {"none"}
Mirroring == [stage : {"mirroring"}, type : DocTypes, fields : Files,
              copy : [DocTypes -> Fields]]

TypeOK ==
    /\ request \in DocRequest
    /\ documents \subseteq Files
    /\ bgv \in [DocTypes -> Fields]
    /\ handler \in [Handlers -> {Idle} \union Serving \union Approved \union Mirroring]
    /\ approved \in [DocTypes -> SUBSET Files]
    /\ told \in [DocTypes -> [file : Files \union {"none"},
                              status : {"none", "Submitted", "Verified", "Rejected"}]]
    /\ torn \in BOOLEAN

NothingTold == [t \in DocTypes |-> [file |-> "none", status |-> "none"]]

Uploaded(r) == {t \in DocTypes : r.submissions[t] # NoSubmission}

\* is_fully_submitted: files are counted by their upload, forms by being filled.
IsFullySubmitted(r) == Uploaded(r) = DocTypes /\ (BankRequired => r.bank)

\* _overall_status: it looks at the required types that were uploaded, and a
\* request that is Verified stays Verified.
OverallStatus(r) ==
    IF Uploaded(r) # {} /\ \A t \in Uploaded(r) : r.submissions[t].status = "Verified"
    THEN "Verified" ELSE r.status

-----------------------------------------------------------------------------
\* Every operation starts by reading the request; its refusals change nothing.
\* An expired link refuses uploads and confirmations from some moment on: Load is
\* never forced, so those behaviours are among the ones modelled.

Accepts(op) ==
    LET s == request.submissions[op.type] IN
    CASE op.kind = "upload"  -> /\ NeedsConsent => request.consent
                                /\ s.status # "Verified"
      [] op.kind = "confirm" -> /\ s # NoSubmission
                                /\ s.status # "Verified"
                                /\ s.fields # "none"
      [] op.kind \in {"extract", "review"} -> s # NoSubmission
      [] op.kind = "patch"   -> TRUE

\* Each upload is a document of its own.
Fresh(file) ==
    /\ file \notin documents
    /\ \A h \in Handlers : handler[h].stage = "copied" /\ handler[h].op.kind = "upload"
                             => handler[h].op.file # file

OpenCopies == {h \in Handlers : handler[h].stage \in {"copied", "stored"}}

Load(h, op) ==
    /\ handler[h] = Idle
    /\ Accepts(op)
    /\ op.kind = "upload" => Fresh(op.file)
    /\ handler' = [handler EXCEPT ![h] = [stage |-> "copied", op |-> op, copy |-> request]]
    /\ torn' = (torn \/ OpenCopies # {})
    /\ told' = IF torn' THEN NothingTold ELSE told
    /\ UNCHANGED <<request, documents, bgv, approved>>

\* storage.put and the row of the documents table.
StoreFile(h) ==
    /\ handler[h].stage = "copied"
    /\ handler[h].op.kind = "upload"
    /\ documents' = documents \union {handler[h].op.file}
    /\ handler' = [handler EXCEPT ![h].stage = "stored"]
    /\ UNCHANGED <<request, bgv, approved, told, torn>>

\* Thread h is about to write back its copy for an operation of this kind.
Writing(h, kind) ==
    /\ handler[h].stage = IF kind = "upload" THEN "stored" ELSE "copied"
    /\ handler[h].op.kind = kind

Type(h) == handler[h].op.type
Copy(h) == handler[h].copy
Finish(h) == handler' = [handler EXCEPT ![h] = Idle]
Tell(t, s) ==
    told' = IF torn THEN told ELSE [told EXCEPT ![t] = [file |-> s.file, status |-> s.status]]

\* Mutant: a re-upload keeps the extraction of the document it replaces.
FinishUploadKeepingFields(h) ==
    /\ Writing(h, "upload")
    /\ LET new == [file |-> handler[h].op.file, status |-> "Submitted",
                   fields |-> Copy(h).submissions[Type(h)].fields]
       IN /\ request' = [Copy(h) EXCEPT !.submissions[Type(h)] = new]
          /\ Tell(Type(h), new)
    /\ Finish(h)
    /\ UNCHANGED <<documents, bgv, approved, torn>>

\* extract_submission: a block, without values when the file or its text is unreadable.
ExtractSubmission(file) == {"blank", file}

\* _extract_on_upload: no block when OCR is missing, busy, fails or knows no such type.
ExtractOnUpload(file) == {"none"} \union ExtractSubmission(file)

\* The new submission replaces the one of its type.
FinishUpload(h) ==
    /\ Writing(h, "upload")
    /\ \E fields \in ExtractOnUpload(handler[h].op.file) :
         LET new == [file |-> handler[h].op.file, status |-> "Submitted", fields |-> fields]
             r == [Copy(h) EXCEPT !.submissions[Type(h)] = new]
         IN /\ request' = IF IsFullySubmitted(r) /\ r.status # "Verified"
                          THEN [r EXCEPT !.status = "Submitted"] ELSE r
            /\ Tell(Type(h), new)
    /\ Finish(h)
    /\ UNCHANGED <<documents, bgv, approved, torn>>

\* _apply_candidate_edits: values are added to a block or changed; what a machine check
\* confirmed is not editable.
ApplyCandidateEdits(fields, file) == IF fields = "blank" THEN {"blank", file} ELSE {fields}

FinishConfirm(h) ==
    /\ Writing(h, "confirm")
    /\ LET old == Copy(h).submissions[Type(h)] IN
       \E fields \in ApplyCandidateEdits(old.fields, old.file) :
         request' = [Copy(h) EXCEPT !.submissions[Type(h)].fields = fields]
    /\ Finish(h)
    /\ UNCHANGED <<documents, bgv, approved, told, torn>>

\* Mutant: reading the document again reopens its review.
FinishExtractReopening(h) ==
    /\ Writing(h, "extract")
    /\ request' = [Copy(h) EXCEPT !.submissions[Type(h)].fields = "blank",
                                 !.submissions[Type(h)].status = "Submitted"]
    /\ Finish(h)
    /\ UNCHANGED <<documents, bgv, approved, told, torn>>

\* extract_submission_fields reads the document that the copy names.
FinishExtract(h) ==
    /\ Writing(h, "extract")
    /\ \E fields \in ExtractSubmission(Copy(h).submissions[Type(h)].file) :
         request' = [Copy(h) EXCEPT !.submissions[Type(h)].fields = fields]
    /\ Finish(h)
    /\ UNCHANGED <<documents, bgv, approved, told, torn>>

\* Mutants: rejected values, or no values, go to the BGV record.
MirroredWhenRejected(verdict, fields) == fields \notin {"none", "blank"}
MirroredWhenEmpty(verdict, fields) == verdict = "Verified"

\* Only an approval with values is mirrored.
Mirrored(verdict, fields) == verdict = "Verified" /\ fields \notin {"none", "blank"}

\* review_submission: HR's values, which may be none, and verdict.  The request
\* names the document's type, not the document HR looked at.
FinishReview(h) ==
    /\ Writing(h, "review")
    /\ LET old == Copy(h).submissions[Type(h)]
       IN \E fields \in {"blank", old.fields, old.file} :
            LET new == [file |-> old.file, status |-> handler[h].op.verdict, fields |-> fields]
                r == [Copy(h) EXCEPT !.submissions[Type(h)] = new]
            IN /\ request' = [r EXCEPT !.status = OverallStatus(r)]
               /\ Tell(Type(h), new)
               /\ approved' = IF new.status = "Verified" THEN [approved EXCEPT ![Type(h)] = @ \union {old.file}]
                              ELSE approved
               /\ handler' = [handler EXCEPT ![h] =
                    IF Mirrored(new.status, fields)
                    THEN [stage |-> "approved", type |-> Type(h), fields |-> fields] ELSE Idle]
    /\ UNCHANGED <<documents, bgv, torn>>

\* Mutant: the public PATCH may write any key of the request.
FinishAnyPatch(h) ==
    /\ Writing(h, "patch")
    /\ request' = [Copy(h) EXCEPT !.consent = TRUE,
                     !.submissions = [t \in DocTypes |->
                        IF t \in Uploaded(Copy(h)) THEN [@[t] EXCEPT !.status = "Verified"]
                        ELSE NoSubmission]]
    /\ Finish(h)
    /\ UNCHANGED <<documents, bgv, approved, told, torn>>

\* The candidate's PATCH on the generic router: only _PUBLIC_PATCH_FIELDS.  The
\* consent is given and the bank form filled; emptying them again is left out.
FinishPatch(h) ==
    /\ Writing(h, "patch")
    /\ request' = IF handler[h].op.field = "consent" THEN [Copy(h) EXCEPT !.consent = TRUE]
                  ELSE [Copy(h) EXCEPT !.bank = TRUE]
    /\ Finish(h)
    /\ UNCHANGED <<documents, bgv, approved, told, torn>>

\* _mirror_to_bgv, after the review is written: read the BGV row, write it back.
MirrorRead(h) ==
    /\ handler[h].stage = "approved"
    /\ handler' = [handler EXCEPT ![h] = [stage |-> "mirroring", type |-> @.type,
                                          fields |-> @.fields, copy |-> bgv]]
    /\ UNCHANGED <<request, documents, bgv, approved, told, torn>>

MirrorWrite(h) ==
    /\ handler[h].stage = "mirroring"
    /\ bgv' = [Copy(h) EXCEPT ![handler[h].type] = handler[h].fields]
    /\ Finish(h)
    /\ UNCHANGED <<request, documents, approved, told, torn>>

\* An exception or a dead process: what was written stays.
Crash(h) ==
    /\ handler[h] # Idle
    /\ Finish(h)
    /\ UNCHANGED <<request, documents, bgv, approved, told, torn>>

-----------------------------------------------------------------------------

Init ==
    /\ request = [status |-> "Pending", consent |-> FALSE, bank |-> FALSE,
                  submissions |-> [t \in DocTypes |-> NoSubmission]]
    /\ documents = {}
    /\ bgv = [t \in DocTypes |-> "none"]
    /\ handler = [h \in Handlers |-> Idle]
    /\ approved = [t \in DocTypes |-> {}]
    /\ told = NothingTold
    /\ torn = FALSE

Next ==
    \/ \E h \in Handlers :
         \/ \E op \in Op : Load(h, op)
         \/ StoreFile(h)
         \/ FinishUpload(h) \/ FinishConfirm(h) \/ FinishExtract(h)
         \/ FinishReview(h) \/ FinishPatch(h)
         \/ MirrorRead(h) \/ MirrorWrite(h)
         \/ Crash(h)

Spec == Init /\ [][Next]_vars

-----------------------------------------------------------------------------
\* Properties.

\* "a candidate must not be able to approve their own identity papers"
\* (doc_requests.py:300): however the operations overlap, a Verified submission
\* carries a document that HR marked Verified.
VerifiedByHR ==
    \A t \in DocTypes :
        request.submissions[t].status = "Verified" => request.submissions[t].file \in approved[t]

\* However the operations overlap, the values shown for a document were read off
\* that document or typed in for it, and the document was stored.
FieldsBelongToFile ==
    \A t \in Uploaded(request) :
        LET s == request.submissions[t] IN
        s.file \in documents /\ s.fields \in {s.file, "none", "blank"}

\* The BGV record holds values of documents that HR approved.
MirrorIsApproved == \A t \in DocTypes : bgv[t] \in approved[t] \union {"none"}

\* An upload or a review that was answered with success is in the request, unless
\* two operations held copies of it at once.
AnswersAreKept ==
    ~torn => \A t \in DocTypes :
        LET s == request.submissions[t] IN told[t] = [file |-> s.file, status |-> s.status]

\* "A verified document is locked [...] it can never be overwritten"
\* (doc_requests.py:171-172).
VerifiedIsLocked ==
    [][\A t \in DocTypes : request.submissions[t].status = "Verified" =>
         request'.submissions[t].file = request.submissions[t].file]_vars
-----------------------------------------------------------------------------
\* The inductive invariant: a handler writes back a copy it read earlier, so what holds of
\* the request must hold of every copy, given the documents stored and the files approved,
\* which are never taken back.

SoundRequest(r, stored, good) ==
    /\ r \in DocRequest
    /\ \A t \in DocTypes : r.submissions[t].status = "Verified" => r.submissions[t].file \in good[t]
    /\ \A t \in Uploaded(r) : /\ r.submissions[t].file \in stored
                              /\ r.submissions[t].fields \in {r.submissions[t].file, "none", "blank"}

SoundMirror(m, good) == \A t \in DocTypes : m[t] \in good[t] \union {"none"}

\* What is true of a thread at each stage.
SoundHandler(state, stored, good) ==
    /\ state.stage \in {"copied", "stored"} => SoundRequest(state.copy, stored, good)
    /\ state.stage = "stored" => state.op.kind = "upload" /\ state.op.file \in stored
    /\ state.stage = "copied" /\ state.op.kind \in {"confirm", "extract", "review"}
         => state.copy.submissions[state.op.type] # NoSubmission
    /\ state.stage \in {"approved", "mirroring"} => state.fields \in good[state.type]
    /\ state.stage = "mirroring" => SoundMirror(state.copy, good)

IInv ==
    /\ TypeOK
    /\ SoundRequest(request, documents, approved)
    /\ SoundMirror(bgv, approved)
    /\ \A h \in Handlers : SoundHandler(handler[h], documents, approved)

\* Until a second copy is taken, the one copy is the request; with that, AnswersAreKept is
\* inductive.
OneOpenCopy ==
    torn \/ \A h \in OpenCopies : Copy(h) = request /\ \A g \in OpenCopies : g = h
=============================================================================
