-------------------------- MODULE Documents_proofs --------------------------
(*************************************************************************)
(* Proofs about the documents of a joiner: DocRequests for any document  *)
(* types, files and number of threads, with and without consent and the  *)
(* bank form; SharedDocuments for any links, threads and number of       *)
(* documents; DocumentReading for any valid card numbers and any other   *)
(* numbers that are not valid.                                           *)
(*************************************************************************)
EXTENDS DocRequests, SharedDocuments, DocumentReading, SequenceTheorems,
        WellFoundedInduction, TLAPS

(*************************************************************************)
(* One documents link.                                                   *)
(*************************************************************************)

StoredFiles == SUBSET Files
GoodFiles == [DocTypes -> SUBSET Files]
HandlerState == {Idle} \union Serving \union Approved \union Mirroring

(***************************************************************************)
(* Requests and submissions.                                               *)
(***************************************************************************)

\* Writing one submission leaves the others, and the rest of the request, alone.
LEMMA PutSubmission ==
    ASSUME NEW r \in DocRequest, NEW t \in DocTypes, NEW s \in Submission
    PROVE  LET q == [r EXCEPT !.submissions[t] = s] IN
           /\ q \in DocRequest
           /\ q.submissions[t] = s
           /\ \A u \in DocTypes : u # t => q.submissions[u] = r.submissions[u]
BY DEF DocRequest

\* So does changing the values of one that is there.
LEMMA PutFields ==
    ASSUME NEW r \in DocRequest, NEW t \in DocTypes, r.submissions[t] \in Submission,
           NEW f \in Files \union {"none", "blank"}
    PROVE  LET s == [file |-> r.submissions[t].file, status |-> r.submissions[t].status,
                     fields |-> f]
           IN s \in Submission
              /\ [r EXCEPT !.submissions[t].fields = f] = [r EXCEPT !.submissions[t] = s]
BY DEF DocRequest, Submission

\* A request stays sound when a sound submission is put into it.
LEMMA PutSound ==
    ASSUME NEW stored \in StoredFiles, NEW good \in GoodFiles,
           NEW r, SoundRequest(r, stored, good), NEW t \in DocTypes, NEW s \in Submission,
           s.file \in stored, s.fields \in {s.file, "none", "blank"},
           s.status = "Verified" => s.file \in good[t]
    PROVE  SoundRequest([r EXCEPT !.submissions[t] = s], stored, good)
<1>1. r \in DocRequest
  BY DEF SoundRequest
<1> DEFINE q == [r EXCEPT !.submissions[t] = s]
<1>2. /\ q \in DocRequest
      /\ q.submissions[t] = s
      /\ \A u \in DocTypes : u # t => q.submissions[u] = r.submissions[u]
  BY <1>1, PutSubmission
<1> HIDE DEF q
<1>3. SoundRequest(q, stored, good)
  BY <1>2 DEF SoundRequest, Uploaded
<1> QED
  BY <1>3 DEF q

\* The other parts of the request have no share in its being sound.
LEMMA PutRest ==
    ASSUME NEW stored \in StoredFiles, NEW good \in GoodFiles,
           NEW r, SoundRequest(r, stored, good)
    PROVE  /\ \A state \in {"Pending", "Submitted", "Verified"} :
                SoundRequest([r EXCEPT !.status = state], stored, good)
           /\ SoundRequest([r EXCEPT !.consent = TRUE], stored, good)
           /\ SoundRequest([r EXCEPT !.bank = TRUE], stored, good)
BY DEF SoundRequest, DocRequest, Uploaded

\* What is sound stays so when files are stored and approvals are given.
LEMMA RequestStaysSound ==
    ASSUME NEW stored \in StoredFiles, NEW good \in GoodFiles, NEW r, SoundRequest(r, stored, good),
           NEW stored1 \in StoredFiles, NEW good1 \in GoodFiles, stored \subseteq stored1,
           \A t \in DocTypes : good[t] \subseteq good1[t]
    PROVE  SoundRequest(r, stored1, good1)
BY DEF SoundRequest

LEMMA HandlerStaysSound ==
    ASSUME NEW stored \in StoredFiles, NEW good \in GoodFiles, NEW state \in HandlerState,
           SoundHandler(state, stored, good),
           NEW stored1 \in StoredFiles, NEW good1 \in GoodFiles, stored \subseteq stored1,
           \A t \in DocTypes : good[t] \subseteq good1[t]
    PROVE  SoundHandler(state, stored1, good1)
<1>1. state.stage \in {"copied", "stored"} => SoundRequest(state.copy, stored1, good1)
  BY RequestStaysSound DEF SoundHandler
<1>2. state.stage \in {"approved", "mirroring"} => state.fields \in good1[state.type]
  BY DEF SoundHandler, HandlerState, Idle, Serving, Approved, Mirroring
<1>3. state.stage = "mirroring" => SoundMirror(state.copy, good1)
  BY DEF SoundHandler, SoundMirror
<1> QED
  BY <1>1, <1>2, <1>3 DEF SoundHandler

(***************************************************************************)
(* One step of one thread.                                                 *)
(***************************************************************************)

Answer == [file : Files \union {"none"}, status : {"none", "Submitted", "Verified", "Rejected"}]

\* What a thread must see to when it moves to a state and leaves the others alone.
LEMMA OneThread ==
    ASSUME IInv, NEW h \in Handlers, NEW state \in HandlerState,
           handler' = [handler EXCEPT ![h] = state],
           documents \subseteq documents', documents' \in StoredFiles,
           \A t \in DocTypes : approved[t] \subseteq approved'[t], approved' \in GoodFiles,
           SoundRequest(request', documents', approved'),
           bgv' \in [DocTypes -> Fields], SoundMirror(bgv', approved'),
           SoundHandler(state, documents', approved'),
           told' \in [DocTypes -> Answer], torn' \in BOOLEAN
    PROVE  IInv'
<1>1. documents \in StoredFiles /\ approved \in GoodFiles /\ handler \in [Handlers -> HandlerState]
  BY DEF IInv, TypeOK, StoredFiles, GoodFiles, HandlerState
<1>2. handler' \in [Handlers -> HandlerState]
  BY <1>1
<1>3. ASSUME NEW k \in Handlers
      PROVE  SoundHandler(handler'[k], documents', approved')
  <2>1. CASE k = h
    BY <2>1, <1>1
  <2>2. CASE k # h
    <3>1. handler'[k] = handler[k] /\ handler[k] \in HandlerState
      BY <2>2, <1>1
    <3>2. SoundHandler(handler[k], documents, approved)
      BY DEF IInv
    <3> QED
      BY <3>1, <3>2, <1>1, HandlerStaysSound
  <2> QED
    BY <2>1, <2>2
<1>4. TypeOK'
  BY <1>2 DEF TypeOK, StoredFiles, GoodFiles, HandlerState, Answer, SoundRequest
<1> QED
  BY <1>3, <1>4 DEF IInv

\* The facts every step starts from.
LEMMA DocsKnown ==
    ASSUME IInv
    PROVE  /\ documents \in StoredFiles /\ approved \in GoodFiles
           /\ handler \in [Handlers -> HandlerState]
           /\ bgv \in [DocTypes -> Fields] /\ SoundMirror(bgv, approved)
           /\ request \in DocRequest /\ SoundRequest(request, documents, approved)
           /\ told \in [DocTypes -> Answer] /\ torn \in BOOLEAN
           /\ \A h \in Handlers : SoundHandler(handler[h], documents, approved)
BY DEF IInv, TypeOK, StoredFiles, GoodFiles, HandlerState, Answer

\* A thread with no copy has nothing that could be unsound.
LEMMA IdleIsSound ==
    ASSUME NEW stored, NEW good
    PROVE  Idle \in HandlerState /\ SoundHandler(Idle, stored, good)
BY DEF HandlerState, Idle, SoundHandler

\* A thread that is about to write holds a sound copy.
LEMMA WritingIsServing ==
    ASSUME IInv, NEW h \in Handlers, NEW kind, Writing(h, kind)
    PROVE  /\ handler[h] \in Serving
           /\ Copy(h) \in DocRequest
           /\ SoundRequest(Copy(h), documents, approved)
           /\ handler[h].op \in Op /\ handler[h].op.kind = kind
<1>1. handler[h] \in HandlerState /\ handler[h].stage \in {"copied", "stored"}
  BY DocsKnown DEF Writing
<1>2. handler[h] \in Serving
  BY <1>1 DEF HandlerState, Idle, Serving, Approved, Mirroring
<1>3. SoundHandler(handler[h], documents, approved)
  BY DocsKnown
<1> QED
  BY <1>1, <1>2, <1>3 DEF SoundHandler, Serving, Copy, Writing

\* An operation on a submission names one that its copy has.
LEMMA WritingOnSubmission ==
    ASSUME IInv, NEW h \in Handlers, NEW kind \in {"confirm", "extract", "review"},
           Writing(h, kind)
    PROVE  /\ Type(h) \in DocTypes
           /\ Copy(h).submissions[Type(h)] \in Submission
           /\ Copy(h).submissions[Type(h)].file \in documents
           /\ Copy(h).submissions[Type(h)].fields
                 \in {Copy(h).submissions[Type(h)].file, "none", "blank"}
           /\ Copy(h).submissions[Type(h)].status = "Verified"
                 => Copy(h).submissions[Type(h)].file \in approved[Type(h)]
<1>1. /\ handler[h].op \in Op /\ handler[h].op.kind = kind
      /\ Copy(h) \in DocRequest
      /\ SoundRequest(Copy(h), documents, approved)
  BY WritingIsServing
<1>2. Type(h) \in DocTypes
  BY <1>1 DEF Op, Type
<1>3. Copy(h).submissions[Type(h)] # NoSubmission
  <2>1. SoundHandler(handler[h], documents, approved)
    BY DocsKnown
  <2> QED
    BY <2>1, <1>1 DEF SoundHandler, Writing, Copy, Type
<1>4. Copy(h).submissions[Type(h)] \in Submission
  BY <1>1, <1>2, <1>3 DEF DocRequest
<1> QED
  BY <1>1, <1>2, <1>3, <1>4 DEF SoundRequest, Uploaded

\* A thread that writes a sound request and is done, with the rest as it was.
LEMMA WriteRequest ==
    ASSUME IInv, NEW h \in Handlers, Finish(h),
           SoundRequest(request', documents, approved),
           told' \in [DocTypes -> Answer], UNCHANGED <<documents, bgv, approved, torn>>
    PROVE  IInv'
<1>1. /\ documents' \in StoredFiles /\ documents \subseteq documents'
      /\ approved' \in GoodFiles /\ \A t \in DocTypes : approved[t] \subseteq approved'[t]
      /\ bgv' \in [DocTypes -> Fields] /\ SoundMirror(bgv', approved')
      /\ torn' \in BOOLEAN
  BY DocsKnown
<1>2. SoundRequest(request', documents', approved')
  OBVIOUS
<1>3. Idle \in HandlerState /\ SoundHandler(Idle, documents', approved')
  BY IdleIsSound
<1>4. handler' = [handler EXCEPT ![h] = Idle]
  BY DEF Finish
<1> QED
  BY <1>1, <1>2, <1>3, <1>4, OneThread

(***************************************************************************)
(* The actions.                                                            *)
(***************************************************************************)

LEMMA LoadStep ==
    ASSUME IInv, NEW h \in Handlers, NEW op \in Op, Load(h, op)
    PROVE  IInv'
<1> DEFINE state == [stage |-> "copied", op |-> op, copy |-> request]
<1>1. state \in HandlerState
  BY DocsKnown DEF HandlerState, Serving
<1>2. op.kind \in {"confirm", "extract", "review"} => request.submissions[op.type] # NoSubmission
  BY DEF Load, Accepts, Op
<1>3. SoundHandler(state, documents', approved')
  BY <1>2, DocsKnown DEF SoundHandler, Load
<1>4. NothingTold \in [DocTypes -> Answer]
  BY DEF NothingTold, Answer
<1>5. told' \in [DocTypes -> Answer] /\ torn' \in BOOLEAN
  <2>1. torn' \in BOOLEAN
    BY DocsKnown DEF Load
  <2>2. told' = NothingTold \/ told' = told
    BY DEF Load
  <2> QED
    BY <2>1, <2>2, <1>4, DocsKnown
<1>6. handler' = [handler EXCEPT ![h] = state]
  BY DEF Load
<1> HIDE DEF state
<1>7. UNCHANGED <<request, documents, bgv, approved>>
  BY DEF Load
<1> QED
  BY <1>1, <1>3, <1>5, <1>6, <1>7, DocsKnown, OneThread

LEMMA StoreFileStep ==
    ASSUME IInv, NEW h \in Handlers, StoreFile(h)
    PROVE  IInv'
<1>1. /\ handler[h] \in Serving
      /\ SoundHandler(handler[h], documents, approved)
      /\ handler[h].op.kind = "upload" /\ handler[h].op.file \in Files
  <2>1. handler[h] \in HandlerState /\ SoundHandler(handler[h], documents, approved)
    BY DocsKnown
  <2>2. handler[h] \in Serving /\ handler[h].op.kind = "upload"
    BY <2>1 DEF StoreFile, HandlerState, Idle, Serving, Approved, Mirroring
  <2> QED
    BY <2>1, <2>2 DEF Serving, Op
<1> DEFINE state == [handler[h] EXCEPT !.stage = "stored"]
<1>2. /\ state \in Serving /\ state.stage = "stored"
      /\ state.op = handler[h].op /\ state.copy = handler[h].copy
  BY <1>1 DEF Serving
<1>3. documents' = documents \union {handler[h].op.file}
  BY DEF StoreFile
<1>4. documents' \in StoredFiles /\ documents \subseteq documents'
  BY <1>1, <1>3, DocsKnown DEF StoredFiles
<1>5. SoundRequest(state.copy, documents', approved')
  <2>1. SoundRequest(handler[h].copy, documents, approved)
    BY <1>1 DEF SoundHandler, Serving
  <2> QED
    BY <2>1, <1>2, <1>4, DocsKnown, RequestStaysSound DEF StoreFile
<1>6. SoundHandler(state, documents', approved')
  BY <1>1, <1>2, <1>3, <1>5 DEF SoundHandler
<1>7. SoundRequest(request', documents', approved')
  BY <1>4, DocsKnown, RequestStaysSound DEF StoreFile
<1>8. handler' = [handler EXCEPT ![h] = state]
  BY DEF StoreFile
<1>9. state \in HandlerState
  BY <1>2 DEF HandlerState
<1> HIDE DEF state
<1>10. UNCHANGED <<request, bgv, approved, told, torn>>
  BY DEF StoreFile
<1> QED
  BY <1>4, <1>6, <1>7, <1>8, <1>9, <1>10, DocsKnown, OneThread

\* An answer about a submission is one of the answers there are.
LEMMA TellType ==
    ASSUME IInv, NEW t \in DocTypes, NEW s \in Submission, Tell(t, s)
    PROVE  told' \in [DocTypes -> Answer]
<1>1. [file |-> s.file, status |-> s.status] \in Answer
  BY DEF Submission, Answer
<1> QED
  BY <1>1, DocsKnown DEF Tell

LEMMA FinishUploadStep ==
    ASSUME IInv, NEW h \in Handlers, FinishUpload(h)
    PROVE  IInv'
<1>1. /\ handler[h].op \in Op /\ handler[h].op.kind = "upload"
      /\ SoundRequest(Copy(h), documents, approved)
  BY WritingIsServing DEF FinishUpload
<1>2. Type(h) \in DocTypes /\ handler[h].op.file \in Files
  BY <1>1 DEF Op, Type
<1>3. handler[h].op.file \in documents
  BY DocsKnown DEF SoundHandler, FinishUpload, Writing
<1>4. PICK fields \in ExtractOnUpload(handler[h].op.file) :
        LET new == [file |-> handler[h].op.file, status |-> "Submitted", fields |-> fields]
            r == [Copy(h) EXCEPT !.submissions[Type(h)] = new]
        IN /\ request' = IF IsFullySubmitted(r) /\ r.status # "Verified"
                         THEN [r EXCEPT !.status = "Submitted"] ELSE r
           /\ Tell(Type(h), new)
  BY DEF FinishUpload
<1> DEFINE new == [file |-> handler[h].op.file, status |-> "Submitted", fields |-> fields]
           r == [Copy(h) EXCEPT !.submissions[Type(h)] = new]
<1>5. /\ new \in Submission /\ new.file \in documents /\ new.status # "Verified"
      /\ new.fields \in {new.file, "none", "blank"}
  BY <1>2, <1>3 DEF Submission, ExtractOnUpload, ExtractSubmission
<1> HIDE DEF new
<1>6. SoundRequest(r, documents, approved)
  BY <1>1, <1>2, <1>5, DocsKnown, PutSound
<1>7. request' = r \/ request' = [r EXCEPT !.status = "Submitted"]
  BY <1>4 DEF new
<1> HIDE DEF r
<1>8. SoundRequest(request', documents, approved)
  <2>1. SoundRequest([r EXCEPT !.status = "Submitted"], documents, approved)
    BY <1>6, DocsKnown, PutRest
  <2> QED
    BY <1>6, <1>7, <2>1
<1>9. told' \in [DocTypes -> Answer]
  BY <1>2, <1>4, <1>5, TellType DEF new
<1> QED
  BY <1>8, <1>9, WriteRequest DEF FinishUpload

LEMMA FinishConfirmStep ==
    ASSUME IInv, NEW h \in Handlers, FinishConfirm(h)
    PROVE  IInv'
<1> DEFINE t == Type(h)
           old == Copy(h).submissions[t]
<1>1. SoundRequest(Copy(h), documents, approved) /\ Copy(h) \in DocRequest
  BY WritingIsServing DEF FinishConfirm
<1>2. /\ t \in DocTypes /\ old \in Submission /\ old.file \in documents
      /\ old.fields \in {old.file, "none", "blank"}
      /\ old.status = "Verified" => old.file \in approved[t]
  BY WritingOnSubmission DEF FinishConfirm
<1>3. PICK fields \in ApplyCandidateEdits(old.fields, old.file) :
        request' = [Copy(h) EXCEPT !.submissions[t].fields = fields]
  BY DEF FinishConfirm
<1>4. fields \in {old.file, "none", "blank"} /\ fields \in Files \union {"none", "blank"}
  BY <1>2, <1>3 DEF ApplyCandidateEdits, Submission
<1> DEFINE new == [file |-> old.file, status |-> old.status, fields |-> fields]
<1>5. new \in Submission /\ request' = [Copy(h) EXCEPT !.submissions[t] = new]
  BY <1>1, <1>2, <1>3, <1>4, PutFields
<1>6. SoundRequest([Copy(h) EXCEPT !.submissions[t] = new], documents, approved)
  BY <1>1, <1>2, <1>4, <1>5, DocsKnown, PutSound
<1> QED
  BY <1>5, <1>6, DocsKnown, WriteRequest DEF FinishConfirm

LEMMA FinishExtractStep ==
    ASSUME IInv, NEW h \in Handlers, FinishExtract(h)
    PROVE  IInv'
<1> DEFINE t == Type(h)
           old == Copy(h).submissions[t]
<1>1. SoundRequest(Copy(h), documents, approved) /\ Copy(h) \in DocRequest
  BY WritingIsServing DEF FinishExtract
<1>2. /\ t \in DocTypes /\ old \in Submission /\ old.file \in documents
      /\ old.status = "Verified" => old.file \in approved[t]
  BY WritingOnSubmission DEF FinishExtract
<1>3. PICK fields \in ExtractSubmission(old.file) :
        request' = [Copy(h) EXCEPT !.submissions[t].fields = fields]
  BY DEF FinishExtract
<1>4. fields \in {old.file, "none", "blank"} /\ fields \in Files \union {"none", "blank"}
  BY <1>2, <1>3 DEF ExtractSubmission, Submission
<1> DEFINE new == [file |-> old.file, status |-> old.status, fields |-> fields]
<1>5. new \in Submission /\ request' = [Copy(h) EXCEPT !.submissions[t] = new]
  BY <1>1, <1>2, <1>3, <1>4, PutFields
<1>6. SoundRequest([Copy(h) EXCEPT !.submissions[t] = new], documents, approved)
  BY <1>1, <1>2, <1>4, <1>5, DocsKnown, PutSound
<1> QED
  BY <1>5, <1>6, DocsKnown, WriteRequest DEF FinishExtract

\* What a review writes rests on the approval it gives.
LEMMA FinishReviewStep ==
    ASSUME IInv, NEW h \in Handlers, FinishReview(h)
    PROVE  IInv'
<1> DEFINE t == Type(h)
           old == Copy(h).submissions[t]
           judged == handler[h].op.verdict
<1>1. /\ SoundRequest(Copy(h), documents, approved) /\ Copy(h) \in DocRequest
      /\ handler[h].op \in Op /\ handler[h].op.kind = "review"
  BY WritingIsServing DEF FinishReview
<1>2. /\ t \in DocTypes /\ old \in Submission /\ old.file \in documents
      /\ old.fields \in {old.file, "none", "blank"}
  BY WritingOnSubmission DEF FinishReview
<1>3. judged \in {"Verified", "Rejected"}
  BY <1>1 DEF Op
<1>4. PICK fields \in {"blank", old.fields, old.file} :
        LET new == [file |-> old.file, status |-> judged, fields |-> fields]
            r == [Copy(h) EXCEPT !.submissions[t] = new]
        IN /\ request' = [r EXCEPT !.status = OverallStatus(r)]
           /\ Tell(t, new)
           /\ approved' = IF new.status = "Verified"
                          THEN [approved EXCEPT ![t] = @ \union {old.file}] ELSE approved
           /\ handler' = [handler EXCEPT ![h] =
                IF Mirrored(new.status, fields)
                THEN [stage |-> "approved", type |-> t, fields |-> fields] ELSE Idle]
  BY DEF FinishReview
<1> DEFINE new == [file |-> old.file, status |-> judged, fields |-> fields]
           r == [Copy(h) EXCEPT !.submissions[t] = new]
<1>5. new \in Submission /\ new.file \in documents /\ new.fields \in {new.file, "none", "blank"}
  BY <1>2, <1>3, <1>4 DEF Submission
<1>6. /\ approved' \in GoodFiles /\ \A u \in DocTypes : approved[u] \subseteq approved'[u]
      /\ judged = "Verified" => old.file \in approved'[t]
  <2>1. CASE judged = "Verified"
    <3>1. approved' = [approved EXCEPT ![t] = @ \union {old.file}]
      BY <2>1, <1>4
    <3>2. old.file \in Files
      BY <1>2 DEF Submission
    <3> QED
      BY <3>1, <3>2, <1>2, DocsKnown DEF GoodFiles
  <2>2. CASE judged # "Verified"
    BY <2>2, <1>4, DocsKnown
  <2> QED
    BY <2>1, <2>2
<1>7. SoundRequest(Copy(h), documents, approved')
  BY <1>1, <1>6, DocsKnown, RequestStaysSound
<1>8. new.status = "Verified" => new.file \in approved'[t]
  BY <1>6
<1>9. SoundRequest(r, documents, approved')
  <2> HIDE DEF new
  <2> QED
    BY <1>2, <1>5, <1>6, <1>7, <1>8, DocsKnown, PutSound
<1>10. r.status \in {"Pending", "Submitted", "Verified"}
  BY <1>9 DEF SoundRequest, DocRequest
<1>11. request' = [r EXCEPT !.status = OverallStatus(r)]
  BY <1>4
<1> HIDE DEF r
<1>12. SoundRequest(request', documents, approved')
  BY <1>6, <1>9, <1>10, <1>11, DocsKnown, PutRest DEF OverallStatus
<1>13. told' \in [DocTypes -> Answer]
  <2>1. Tell(t, new)
    BY <1>4
  <2> QED
    BY <2>1, <1>2, <1>5, TellType
<1> DEFINE state == IF Mirrored(judged, fields)
                    THEN [stage |-> "approved", type |-> t, fields |-> fields] ELSE Idle
<1>14. state \in HandlerState /\ SoundHandler(state, documents', approved')
  <2>1. CASE Mirrored(judged, fields)
    <3>1. fields = old.file /\ judged = "Verified" /\ fields \in Files
      BY <2>1, <1>2, <1>4 DEF Mirrored, Submission
    <3> QED
      BY <2>1, <3>1, <1>2, <1>6 DEF HandlerState, Approved, SoundHandler
  <2>2. CASE ~Mirrored(judged, fields)
    BY <2>2, IdleIsSound
  <2> QED
    BY <2>1, <2>2
<1>15. handler' = [handler EXCEPT ![h] = state]
  BY <1>4
<1>16. SoundMirror(bgv, approved')
  BY <1>6, DocsKnown DEF SoundMirror
<1> HIDE DEF state, new
<1>17. UNCHANGED <<documents, bgv, torn>>
  BY DEF FinishReview
<1> QED
  BY <1>6, <1>12, <1>13, <1>14, <1>15, <1>16, <1>17, DocsKnown, OneThread

LEMMA FinishPatchStep ==
    ASSUME IInv, NEW h \in Handlers, FinishPatch(h)
    PROVE  IInv'
<1>1. SoundRequest(Copy(h), documents, approved)
  BY WritingIsServing DEF FinishPatch
<1>2. /\ SoundRequest([Copy(h) EXCEPT !.consent = TRUE], documents, approved)
      /\ SoundRequest([Copy(h) EXCEPT !.bank = TRUE], documents, approved)
  BY <1>1, DocsKnown, PutRest
<1>3. SoundRequest(request', documents, approved)
  BY <1>2 DEF FinishPatch
<1> QED
  BY <1>3, DocsKnown, WriteRequest DEF FinishPatch

LEMMA MirrorReadStep ==
    ASSUME IInv, NEW h \in Handlers, MirrorRead(h)
    PROVE  IInv'
<1>1. handler[h] \in Approved /\ handler[h].fields \in approved[handler[h].type]
  <2>1. handler[h] \in HandlerState /\ SoundHandler(handler[h], documents, approved)
    BY DocsKnown
  <2> QED
    BY <2>1 DEF MirrorRead, HandlerState, Idle, Serving, Approved, Mirroring, SoundHandler
<1> DEFINE state == [stage |-> "mirroring", type |-> handler[h].type,
                     fields |-> handler[h].fields, copy |-> bgv]
<1>2. state \in HandlerState
  BY <1>1, DocsKnown DEF HandlerState, Approved, Mirroring
<1>3. SoundHandler(state, documents', approved')
  BY <1>1, DocsKnown DEF SoundHandler, MirrorRead
<1>4. handler' = [handler EXCEPT ![h] = state]
  BY DEF MirrorRead
<1> HIDE DEF state
<1>5. UNCHANGED <<request, documents, bgv, approved, told, torn>>
  BY DEF MirrorRead
<1> QED
  BY <1>2, <1>3, <1>4, <1>5, DocsKnown, OneThread

LEMMA MirrorWriteStep ==
    ASSUME IInv, NEW h \in Handlers, MirrorWrite(h)
    PROVE  IInv'
<1>1. /\ handler[h] \in Mirroring /\ handler[h].fields \in approved[handler[h].type]
      /\ SoundMirror(handler[h].copy, approved)
  <2>1. handler[h] \in HandlerState /\ SoundHandler(handler[h], documents, approved)
    BY DocsKnown
  <2> QED
    BY <2>1 DEF MirrorWrite, HandlerState, Idle, Serving, Approved, Mirroring, SoundHandler
<1>2. bgv' = [handler[h].copy EXCEPT ![handler[h].type] = handler[h].fields]
  BY DEF MirrorWrite, Copy
<1>3. bgv' \in [DocTypes -> Fields] /\ SoundMirror(bgv', approved)
  BY <1>1, <1>2 DEF Mirroring, Fields, SoundMirror
<1>4. handler' = [handler EXCEPT ![h] = Idle]
  BY DEF MirrorWrite, Finish
<1>5. Idle \in HandlerState /\ SoundHandler(Idle, documents, approved)
  BY IdleIsSound
<1>6. UNCHANGED <<request, documents, approved, told, torn>>
  BY DEF MirrorWrite
<1> QED
  BY <1>3, <1>4, <1>5, <1>6, DocsKnown, OneThread

LEMMA CrashStep ==
    ASSUME IInv, NEW h \in Handlers, Crash(h)
    PROVE  IInv'
<1>1. SoundRequest(request', documents, approved) /\ told' \in [DocTypes -> Answer]
  BY DocsKnown DEF Crash
<1> QED
  BY <1>1, WriteRequest DEF Crash

(***************************************************************************)
(* The answers, while one copy is open at a time.                          *)
(***************************************************************************)

Answers == OneOpenCopy /\ AnswersAreKept

\* A thread that gives up its copy leaves no other open, if it wrote the request.
LEMMA OneCloses ==
    ASSUME IInv, OneOpenCopy, NEW h \in Handlers, NEW state \in HandlerState,
           handler' = [handler EXCEPT ![h] = state], state.stage \notin {"copied", "stored"},
           torn' = torn, request' = request \/ h \in OpenCopies
    PROVE  OneOpenCopy'
<1>1. /\ handler' \in [Handlers -> HandlerState] /\ handler'[h] = state
      /\ \A k \in Handlers : k # h => handler'[k] = handler[k]
  BY DocsKnown
<1>2. \A k \in OpenCopies' : k # h /\ k \in OpenCopies /\ handler'[k] = handler[k]
  BY <1>1 DEF OpenCopies
<1> QED
  BY <1>2 DEF OneOpenCopy, Copy

\* What a thread is about to write back is a copy of the request as it is.
LEMMA WritesTheRequest ==
    ASSUME OneOpenCopy, NEW h \in Handlers, NEW kind, Writing(h, kind)
    PROVE  h \in OpenCopies /\ (~torn => Copy(h) = request)
BY DEF Writing, OpenCopies, OneOpenCopy

LEMMA LoadAnswers ==
    ASSUME IInv, Answers, NEW h \in Handlers, NEW op \in Op, Load(h, op)
    PROVE  Answers'
<1> DEFINE state == [stage |-> "copied", op |-> op, copy |-> request]
<1>1. /\ handler' \in [Handlers -> HandlerState \union {state}] /\ handler'[h] = state
      /\ \A k \in Handlers : k # h => handler'[k] = handler[k]
  BY DocsKnown DEF Load
<1>2. state.stage = "copied" /\ state.copy = request
  OBVIOUS
<1> HIDE DEF state
<1>3. request' = request /\ torn' = (torn \/ OpenCopies # {}) /\ (~torn' => told' = told)
  BY DEF Load
<1>4. OneOpenCopy'
  <2> SUFFICES ASSUME ~torn', NEW k \in OpenCopies'
               PROVE  Copy(k)' = request /\ k = h
    BY <1>3 DEF OneOpenCopy
  <2>1. OpenCopies = {}
    BY <1>3
  <2>2. k = h
    BY <1>1, <2>1 DEF OpenCopies
  <2> QED
    BY <1>1, <1>2, <2>2 DEF Copy
<1>5. AnswersAreKept'
  BY <1>3 DEF Answers, AnswersAreKept
<1> QED
  BY <1>4, <1>5 DEF Answers

\* A thread stores its file and keeps its copy.
LEMMA StoreFileAnswers ==
    ASSUME IInv, Answers, NEW h \in Handlers, StoreFile(h)
    PROVE  Answers'
<1>1. handler[h] \in Serving
  BY DocsKnown DEF StoreFile, HandlerState, Idle, Serving, Approved, Mirroring
<1> DEFINE state == [handler[h] EXCEPT !.stage = "stored"]
<1>2. state.stage = "stored" /\ state.copy = handler[h].copy
  BY <1>1 DEF Serving
<1> HIDE DEF state
<1>3. /\ handler'[h] = state /\ \A k \in Handlers : k # h => handler'[k] = handler[k]
      /\ UNCHANGED <<request, told, torn>>
  BY DocsKnown DEF StoreFile, state
<1>4. OpenCopies' = OpenCopies
  BY <1>2, <1>3 DEF OpenCopies, StoreFile
<1>5. \A k \in OpenCopies : Copy(k)' = Copy(k)
  BY <1>2, <1>3 DEF Copy, OpenCopies
<1>6. OneOpenCopy'
  BY <1>3, <1>4, <1>5 DEF Answers, OneOpenCopy
<1>7. AnswersAreKept'
  BY <1>3 DEF Answers, AnswersAreKept
<1> QED
  BY <1>6, <1>7 DEF Answers

\* What is told of a submission is what is written of it, and the others stay.
LEMMA PutAndTell ==
    ASSUME IInv, AnswersAreKept, NEW t \in DocTypes, NEW s \in Submission, Tell(t, s),
           torn' = torn,
           ~torn => /\ request'.submissions[t] = s
                    /\ \A u \in DocTypes : u # t => request'.submissions[u] = request.submissions[u]
    PROVE  AnswersAreKept'
<1> SUFFICES ASSUME ~torn, NEW u \in DocTypes
             PROVE  told'[u] = [file |-> request'.submissions[u].file,
                                status |-> request'.submissions[u].status]
  BY DEF AnswersAreKept
<1>1. told' = [told EXCEPT ![t] = [file |-> s.file, status |-> s.status]]
  BY DEF Tell
<1>2. CASE u = t
  BY <1>1, <1>2, DocsKnown
<1>3. CASE u # t
  BY <1>1, <1>3, DocsKnown DEF AnswersAreKept
<1> QED
  BY <1>2, <1>3

LEMMA FinishUploadAnswers ==
    ASSUME IInv, Answers, NEW h \in Handlers, FinishUpload(h)
    PROVE  Answers'
<1>1. /\ Copy(h) \in DocRequest /\ Type(h) \in DocTypes /\ handler[h].op.file \in Files
  BY WritingIsServing DEF FinishUpload, Op, Type
<1>2. PICK fields \in ExtractOnUpload(handler[h].op.file) :
        LET new == [file |-> handler[h].op.file, status |-> "Submitted", fields |-> fields]
            r == [Copy(h) EXCEPT !.submissions[Type(h)] = new]
        IN /\ request' = IF IsFullySubmitted(r) /\ r.status # "Verified"
                         THEN [r EXCEPT !.status = "Submitted"] ELSE r
           /\ Tell(Type(h), new)
  BY DEF FinishUpload
<1> DEFINE new == [file |-> handler[h].op.file, status |-> "Submitted", fields |-> fields]
           r == [Copy(h) EXCEPT !.submissions[Type(h)] = new]
<1>3. new \in Submission
  BY <1>1 DEF Submission, ExtractOnUpload, ExtractSubmission
<1>4. Tell(Type(h), new) /\ (request' = r \/ request' = [r EXCEPT !.status = "Submitted"])
  BY <1>2
<1> HIDE DEF new
<1>5. /\ r \in DocRequest /\ r.submissions[Type(h)] = new
      /\ \A u \in DocTypes : u # Type(h) => r.submissions[u] = Copy(h).submissions[u]
  BY <1>1, <1>3, PutSubmission
<1> HIDE DEF r
<1>6. request'.submissions = r.submissions
  BY <1>4, <1>5 DEF DocRequest
<1>7. h \in OpenCopies /\ (~torn => Copy(h) = request)
  BY WritesTheRequest DEF FinishUpload, Answers
<1>8. AnswersAreKept'
  BY <1>1, <1>3, <1>4, <1>5, <1>6, <1>7, PutAndTell DEF Answers, FinishUpload
<1>9. OneOpenCopy'
  BY <1>7, IdleIsSound, OneCloses DEF Answers, FinishUpload, Finish, Idle
<1> QED
  BY <1>8, <1>9 DEF Answers

\* Values may change under an answer, which names the file and the verdict.
LEMMA FieldsAnswers ==
    ASSUME IInv, Answers, NEW h \in Handlers, NEW kind \in {"confirm", "extract"},
           Writing(h, kind), NEW fields \in Files \union {"none", "blank"},
           request' = [Copy(h) EXCEPT !.submissions[Type(h)].fields = fields],
           Finish(h), UNCHANGED <<told, torn>>
    PROVE  Answers'
<1> DEFINE t == Type(h)
           old == Copy(h).submissions[t]
           new == [file |-> old.file, status |-> old.status, fields |-> fields]
<1>1. Copy(h) \in DocRequest /\ t \in DocTypes /\ old \in Submission
  BY WritingIsServing, WritingOnSubmission
<1>2. new \in Submission /\ request' = [Copy(h) EXCEPT !.submissions[t] = new]
  BY <1>1, PutFields
<1>3. new.file = old.file /\ new.status = old.status
  OBVIOUS
<1> HIDE DEF new
<1> DEFINE r == [Copy(h) EXCEPT !.submissions[t] = new]
<1>4. /\ request'.submissions[t] = new
      /\ \A u \in DocTypes : u # t => request'.submissions[u] = Copy(h).submissions[u]
  <2>1. /\ r.submissions[t] = new
        /\ \A u \in DocTypes : u # t => r.submissions[u] = Copy(h).submissions[u]
    BY <1>1, <1>2, PutSubmission
  <2>2. request' = r
    BY <1>2
  <2> HIDE DEF r
  <2> QED
    BY <2>1, <2>2
<1>5. h \in OpenCopies /\ (~torn => Copy(h) = request)
  BY WritesTheRequest DEF Answers
<1>6. AnswersAreKept'
  <2> SUFFICES ASSUME ~torn, NEW u \in DocTypes
               PROVE  told[u] = [file |-> request'.submissions[u].file,
                                 status |-> request'.submissions[u].status]
    BY DEF AnswersAreKept
  <2>1. told[u] = [file |-> request.submissions[u].file, status |-> request.submissions[u].status]
    BY DEF Answers, AnswersAreKept
  <2>2. CASE u = t
    BY <1>3, <1>4, <1>5, <2>1, <2>2
  <2>3. CASE u # t
    BY <1>4, <1>5, <2>1, <2>3
  <2> QED
    BY <2>2, <2>3
<1>7. OneOpenCopy'
  BY <1>5, IdleIsSound, OneCloses DEF Answers, Finish, Idle
<1> QED
  BY <1>6, <1>7 DEF Answers

LEMMA FinishConfirmAnswers ==
    ASSUME IInv, Answers, NEW h \in Handlers, FinishConfirm(h)
    PROVE  Answers'
<1> DEFINE old == Copy(h).submissions[Type(h)]
<1>1. old \in Submission
  BY WritingOnSubmission DEF FinishConfirm
<1>2. PICK fields \in ApplyCandidateEdits(old.fields, old.file) :
        request' = [Copy(h) EXCEPT !.submissions[Type(h)].fields = fields]
  BY DEF FinishConfirm
<1>3. fields \in Files \union {"none", "blank"}
  BY <1>1, <1>2 DEF ApplyCandidateEdits, Submission
<1> QED
  BY <1>2, <1>3, FieldsAnswers DEF FinishConfirm

LEMMA FinishExtractAnswers ==
    ASSUME IInv, Answers, NEW h \in Handlers, FinishExtract(h)
    PROVE  Answers'
<1> DEFINE old == Copy(h).submissions[Type(h)]
<1>1. old \in Submission
  BY WritingOnSubmission DEF FinishExtract
<1>2. PICK fields \in ExtractSubmission(old.file) :
        request' = [Copy(h) EXCEPT !.submissions[Type(h)].fields = fields]
  BY DEF FinishExtract
<1>3. fields \in Files \union {"none", "blank"}
  BY <1>1, <1>2 DEF ExtractSubmission, Submission
<1> QED
  BY <1>2, <1>3, FieldsAnswers DEF FinishExtract

LEMMA FinishReviewAnswers ==
    ASSUME IInv, Answers, NEW h \in Handlers, FinishReview(h)
    PROVE  Answers'
<1> DEFINE t == Type(h)
           old == Copy(h).submissions[t]
           judged == handler[h].op.verdict
<1>1. /\ Copy(h) \in DocRequest /\ judged \in {"Verified", "Rejected"}
      /\ t \in DocTypes /\ old \in Submission /\ old.fields \in {old.file, "none", "blank"}
  BY WritingIsServing, WritingOnSubmission DEF FinishReview, Op
<1>2. PICK fields \in {"blank", old.fields, old.file} :
        LET new == [file |-> old.file, status |-> judged, fields |-> fields]
            r == [Copy(h) EXCEPT !.submissions[t] = new]
        IN /\ request' = [r EXCEPT !.status = OverallStatus(r)]
           /\ Tell(t, new)
           /\ handler' = [handler EXCEPT ![h] =
                IF Mirrored(new.status, fields)
                THEN [stage |-> "approved", type |-> t, fields |-> fields] ELSE Idle]
  BY DEF FinishReview
<1> DEFINE new == [file |-> old.file, status |-> judged, fields |-> fields]
           r == [Copy(h) EXCEPT !.submissions[t] = new]
           state == IF Mirrored(judged, fields)
                    THEN [stage |-> "approved", type |-> t, fields |-> fields] ELSE Idle
<1>3. new \in Submission
  BY <1>1, <1>2 DEF Submission
<1>4. state \in HandlerState /\ state.stage \notin {"copied", "stored"}
  <2>1. CASE Mirrored(judged, fields)
    <3>1. fields \in Files
      BY <2>1, <1>1, <1>2 DEF Mirrored, Submission
    <3> QED
      BY <2>1, <3>1, <1>1 DEF HandlerState, Approved
  <2>2. CASE ~Mirrored(judged, fields)
    BY <2>2 DEF HandlerState, Idle
  <2> QED
    BY <2>1, <2>2
<1>5. /\ Tell(t, new) /\ request' = [r EXCEPT !.status = OverallStatus(r)]
      /\ handler' = [handler EXCEPT ![h] = state]
  BY <1>2
<1> HIDE DEF new, state
<1>6. /\ r \in DocRequest /\ r.submissions[t] = new
      /\ \A u \in DocTypes : u # t => r.submissions[u] = Copy(h).submissions[u]
  BY <1>1, <1>3, PutSubmission
<1> HIDE DEF r
<1>7. request'.submissions = r.submissions
  BY <1>5, <1>6 DEF DocRequest
<1>8. h \in OpenCopies /\ (~torn => Copy(h) = request)
  BY WritesTheRequest DEF FinishReview, Answers
<1>9. torn' = torn
  BY DEF FinishReview
<1>10. AnswersAreKept'
  BY <1>1, <1>3, <1>5, <1>6, <1>7, <1>8, <1>9, PutAndTell DEF Answers
<1>11. OneOpenCopy'
  BY <1>4, <1>5, <1>8, <1>9, OneCloses DEF Answers
<1> QED
  BY <1>10, <1>11 DEF Answers

LEMMA FinishPatchAnswers ==
    ASSUME IInv, Answers, NEW h \in Handlers, FinishPatch(h)
    PROVE  Answers'
<1>1. Copy(h) \in DocRequest
  BY WritingIsServing DEF FinishPatch
<1>2. request'.submissions = Copy(h).submissions
  BY <1>1 DEF FinishPatch, DocRequest
<1>3. h \in OpenCopies /\ (~torn => Copy(h) = request)
  BY WritesTheRequest DEF FinishPatch, Answers
<1>4. UNCHANGED <<told, torn>> /\ handler' = [handler EXCEPT ![h] = Idle]
  BY DEF FinishPatch, Finish
<1>5. AnswersAreKept'
  BY <1>2, <1>3, <1>4 DEF Answers, AnswersAreKept
<1>6. OneOpenCopy'
  BY <1>3, <1>4, IdleIsSound, OneCloses DEF Answers, Idle
<1> QED
  BY <1>5, <1>6 DEF Answers

\* The mirror and a crash leave the request as it is.
LEMMA RestAnswers ==
    ASSUME IInv, Answers, NEW h \in Handlers, MirrorRead(h) \/ MirrorWrite(h) \/ Crash(h)
    PROVE  Answers'
<1> DEFINE state == IF MirrorRead(h)
                    THEN [stage |-> "mirroring", type |-> handler[h].type,
                          fields |-> handler[h].fields, copy |-> bgv]
                    ELSE Idle
<1>1. handler' = [handler EXCEPT ![h] = state] /\ UNCHANGED <<request, told, torn>>
  BY DEF MirrorRead, MirrorWrite, Crash, Finish
<1>2. state \in HandlerState /\ state.stage \notin {"copied", "stored"}
  <2>1. CASE MirrorRead(h)
    <3>1. handler[h] \in Approved
      BY <2>1, DocsKnown DEF MirrorRead, HandlerState, Idle, Serving, Approved, Mirroring
    <3> QED
      BY <2>1, <3>1, DocsKnown DEF HandlerState, Approved, Mirroring
  <2>2. CASE ~MirrorRead(h)
    BY <2>2 DEF HandlerState, Idle
  <2> QED
    BY <2>1, <2>2
<1> HIDE DEF state
<1>3. OneOpenCopy'
  BY <1>1, <1>2, OneCloses DEF Answers
<1>4. AnswersAreKept'
  BY <1>1 DEF Answers, AnswersAreKept
<1> QED
  BY <1>3, <1>4 DEF Answers

(***************************************************************************)
(* Theorems.                                                               *)
(***************************************************************************)

LEMMA InitIInv == Init => IInv
<1> SUFFICES ASSUME Init
             PROVE  IInv
  OBVIOUS
<1>1. /\ request \in DocRequest
      /\ \A t \in DocTypes : request.submissions[t] = NoSubmission
  BY DEF Init, DocRequest
<1>2. SoundRequest(request, documents, approved)
  BY <1>1 DEF SoundRequest, Uploaded, NoSubmission
<1>3. TypeOK
  BY <1>1 DEF Init, TypeOK, Fields, NothingTold
<1>4. SoundMirror(bgv, approved)
  BY DEF Init, SoundMirror
<1>5. \A h \in Handlers : SoundHandler(handler[h], documents, approved)
  BY IdleIsSound DEF Init
<1> QED
  BY <1>2, <1>3, <1>4, <1>5 DEF IInv

LEMMA NextIInv == IInv /\ [Next]_vars => IInv'
<1> SUFFICES ASSUME IInv, [Next]_vars
             PROVE  IInv'
  OBVIOUS
<1>1. ASSUME NEW h \in Handlers, NEW op \in Op, Load(h, op)
      PROVE  IInv'
  BY <1>1, LoadStep
<1>2. ASSUME NEW h \in Handlers, StoreFile(h)
      PROVE  IInv'
  BY <1>2, StoreFileStep
<1>3. ASSUME NEW h \in Handlers, FinishUpload(h)
      PROVE  IInv'
  BY <1>3, FinishUploadStep
<1>4. ASSUME NEW h \in Handlers, FinishConfirm(h) \/ FinishExtract(h)
      PROVE  IInv'
  BY <1>4, FinishConfirmStep, FinishExtractStep
<1>5. ASSUME NEW h \in Handlers, FinishReview(h)
      PROVE  IInv'
  BY <1>5, FinishReviewStep
<1>6. ASSUME NEW h \in Handlers, FinishPatch(h)
      PROVE  IInv'
  BY <1>6, FinishPatchStep
<1>7. ASSUME NEW h \in Handlers, MirrorRead(h) \/ MirrorWrite(h)
      PROVE  IInv'
  BY <1>7, MirrorReadStep, MirrorWriteStep
<1>8. ASSUME NEW h \in Handlers, Crash(h)
      PROVE  IInv'
  BY <1>8, CrashStep
<1>9. CASE UNCHANGED vars
  BY <1>9 DEF vars, IInv, TypeOK
<1> QED
  BY <1>1, <1>2, <1>3, <1>4, <1>5, <1>6, <1>7, <1>8, <1>9 DEF Next

\* However the operations overlap and wherever they die, the request and every copy of it
\* that a thread holds name stored documents with their own values, and call verified only
\* what HR approved.
THEOREM CopiesAreSound == Spec => []IInv
<1> QED
  BY InitIInv, NextIInv, PTL DEF Spec

\* Every variable has its type.
THEOREM DocTypesCorrect == Spec => []TypeOK
<1>1. IInv => TypeOK
  BY DEF IInv
<1> QED
  BY <1>1, CopiesAreSound, PTL

\* A candidate cannot approve their own papers (doc_requests.py:300): what is Verified
\* carries a document HR marked Verified.
THEOREM OnlyHRVerifies == Spec => []VerifiedByHR
<1>1. IInv => VerifiedByHR
  BY DEF IInv, SoundRequest, VerifiedByHR
<1> QED
  BY <1>1, CopiesAreSound, PTL

\* The values shown for a document are its own, and the document was stored, though OCR
\* reads it while others write.
THEOREM ValuesBelong == Spec => []FieldsBelongToFile
<1>1. IInv => FieldsBelongToFile
  BY DEF IInv, SoundRequest, FieldsBelongToFile
<1> QED
  BY <1>1, CopiesAreSound, PTL

\* What _mirror_to_bgv puts on the BGV record was approved by HR.
THEOREM MirrorHoldsApproved == Spec => []MirrorIsApproved
<1>1. IInv => MirrorIsApproved
  BY DEF IInv, SoundMirror, MirrorIsApproved
<1> QED
  BY <1>1, CopiesAreSound, PTL

LEMMA InitAnswers == Init => Answers
BY DEF Init, Answers, OneOpenCopy, OpenCopies, AnswersAreKept, NothingTold, NoSubmission, Idle

LEMMA NextAnswers == IInv /\ Answers /\ [Next]_vars => Answers'
<1> SUFFICES ASSUME IInv, Answers, [Next]_vars
             PROVE  Answers'
  OBVIOUS
<1>1. ASSUME NEW h \in Handlers, NEW op \in Op, Load(h, op)
      PROVE  Answers'
  BY <1>1, LoadAnswers
<1>2. ASSUME NEW h \in Handlers, StoreFile(h)
      PROVE  Answers'
  BY <1>2, StoreFileAnswers
<1>3. ASSUME NEW h \in Handlers, FinishUpload(h) \/ FinishConfirm(h) \/ FinishExtract(h)
      PROVE  Answers'
  BY <1>3, FinishUploadAnswers, FinishConfirmAnswers, FinishExtractAnswers
<1>4. ASSUME NEW h \in Handlers, FinishReview(h) \/ FinishPatch(h)
      PROVE  Answers'
  BY <1>4, FinishReviewAnswers, FinishPatchAnswers
<1>5. ASSUME NEW h \in Handlers, MirrorRead(h) \/ MirrorWrite(h) \/ Crash(h)
      PROVE  Answers'
  BY <1>5, RestAnswers
<1>6. CASE UNCHANGED vars
  BY <1>6 DEF vars, Answers, OneOpenCopy, OpenCopies, Copy, AnswersAreKept
<1> QED
  BY <1>1, <1>2, <1>3, <1>4, <1>5, <1>6 DEF Next

\* An upload or a review that was answered with success is in the request, until two
\* operations held copies of it at once.
THEOREM AnswersStay == Spec => []AnswersAreKept
<1>1. Spec => []Answers
  BY InitAnswers, NextAnswers, CopiesAreSound, PTL DEF Spec
<1>2. Answers => AnswersAreKept
  BY DEF Answers
<1> QED
  BY <1>1, <1>2, PTL

(*************************************************************************)
(* What leaves Circle of the documents.                                  *)
(*************************************************************************)

\* What a thread may be doing, by its stage.
LEMMA WorkFields ==
    ASSUME NEW x \in Work
    PROVE  /\ x.stage \in {"idle", "loaded", "stored"}
           /\ x.stage = "idle" <=> x = NoWork
           /\ x.stage # "idle" => x.link \in Links /\ x.copy \in Link
           /\ x.stage = "loaded" => x.op \in {"upload"} \union Verdicts
           /\ x.stage = "stored" => x.doc \in Docs
BY DEF Work, NoWork

\* What a thread may turn to.
LEMMA WorkMade ==
    /\ NoWork \in Work /\ NoWork.stage = "idle"
    /\ \A op \in {"upload"} \union Verdicts, l \in Links, k \in Link :
         LET x == [stage |-> "loaded", op |-> op, link |-> l, copy |-> k] IN
         x \in Work /\ x.stage = "loaded" /\ x.op = op /\ x.link = l /\ x.copy = k
    /\ \A l \in Links, k \in Link, d \in Docs :
         LET x == [stage |-> "stored", link |-> l, copy |-> k, doc |-> d] IN
         x \in Work /\ x.stage = "stored" /\ x.link = l /\ x.copy = k /\ x.doc = d
BY DEF Work, NoWork

\* The submission of a link, by its document.
LEMMA SentFields ==
    ASSUME NEW s \in Sent
    PROVE  /\ s.doc \in 0..MaxDocs
           /\ s = NothingSent <=> s.doc = 0
           /\ s # NothingSent => s.doc \in Docs /\ s.status \in Verdicts \union {"Submitted"}
BY SharedAssumption DEF Sent, NothingSent, Docs

\* A link that was sent, or none.
LEMMA LinkFields ==
    ASSUME NEW k \in Link \union {NoLink}
    PROVE  /\ k.sub \in Sent
           /\ k.owner \in Owners \union {"none"}
           /\ k = NoLink <=> k.owner = "none"
           /\ k # NoLink <=> k \in Link
BY DEF Link, NoLink, Sent, Owners

\* Links and submissions as they are written.
LEMMA LinksMade ==
    ASSUME NEW k \in Link
    PROVE  /\ \A d \in Docs :
                LET s == [doc |-> d, status |-> "Submitted"] IN
                /\ s \in Sent /\ s # NothingSent /\ [k EXCEPT !.sub = s] \in Link
                /\ [k EXCEPT !.sub = s].sub = s
           /\ k.sub # NothingSent =>
                \A says \in Verdicts :
                    LET q == [k EXCEPT !.sub.status = says] IN
                    q \in Link /\ q.sub = [doc |-> k.sub.doc, status |-> says]
BY DEF Link, Sent, NothingSent, Verdicts, Docs

\* A type that nothing was sent for names no document.
LEMMA NothingIsNoDocument == NothingSent.doc = 0 /\ NothingSent \in Sent /\ NoLink.sub = NothingSent
BY DEF NothingSent, NoLink, Sent
\* The copy of a busy thread, and the submission in it.
LEMMA BusyThread ==
    ASSUME SharedTypeOK, NEW w \in Threads
    PROVE  /\ thread[w] \in Work
           /\ thread[w].stage # "idle" =>
                /\ thread[w].link \in Links /\ thread[w].copy \in Link
                /\ thread[w].copy.sub \in Sent /\ thread[w].copy.sub.doc \in 0..MaxDocs
           /\ thread[w].stage = "stored" => thread[w].doc \in Docs
<1>1. thread[w] \in Work
  BY DEF SharedTypeOK
<1>2. thread[w].stage # "idle" => thread[w].link \in Links /\ thread[w].copy \in Link
  BY <1>1, WorkFields
<1>3. thread[w].stage # "idle" => thread[w].copy.sub \in Sent
  BY <1>2, LinkFields
<1> QED
  BY <1>1, <1>2, <1>3, SentFields, WorkFields

\* Each link, and the submission on it.
LEMMA EachLink ==
    ASSUME SharedTypeOK, NEW l \in Links
    PROVE  /\ links[l] \in Link \union {NoLink}
           /\ links[l].sub \in Sent /\ links[l].sub.doc \in 0..MaxDocs
           /\ l \in Live <=> links[l] # NoLink
           /\ l \in Live <=> links[l] \in Link
<1>1. links[l] \in Link \union {NoLink}
  BY DEF SharedTypeOK
<1> QED
  BY <1>1, LinkFields, SentFields DEF Live

\* Nothing but rows and person changes, and no row is added.
LEMMA RowsGo ==
    ASSUME SharedIInv, SharedTypeOK',
           UNCHANGED <<links, drawn, thread, sharedHistory>>,
           \A d \in Docs : rows'[d] # "none" => rows[d] # "none"
    PROVE  SharedIInv'
<1>1. UNCHANGED <<links, drawn, thread, verified, verdict, answered, linkTorn, split, dropped>>
  BY DEF sharedHistory
<1>2. IdsAreDrawn'
  BY <1>1 DEF SharedIInv, IdsAreDrawn
<1>3. Live' = Live
  BY <1>1 DEF Live
<1>4. NewFilesAreFresh'
  BY <1>1 DEF SharedIInv, NewFilesAreFresh
<1>5. VerdictsAgree'
  BY <1>1 DEF SharedIInv, VerdictsAgree
<1>6. LinksAreHeld' /\ CopiesAreCurrent'
  BY <1>1, <1>3 DEF SharedIInv, LinksAreHeld, CopiesAreCurrent
<1>7. LatestAnswerCounts'
  BY <1>1, <1>3 DEF SharedIInv, LatestAnswerCounts
<1> QED
  BY <1>2, <1>4, <1>5, <1>6, <1>7 DEF SharedIInv

\* Links go, with or without rows: what holds only while none has gone is off, and what is
\* said of each link holds of fewer.
LEMMA LinksGo ==
    ASSUME SharedIInv, SharedTypeOK', dropped',
           UNCHANGED <<drawn, thread, verified, verdict, answered, linkTorn, split>>,
           \A d \in Docs : rows'[d] # "none" => rows[d] # "none",
           \A l \in Links : links'[l] \in {links[l], NoLink}
    PROVE  SharedIInv'
<1> USE NothingIsNoDocument
<1>1. IdsAreDrawn'
  BY DEF SharedIInv, IdsAreDrawn, SharedTypeOK
<1>2. NewFilesAreFresh'
  <2>1. ASSUME NEW w \in Threads, thread[w].stage = "stored", NEW l \in Links
        PROVE  links'[l].sub.doc # thread[w].doc
    BY <2>1, BusyThread DEF SharedIInv, NewFilesAreFresh, Docs
  <2> QED
    BY <2>1 DEF SharedIInv, NewFilesAreFresh
<1>3. VerdictsAgree'
  BY DEF SharedIInv, VerdictsAgree
<1>4. LinksAreHeld' /\ LatestAnswerCounts'
  BY DEF LinksAreHeld, LatestAnswerCounts
<1>5. CopiesAreCurrent'
  BY DEF SharedIInv, CopiesAreCurrent
<1> QED
  BY <1>1, <1>2, <1>3, <1>4, <1>5 DEF SharedIInv

\* A thread gives up its work: the others go on as they were.
LEMMA DieKeeps ==
    ASSUME SharedIInv, NEW w \in Threads, Die(w)
    PROVE  SharedIInv'
<1>1. UNCHANGED <<letter, links, rows, person, drawn, verified, verdict, answered, linkTorn,
                  split, dropped>>
  BY DEF Die, sharedHistory
<1>2. thread' = [thread EXCEPT ![w] = NoWork] /\ thread \in [Threads -> Work]
  BY DEF Die, Release, SharedIInv, SharedTypeOK
<1>3. \A v \in Threads : thread'[v] = IF v = w THEN NoWork ELSE thread[v]
  BY <1>2
<1>4. SharedTypeOK'
  BY <1>1, <1>2, WorkMade DEF SharedIInv, SharedTypeOK
<1>5. \A v \in Threads : thread'[v].stage # "idle" => v # w /\ thread'[v] = thread[v]
  BY <1>3, WorkMade
<1>6. Live' = Live
  BY <1>1 DEF Live
<1>7. IdsAreDrawn'
  BY <1>1, <1>5 DEF SharedIInv, IdsAreDrawn
<1>8. NewFilesAreFresh'
  BY <1>1, <1>5 DEF SharedIInv, NewFilesAreFresh
<1>9. VerdictsAgree'
  BY <1>1 DEF SharedIInv, VerdictsAgree
<1>10. LinksAreHeld'
  BY <1>1, <1>5, <1>6 DEF SharedIInv, LinksAreHeld
<1>11. CopiesAreCurrent'
  BY <1>1, <1>5 DEF SharedIInv, CopiesAreCurrent
<1>12. LatestAnswerCounts'
  BY <1>1, <1>6 DEF SharedIInv, LatestAnswerCounts
<1> QED
  BY <1>4, <1>7, <1>8, <1>9, <1>10, <1>11, <1>12 DEF SharedIInv

\* A thread takes a copy of a link.
LEMMA ReadKeeps ==
    ASSUME SharedIInv, NEW w \in Threads, NEW l \in Links, NEW op \in {"upload"} \union Verdicts,
           ReadLink(w, l, op)
    PROVE  SharedIInv'
<1> DEFINE x == [stage |-> "loaded", op |-> op, link |-> l, copy |-> links[l]]
<1>1. UNCHANGED <<letter, links, rows, person, drawn, verified, verdict, answered, split, dropped>>
  BY DEF ReadLink
<1>2. thread' = [thread EXCEPT ![w] = x] /\ thread \in [Threads -> Work]
  BY DEF ReadLink, SharedIInv, SharedTypeOK
<1>3. \A v \in Threads : thread'[v] = IF v = w THEN x ELSE thread[v]
  BY <1>2
<1>4. links[l] # NoLink /\ links[l] \in Link /\ l \in Live
  BY EachLink DEF ReadLink, SharedIInv
<1>5. x \in Work /\ x.stage = "loaded" /\ x.op = op /\ x.link = l /\ x.copy = links[l]
  BY <1>4, WorkMade
<1>6. op \in Verdicts => links[l].sub # NothingSent
  BY DEF ReadLink, Verdicts
<1>7. links[l].sub \in Sent /\ links[l].sub.doc <= drawn
  BY EachLink DEF SharedIInv, IdsAreDrawn
<1> HIDE DEF x
<1>8. linkTorn' \in BOOLEAN
  BY DEF ReadLink, SharedIInv, SharedTypeOK
<1>9. SharedTypeOK'
  BY <1>1, <1>2, <1>5, <1>8 DEF SharedIInv, SharedTypeOK
<1>10. Live' = Live
  BY <1>1 DEF Live
<1>11. IdsAreDrawn'
  BY <1>1, <1>3, <1>5, <1>6, <1>7 DEF SharedIInv, IdsAreDrawn
<1>12. NewFilesAreFresh'
  <2> SUFFICES ASSUME NEW v \in Threads, thread'[v].stage = "stored"
               PROVE  /\ thread'[v].doc <= drawn /\ verdict[thread'[v].doc] = "none"
                      /\ thread'[v].copy.sub.doc < thread'[v].doc
                      /\ \A k \in Links : links[k].sub.doc # thread'[v].doc
                      /\ \A u \in Threads \ {v} :
                           /\ thread'[u].stage # "idle" => thread'[u].copy.sub.doc # thread'[v].doc
                           /\ thread'[u].stage = "stored" => thread'[u].doc # thread'[v].doc
    BY <1>1 DEF NewFilesAreFresh
  <2>1. v # w /\ thread'[v] = thread[v]
    BY <1>3, <1>5
  <2>2. \A k \in Links : links[k].sub.doc # thread[v].doc
    BY <2>1 DEF SharedIInv, NewFilesAreFresh
  <2>3. ASSUME NEW u \in Threads \ {v}
        PROVE  /\ thread'[u].stage # "idle" => thread'[u].copy.sub.doc # thread'[v].doc
               /\ thread'[u].stage = "stored" => thread'[u].doc # thread'[v].doc
    <3>1. CASE u = w
      BY <1>3, <1>5, <2>1, <2>2, <3>1
    <3>2. CASE u # w
      <4>1. thread'[u] = thread[u]
        BY <1>3, <3>2
      <4> QED
        BY <2>1, <2>3, <4>1 DEF SharedIInv, NewFilesAreFresh
    <3> QED
      BY <3>1, <3>2
  <2> QED
    BY <2>1, <2>3 DEF SharedIInv, NewFilesAreFresh
<1>13. VerdictsAgree'
  BY <1>1 DEF SharedIInv, VerdictsAgree
<1>14. LinksAreHeld'
  BY <1>1, <1>3, <1>4, <1>5, <1>10 DEF SharedIInv, LinksAreHeld
<1>15. CopiesAreCurrent'
  <2> SUFFICES ASSUME ~linkTorn' PROVE CopiesAreCurrent'
    BY DEF CopiesAreCurrent
  <2>1. ~linkTorn /\ \A v \in Threads : thread[v] # NoWork => thread[v].link # l
    BY DEF ReadLink
  <2>2. \A v \in Threads : thread[v].stage # "idle" => thread[v].link # l
    BY <2>1, BusyThread, WorkMade DEF SharedIInv
  <2> QED
    BY <1>1, <1>3, <1>5, <2>1, <2>2 DEF SharedIInv, CopiesAreCurrent
<1>16. LatestAnswerCounts'
  <2>1. linkTorn => linkTorn'
    BY DEF ReadLink
  <2> QED
    BY <1>1, <1>10, <2>1 DEF SharedIInv, LatestAnswerCounts
<1> QED
  BY <1>9, <1>11, <1>12, <1>13, <1>14, <1>15, <1>16 DEF SharedIInv

\* An upload stores its file under the next id.
LEMMA StoreKeeps ==
    ASSUME SharedIInv, NEW w \in Threads, NEW d \in Docs, StoreUpload(w, d)
    PROVE  SharedIInv'
<1> DEFINE x == [stage |-> "stored", link |-> thread[w].link, copy |-> thread[w].copy, doc |-> d]
<1>1. UNCHANGED <<letter, links, person, verified, verdict, answered, linkTorn, split, dropped>>
  BY DEF StoreUpload, sharedHistory
<1>2. thread' = [thread EXCEPT ![w] = x] /\ thread \in [Threads -> Work]
  BY DEF StoreUpload, SharedIInv, SharedTypeOK
<1>3. \A v \in Threads : thread'[v] = IF v = w THEN x ELSE thread[v]
  BY <1>2
<1>4. thread[w].stage = "loaded" /\ thread[w].link \in Links /\ thread[w].copy \in Link
  BY BusyThread DEF StoreUpload, SharedIInv
<1>5. x \in Work /\ x.stage = "stored" /\ x.link = thread[w].link /\ x.copy = thread[w].copy
      /\ x.doc = d
  BY <1>4, WorkMade
<1> HIDE DEF x
<1>6. drawn' = d /\ d = drawn + 1 /\ drawn \in 0..MaxDocs /\ d \in 1..MaxDocs
  BY DEF StoreUpload, SharedIInv, SharedTypeOK, Docs
<1>7. \A e \in Docs : rows'[e] # "none" => rows[e] # "none" \/ e = d
  BY DEF StoreUpload, SharedIInv, SharedTypeOK
<1>8. rows' \in [Docs -> Owners \union {"none"}]
  <2>1. thread[w].copy.owner \in Owners
    BY <1>4, LinkFields DEF Link
  <2> QED
    BY <2>1 DEF StoreUpload, SharedIInv, SharedTypeOK
<1>9. SharedTypeOK'
  BY <1>1, <1>2, <1>5, <1>6, <1>8, SharedAssumption DEF SharedIInv, SharedTypeOK
<1>10. Live' = Live
  BY <1>1 DEF Live
<1>11. \A l \in Links : links[l].sub.doc \in 0..drawn
  BY <1>6, EachLink DEF SharedIInv, IdsAreDrawn
<1>12. \A v \in Threads : thread[v].stage # "idle" => thread[v].copy.sub.doc \in 0..drawn
  BY <1>6, BusyThread DEF SharedIInv, IdsAreDrawn
<1>13. \A v \in Threads : thread[v].stage = "stored" => thread[v].doc \in 1..drawn
  BY <1>6, BusyThread DEF SharedIInv, NewFilesAreFresh, Docs
<1>14. IdsAreDrawn'
  <2>1. \A l \in Links : links'[l].sub.doc <= drawn'
    BY <1>1, <1>6, <1>11
  <2>2. ASSUME NEW e \in Docs, rows'[e] # "none" \/ e \in answered' \/ verdict'[e] # "none"
        PROVE  e <= drawn'
    BY <1>1, <1>6, <1>7, <2>2 DEF SharedIInv, IdsAreDrawn, Docs
  <2>3. ASSUME NEW v \in Threads, thread'[v].stage # "idle"
        PROVE  thread'[v].copy.sub.doc <= drawn'
    BY <1>3, <1>4, <1>5, <1>6, <1>12, <2>3
  <2>4. ASSUME NEW v \in Threads, thread'[v].stage = "loaded", thread'[v].op \in Verdicts
        PROVE  thread'[v].copy.sub # NothingSent
    BY <1>3, <1>5, <2>4 DEF SharedIInv, IdsAreDrawn
  <2> QED
    BY <2>1, <2>2, <2>3, <2>4 DEF IdsAreDrawn
<1>15. NewFilesAreFresh'
  <2>1. verdict[d] = "none"
    BY <1>6 DEF SharedIInv, IdsAreDrawn
  <2> SUFFICES ASSUME NEW v \in Threads, thread'[v].stage = "stored"
               PROVE  /\ thread'[v].doc <= drawn' /\ verdict[thread'[v].doc] = "none"
                      /\ thread'[v].copy.sub.doc < thread'[v].doc
                      /\ \A k \in Links : links[k].sub.doc # thread'[v].doc
                      /\ \A u \in Threads \ {v} :
                           /\ thread'[u].stage # "idle" => thread'[u].copy.sub.doc # thread'[v].doc
                           /\ thread'[u].stage = "stored" => thread'[u].doc # thread'[v].doc
    BY <1>1 DEF NewFilesAreFresh
  <2>2. CASE v = w
    <3>1. thread'[v].doc = d /\ thread'[v].copy = thread[w].copy
      BY <1>3, <1>5, <2>2
    <3>2. thread[w].copy.sub.doc < d
      BY <1>4, <1>6, <1>12
    <3>3. \A u \in Threads \ {v} : thread'[u] = thread[u]
      BY <1>3, <2>2
    <3> QED
      BY <1>6, <1>11, <1>12, <1>13, <2>1, <3>1, <3>2, <3>3
  <2>3. CASE v # w
    <3>1. thread'[v] = thread[v]
      BY <1>3, <2>3
    <3>2. /\ thread[v].doc <= drawn /\ verdict[thread[v].doc] = "none"
          /\ thread[v].copy.sub.doc < thread[v].doc
          /\ \A k \in Links : links[k].sub.doc # thread[v].doc
          /\ \A u \in Threads \ {v} :
               /\ thread[u].stage # "idle" => thread[u].copy.sub.doc # thread[v].doc
               /\ thread[u].stage = "stored" => thread[u].doc # thread[v].doc
      BY <3>1 DEF SharedIInv, NewFilesAreFresh
    <3>3. thread[v].doc \in 1..drawn
      BY <1>13, <3>1
    <3>4. ASSUME NEW u \in Threads \ {v}
          PROVE  /\ thread'[u].stage # "idle" => thread'[u].copy.sub.doc # thread'[v].doc
                 /\ thread'[u].stage = "stored" => thread'[u].doc # thread'[v].doc
      BY <1>3, <1>4, <1>5, <1>6, <3>1, <3>2, <3>3
    <3> QED
      BY <1>6, <3>1, <3>2, <3>3, <3>4
  <2> QED
    BY <2>2, <2>3
<1>16. VerdictsAgree'
  BY <1>1 DEF SharedIInv, VerdictsAgree
<1>17. LinksAreHeld'
  <2>1. ~dropped => Live # {}
    BY <1>4 DEF SharedIInv, LinksAreHeld
  <2> QED
    BY <1>1, <1>3, <1>4, <1>5, <1>10, <2>1 DEF SharedIInv, LinksAreHeld
<1>18. CopiesAreCurrent'
  BY <1>1, <1>3, <1>4, <1>5 DEF SharedIInv, CopiesAreCurrent
<1>19. LatestAnswerCounts'
  BY <1>1, <1>10 DEF SharedIInv, LatestAnswerCounts
<1> QED
  BY <1>9, <1>14, <1>15, <1>16, <1>17, <1>18, <1>19 DEF SharedIInv

\* A new link, perhaps with an approval that another one has.
LEMMA SendKeeps ==
    ASSUME SharedIInv, NEW l \in Links, NEW owner \in Owners, SendLink(l, owner)
    PROVE  SharedIInv'
<1>1. UNCHANGED <<letter, rows, person, drawn, thread, verified, verdict, answered, linkTorn,
                  split, dropped>>
  BY DEF SendLink, sharedHistory
<1>2. PICK sub \in {NothingSent} \union {s \in Submissions : s.status = "Verified"} :
         links' = [links EXCEPT ![l] = [owner |-> owner, sub |-> sub]]
  BY DEF SendLink
<1>3. sub # NothingSent => \E k \in Live : k # l /\ sub = links[k].sub
  BY DEF Submissions, SendLink, Live
<1>4. sub \in Sent
  BY <1>3, EachLink, NothingIsNoDocument DEF Live, SharedIInv
<1> DEFINE q == [owner |-> owner, sub |-> sub]
<1>5. q \in Link /\ q # NoLink /\ q.sub = sub
  <2>1. q \in Link /\ q.sub = sub
    BY <1>4 DEF Link
  <2> QED
    BY <2>1, LinkFields
<1>6. \A k \in Links : links'[k] = IF k = l THEN q ELSE links[k]
  BY <1>2 DEF SharedIInv, SharedTypeOK
<1> HIDE DEF q
<1>7. SharedTypeOK'
  <2>1. links' = [links EXCEPT ![l] = q]
    BY <1>2 DEF q
  <2> QED
    BY <1>1, <1>5, <2>1 DEF SharedIInv, SharedTypeOK
<1>8. Live' = Live \union {l} /\ l \notin Live
  BY <1>5, <1>6 DEF Live, SendLink
<1>9. sub.doc = 0 \/ \E k \in Live : k # l /\ sub.doc = links[k].sub.doc
  BY <1>3, NothingIsNoDocument
<1>10. IdsAreDrawn'
  <2>1. sub.doc <= drawn
    BY <1>9 DEF SharedIInv, IdsAreDrawn, Live, SharedTypeOK
  <2> QED
    BY <1>1, <1>5, <1>6, <2>1 DEF SharedIInv, IdsAreDrawn
<1>11. NewFilesAreFresh'
  <2>1. ASSUME NEW w \in Threads, thread[w].stage = "stored"
        PROVE  sub.doc # thread[w].doc
    BY <1>9, <2>1, BusyThread DEF SharedIInv, NewFilesAreFresh, Live, Docs
  <2> QED
    BY <1>1, <1>5, <1>6, <2>1 DEF SharedIInv, NewFilesAreFresh
<1>12. VerdictsAgree'
  BY <1>1, <1>3, <1>5, <1>6 DEF SharedIInv, VerdictsAgree, Live
<1>13. LinksAreHeld'
  BY <1>1, <1>8 DEF SharedIInv, LinksAreHeld
<1>14. CopiesAreCurrent'
  <2>1. ~dropped => \A w \in Threads : thread[w].stage # "idle" => thread[w].link # l
    BY <1>8 DEF SharedIInv, LinksAreHeld
  <2> QED
    BY <1>1, <1>6, <2>1, BusyThread DEF SharedIInv, CopiesAreCurrent
<1>15. LatestAnswerCounts'
  BY <1>1, <1>6, <1>8 DEF SharedIInv, LatestAnswerCounts, Live
<1> QED
  BY <1>7, <1>10, <1>11, <1>12, <1>13, <1>14, <1>15 DEF SharedIInv

\* A thread writes its copy back: while no link was deleted the link is still there, and
\* while no two copies were open the other threads have other links.
LEMMA WriteKeepsCopies ==
    ASSUME SharedIInv, NEW w \in Threads, thread[w].stage # "idle", NEW q \in Link,
           links' = [links EXCEPT ![thread[w].link] = q], Release(w),
           UNCHANGED <<drawn, linkTorn, dropped>>
    PROVE  /\ thread[w].link \in Links
           /\ \A k \in Links : links'[k] = IF k = thread[w].link THEN q ELSE links[k]
           /\ \A v \in Threads : thread'[v].stage # "idle" => v # w /\ thread'[v] = thread[v]
           /\ links' \in [Links -> Link \union {NoLink}] /\ thread' \in [Threads -> Work]
           /\ Live' = Live \union {thread[w].link}
           /\ LinksAreHeld' /\ CopiesAreCurrent'
<1>1. thread[w].link \in Links
  BY BusyThread DEF SharedIInv
<1>2. \A k \in Links : links'[k] = IF k = thread[w].link THEN q ELSE links[k]
  BY <1>1 DEF SharedIInv, SharedTypeOK
<1>3. thread' \in [Threads -> Work]
      /\ \A v \in Threads : thread'[v] = IF v = w THEN NoWork ELSE thread[v]
  BY WorkMade DEF Release, SharedIInv, SharedTypeOK
<1>4. \A v \in Threads : thread'[v].stage # "idle" => v # w /\ thread'[v] = thread[v]
  BY <1>3, WorkMade
<1>5. links' \in [Links -> Link \union {NoLink}]
  BY <1>1 DEF SharedIInv, SharedTypeOK
<1>6. Live' = Live \union {thread[w].link}
  BY <1>1, <1>2, LinkFields DEF Live
<1>7. LinksAreHeld'
  BY <1>4, <1>6 DEF SharedIInv, LinksAreHeld
<1>8. CopiesAreCurrent'
  <2>1. ~linkTorn => \A v \in Threads : thread'[v].stage # "idle" => thread[v].link # thread[w].link
    BY <1>4 DEF SharedIInv, CopiesAreCurrent
  <2>2. \A v \in Threads : thread'[v].stage # "idle" => thread[v].link \in Links
    BY <1>4, BusyThread DEF SharedIInv
  <2> QED
    BY <1>2, <1>4, <2>1, <2>2 DEF SharedIInv, CopiesAreCurrent
<1> QED
  BY <1>1, <1>2, <1>3, <1>4, <1>5, <1>6, <1>7, <1>8

\* An upload puts its file on the link, and is answered.
LEMMA UploadKeeps ==
    ASSUME SharedIInv, NEW w \in Threads, WriteUpload(w)
    PROVE  SharedIInv'
<1> DEFINE d == thread[w].doc
           m == thread[w].link
           q == [thread[w].copy EXCEPT !.sub = [doc |-> d, status |-> "Submitted"]]
<1>1. UNCHANGED <<letter, rows, person, drawn, verified, verdict, linkTorn, split, dropped>>
      /\ links' = [links EXCEPT ![m] = q] /\ answered' = answered \union {d} /\ Release(w)
      /\ thread[w].stage = "stored" /\ thread[w].stage # "idle"
  BY DEF WriteUpload
<1>2. thread[w].copy \in Link /\ d \in Docs
  BY <1>1, BusyThread DEF SharedIInv
<1>3. q \in Link /\ q.sub.doc = d /\ q.sub.status = "Submitted" /\ q.sub # NothingSent
  BY <1>2, LinksMade
<1>4. /\ d <= drawn /\ verdict[d] = "none" /\ thread[w].copy.sub.doc < d
      /\ \A v \in Threads \ {w} : /\ thread[v].stage # "idle" => thread[v].copy.sub.doc # d
                                  /\ thread[v].stage = "stored" => thread[v].doc # d
  BY <1>1 DEF SharedIInv, NewFilesAreFresh
<1>5. thread[w].stage # "idle"
  BY <1>1
<1> HIDE DEF q
<1>6. /\ m \in Links
      /\ \A k \in Links : links'[k] = IF k = m THEN q ELSE links[k]
      /\ \A v \in Threads : thread'[v].stage # "idle" => v # w /\ thread'[v] = thread[v]
      /\ links' \in [Links -> Link \union {NoLink}] /\ thread' \in [Threads -> Work]
      /\ Live' = Live \union {m}
      /\ LinksAreHeld' /\ CopiesAreCurrent'
  BY <1>1, <1>3, WriteKeepsCopies
<1> HIDE DEF d, m
<1>7. SharedTypeOK'
  BY <1>1, <1>2, <1>6 DEF SharedIInv, SharedTypeOK
<1>8. IdsAreDrawn'
  BY <1>1, <1>3, <1>4, <1>6 DEF SharedIInv, IdsAreDrawn
<1>9. NewFilesAreFresh'
  BY <1>1, <1>3, <1>4, <1>6 DEF SharedIInv, NewFilesAreFresh
<1>10. VerdictsAgree'
  BY <1>1, <1>3, <1>4, <1>6 DEF SharedIInv, VerdictsAgree
<1>11. LatestAnswerCounts'
  <2> SUFFICES ASSUME ~dropped, ~linkTorn, NEW e \in answered'
               PROVE  \E k \in Live' : e <= links'[k].sub.doc
    BY <1>1 DEF LatestAnswerCounts
  <2>1. d \in Int /\ thread[w].copy = links[m]
    BY <1>1, <1>2 DEF SharedIInv, CopiesAreCurrent, m, Docs
  <2>2. CASE e = d
    BY <1>3, <1>6, <2>1, <2>2
  <2>3. CASE e \in answered
    <3>1. PICK k \in Live : e <= links[k].sub.doc
      BY <2>3 DEF SharedIInv, LatestAnswerCounts
    <3>2. k \in Links /\ links[k].sub.doc \in Int /\ e \in Int
      BY <2>3, EachLink DEF Live, SharedIInv, SharedTypeOK, Docs
    <3>3. CASE k = m
      BY <1>3, <1>4, <1>6, <2>1, <3>1, <3>2, <3>3
    <3>4. CASE k # m
      BY <1>6, <3>1, <3>2, <3>4
    <3> QED
      BY <3>3, <3>4
  <2> QED
    BY <1>1, <2>2, <2>3
<1> QED
  BY <1>6, <1>7, <1>8, <1>9, <1>10, <1>11 DEF SharedIInv

\* A verdict goes to the link that was read, and to its document.
LEMMA ReviewKeeps ==
    ASSUME SharedIInv, NEW w \in Threads, WriteReview(w)
    PROVE  SharedIInv'
<1> DEFINE d == thread[w].copy.sub.doc
           m == thread[w].link
           says == thread[w].op
           q == [thread[w].copy EXCEPT !.sub.status = says]
<1>1. /\ UNCHANGED <<letter, rows, person, drawn, answered, linkTorn, dropped>>
      /\ links' = [links EXCEPT ![m] = q] /\ Release(w)
      /\ thread[w].stage = "loaded" /\ thread[w].stage # "idle" /\ says \in Verdicts
      /\ verified' = (IF says = "Verified" THEN verified \union {d} ELSE verified)
      /\ verdict' = [verdict EXCEPT ![d] = says]
      /\ split' = (split \/ \E l \in Live \ {m} : links[l].sub.doc = d)
  BY DEF WriteReview
<1>2. thread[w].copy \in Link /\ thread[w].copy.sub \in Sent /\ thread[w].copy.sub # NothingSent
  BY <1>1, BusyThread DEF SharedIInv, IdsAreDrawn
<1>3. d \in Docs /\ d <= drawn
  BY <1>1, <1>2, SentFields DEF SharedIInv, IdsAreDrawn
<1>4. q \in Link /\ q.sub = [doc |-> d, status |-> says]
  BY <1>1, <1>2, LinksMade
<1>5. q.sub.doc = d /\ q.sub.status = says /\ q.sub # NothingSent
  BY <1>3, <1>4, NothingIsNoDocument DEF Docs
<1> HIDE DEF q
<1>6. /\ m \in Links
      /\ \A k \in Links : links'[k] = IF k = m THEN q ELSE links[k]
      /\ \A v \in Threads : thread'[v].stage # "idle" => v # w /\ thread'[v] = thread[v]
      /\ links' \in [Links -> Link \union {NoLink}] /\ thread' \in [Threads -> Work]
      /\ Live' = Live \union {m}
      /\ LinksAreHeld' /\ CopiesAreCurrent'
  BY <1>1, <1>4, WriteKeepsCopies
<1>7. \A v \in Threads : thread[v].stage = "stored" => v # w /\ thread[v].doc # d
  BY <1>1 DEF SharedIInv, NewFilesAreFresh
<1>8. ~linkTorn /\ ~dropped => links[m].sub.doc = d
  BY <1>1 DEF SharedIInv, CopiesAreCurrent
<1> HIDE DEF d, m, says
<1>9. \A e \in Docs : verdict'[e] = IF e = d THEN says ELSE verdict[e]
  BY <1>1 DEF SharedIInv, SharedTypeOK
<1>10. SharedTypeOK'
  <2>1. split' \in BOOLEAN
    BY <1>1 DEF SharedIInv, SharedTypeOK
  <2>2. verified' \subseteq Docs /\ verdict' \in [Docs -> Verdicts \union {"none"}]
    BY <1>1, <1>3 DEF SharedIInv, SharedTypeOK
  <2> QED
    BY <1>1, <1>6, <2>1, <2>2 DEF SharedIInv, SharedTypeOK
<1>11. IdsAreDrawn'
  BY <1>1, <1>3, <1>5, <1>6, <1>9 DEF SharedIInv, IdsAreDrawn
<1>12. NewFilesAreFresh'
  <2>1. \A v \in Threads : thread[v].stage = "stored" => verdict'[thread[v].doc] = verdict[thread[v].doc]
    BY <1>7, <1>9, BusyThread DEF SharedIInv
  <2> QED
    BY <1>1, <1>5, <1>6, <1>7, <2>1 DEF SharedIInv, NewFilesAreFresh
<1>13. VerdictsAgree'
  <2> SUFFICES ASSUME NEW k \in Links, links'[k].sub # NothingSent
               PROVE  /\ links'[k].sub.status = "Verified" => links'[k].sub.doc \in verified'
                      /\ split' \/ verdict'[links'[k].sub.doc] =
                           IF links'[k].sub.status = "Submitted" THEN "none"
                           ELSE links'[k].sub.status
    BY DEF VerdictsAgree
  <2>1. CASE k = m
    <3>1. says # "Submitted"
      BY <1>1 DEF Verdicts
    <3> QED
      BY <1>1, <1>3, <1>5, <1>6, <1>9, <2>1, <3>1
  <2>2. CASE k # m
    <3>1. links'[k] = links[k] /\ links[k].sub # NothingSent
      BY <1>6, <2>2
    <3>2. k \in Live /\ links[k].sub.doc \in Docs
      BY <3>1, EachLink, SentFields, NothingIsNoDocument DEF Live, SharedIInv
    <3>3. links[k].sub.doc = d => split'
      BY <1>1, <2>2, <3>2
    <3>4. split => split'
      BY <1>1
    <3> QED
      BY <1>1, <1>9, <3>1, <3>2, <3>3, <3>4 DEF SharedIInv, VerdictsAgree
  <2> QED
    BY <2>1, <2>2
<1>14. LatestAnswerCounts'
  BY <1>1, <1>5, <1>6, <1>8 DEF SharedIInv, LatestAnswerCounts, Live
<1> QED
  BY <1>6, <1>10, <1>11, <1>12, <1>13, <1>14 DEF SharedIInv

\* Nothing was sent, uploaded or judged.
LEMMA SharedStarts ==
    ASSUME SharedInit
    PROVE  SharedIInv
<1> USE SharedAssumption, NothingIsNoDocument
<1>1. Live = {}
  BY DEF SharedInit, Live
<1>2. SharedTypeOK
  <2>1. letter \in BOOLEAN /\ linkTorn \in BOOLEAN /\ split \in BOOLEAN /\ dropped \in BOOLEAN
    BY Zenon DEF SharedInit
  <2>5. verified \subseteq Docs /\ answered \subseteq Docs /\ drawn \in 0..MaxDocs
    BY DEF SharedInit
  <2>2. person \in [candidate : BOOLEAN, employee : BOOLEAN, arrived : BOOLEAN]
    BY DEF SharedInit
  <2>3. links \in [Links -> Link \union {NoLink}] /\ thread \in [Threads -> Work]
    BY WorkMade DEF SharedInit
  <2>4. /\ rows \in [Docs -> Owners \union {"none"}]
        /\ verdict \in [Docs -> Verdicts \union {"none"}]
    BY DEF SharedInit
  <2> QED
    BY <2>1, <2>2, <2>3, <2>4, <2>5 DEF SharedTypeOK
<1>3. IdsAreDrawn /\ VerdictsAgree
  BY WorkMade DEF SharedInit, IdsAreDrawn, VerdictsAgree
<1>4. NewFilesAreFresh /\ CopiesAreCurrent
  BY WorkMade DEF SharedInit, NewFilesAreFresh, CopiesAreCurrent
<1>5. LinksAreHeld /\ LatestAnswerCounts
  BY <1>1, WorkMade DEF SharedInit, LinksAreHeld, LatestAnswerCounts
<1> QED
  BY <1>2, <1>3, <1>4, <1>5 DEF SharedIInv

\* The links and rows that HR adds, moves and deletes.
LEMMA HRKeeps ==
    ASSUME SharedIInv,
           \/ \E l \in Links : DeleteLink(l)
           \/ \E d \in Docs : DeleteDocument(d)
           \/ Hire \/ Promote \/ DeleteCandidate \/ MarkArrived \/ UNCHANGED sharedVars
    PROVE  SharedIInv'
<1>1. ASSUME NEW l \in Links, DeleteLink(l)
      PROVE  SharedIInv'
  <2>1. SharedTypeOK'
    BY <1>1, LinkFields DEF DeleteLink, SharedIInv, SharedTypeOK
  <2>2. \A k \in Links : links'[k] \in {links[k], NoLink}
    BY <1>1 DEF DeleteLink, SharedIInv, SharedTypeOK
  <2> QED
    BY <1>1, <2>1, <2>2, LinksGo DEF DeleteLink
<1>2. ASSUME NEW d \in Docs, DeleteDocument(d)
      PROVE  SharedIInv'
  <2>1. SharedTypeOK'
    BY <1>2 DEF DeleteDocument, SharedIInv, SharedTypeOK, sharedHistory
  <2>2. \A e \in Docs : rows'[e] # "none" => rows[e] # "none"
    BY <1>2 DEF DeleteDocument, SharedIInv, SharedTypeOK
  <2> QED
    BY <1>2, <2>1, <2>2, RowsGo DEF DeleteDocument
<1>3. ASSUME Hire \/ MarkArrived \/ UNCHANGED sharedVars
      PROVE  SharedIInv'
  <2>1. SharedTypeOK'
    BY <1>3 DEF Hire, MarkArrived, sharedVars, SharedIInv, SharedTypeOK, sharedHistory
  <2>2. rows' = rows
    BY <1>3 DEF Hire, MarkArrived, sharedVars
  <2>3. UNCHANGED <<links, drawn, thread, sharedHistory>>
    BY <1>3 DEF Hire, MarkArrived, sharedVars
  <2> QED
    BY <2>1, <2>2, <2>3, RowsGo
<1>4. ASSUME Promote
      PROVE  SharedIInv'
  <2>1. SharedTypeOK'
    BY <1>4 DEF Promote, SharedIInv, SharedTypeOK, sharedHistory, Owners
  <2>2. \A e \in Docs : rows'[e] # "none" => rows[e] # "none"
    BY <1>4 DEF Promote
  <2> QED
    BY <1>4, <2>1, <2>2, RowsGo DEF Promote
<1>5. ASSUME DeleteCandidate
      PROVE  SharedIInv'
  <2>1. dropped' \in BOOLEAN
    BY <1>5 DEF DeleteCandidate, SharedIInv, SharedTypeOK
  <2>2. rows' \in [Docs -> Owners \union {"none"}] /\ links' \in [Links -> Link \union {NoLink}]
    BY <1>5 DEF DeleteCandidate, SharedIInv, SharedTypeOK
  <2>3. person' \in [candidate : BOOLEAN, employee : BOOLEAN, arrived : BOOLEAN]
    BY <1>5 DEF DeleteCandidate, SharedIInv, SharedTypeOK
  <2>4. SharedTypeOK'
    BY <1>5, <2>1, <2>2, <2>3 DEF DeleteCandidate, SharedIInv, SharedTypeOK
  <2>5. \A e \in Docs : rows'[e] # "none" => rows[e] # "none"
    BY <1>5 DEF DeleteCandidate
  <2>6. CASE CandidateLinks = {}
    <3>1. \A l \in Links : links[l].owner # "candidate"
      BY <2>6, EachLink, LinkFields DEF CandidateLinks, Live, SharedIInv
    <3>2. links' = links
      BY <1>5, <3>1 DEF DeleteCandidate, SharedIInv, SharedTypeOK
    <3>3. dropped' = dropped
      BY <1>5, <2>6 DEF DeleteCandidate, SharedIInv, SharedTypeOK
    <3> QED
      BY <1>5, <2>4, <2>5, <3>2, <3>3, RowsGo DEF DeleteCandidate, sharedHistory
  <2>7. CASE CandidateLinks # {}
    <3>1. \A l \in Links : links'[l] \in {links[l], NoLink}
      BY <1>5 DEF DeleteCandidate
    <3> QED
      BY <1>5, <2>4, <2>5, <2>7, <3>1, LinksGo DEF DeleteCandidate
  <2> QED
    BY <2>6, <2>7
<1> QED
  BY <1>1, <1>2, <1>3, <1>4, <1>5

\* The inductive invariant of what is shared: the documents a link, a thread or a row can
\* name, and that a link's status is HR's last word on its document (avora_export.review_of).
THEOREM SharedInvariance ==
    SharedSpec => []SharedIInv
<1>1. SharedIInv /\ [SharedNext]_sharedVars => SharedIInv'
  BY HRKeeps, SendKeeps, ReadKeeps, StoreKeeps, UploadKeeps, ReviewKeeps, DieKeeps DEF SharedNext
<1> QED
  BY <1>1, SharedStarts, PTL DEF SharedSpec

\* What Avora and the feed may fetch HR has accepted, whatever the order of uploads, reviews,
\* new links and promotions, with the exceptions the property names.
THEOREM OnlyAcceptedIsShared ==
    SharedSpec => []SharedIsAccepted
<1>1. SharedIInv => FeedIsApproved
  <2> SUFFICES ASSUME SharedIInv, NEW d \in FeedOffers
               PROVE  d \in verified /\ (split \/ verdict[d] = "Verified")
    BY DEF FeedIsApproved
  <2>1. PICK l \in CandidateLinks : links[l].sub = [doc |-> d, status |-> "Verified"]
    BY DEF FeedOffers, VerifiedDocuments
  <2>2. l \in Links /\ d \in Docs
    BY DEF CandidateLinks, Live, FeedOffers, VerifiedDocuments
  <2>3. links[l].sub # NothingSent
    BY <2>1, <2>2 DEF NothingSent, Docs
  <2> QED
    BY <2>1, <2>2, <2>3 DEF SharedIInv, VerdictsAgree
<1>2. SharedIInv /\ ~dropped => AvoraIsCurrent
  <2> SUFFICES ASSUME SharedIInv, ~dropped, NEW d \in AvoraShares
               PROVE  /\ letter \/ d \in verified
                      /\ linkTorn \/ \A e \in answered : e <= d
                      /\ split \/ verdict[d] # "Rejected"
    BY DEF AvoraIsCurrent
  <2>1. d \in Docs /\ rows[d] # "none" /\ IsShareable(d)
    BY DEF AvoraShares, OwnFiles, Stored
  <2>2. Live # {}
    BY <2>1 DEF SharedIInv, IdsAreDrawn, LinksAreHeld, Docs
  <2>3. PICK s \in Latest : s.doc = d /\ Accepted(s)
    BY <2>1, <2>2 DEF IsShareable
  <2>4. PICK l \in Live : s = links[l].sub /\ s # NothingSent
    BY DEF Latest, Submissions
  <2>5. l \in Links /\ s \in Sent /\ s.status \in Verdicts \union {"Submitted"}
    BY <2>4, EachLink, SentFields DEF Live, SharedIInv
  <2>6. s.status # "Rejected" /\ (letter \/ s.status = "Verified")
    BY <2>3 DEF Accepted
  <2>7. letter \/ d \in verified
    BY <2>3, <2>4, <2>5, <2>6 DEF SharedIInv, VerdictsAgree
  <2>8. ASSUME ~linkTorn, NEW e \in answered
        PROVE  e <= d
    <3>1. PICK k \in Live : e <= links[k].sub.doc
      BY <2>8 DEF SharedIInv, LatestAnswerCounts
    <3>2. k \in Links /\ e \in 1..MaxDocs
      BY DEF Live, SharedIInv, SharedTypeOK, Docs
    <3>3. links[k].sub \in Sent /\ links[k].sub.doc \in 0..MaxDocs
      BY <3>2, EachLink DEF SharedIInv
    <3>4. links[k].sub # NothingSent
      BY <3>1, <3>2, <3>3, NothingIsNoDocument, SharedAssumption
    <3>5. links[k].sub.doc <= s.doc
      BY <3>4 DEF Latest, Submissions
    <3> QED
      BY <2>1, <2>3, <3>1, <3>2, <3>3, <3>5, SharedAssumption DEF Docs
  <2>9. split \/ verdict[d] # "Rejected"
    BY <2>3, <2>4, <2>5, <2>6 DEF SharedIInv, VerdictsAgree
  <2> QED
    BY <2>7, <2>8, <2>9
<1> QED
  BY <1>1, <1>2, SharedInvariance, PTL DEF SharedIsAccepted

(*************************************************************************)
(* Reading an Aadhaar card.                                              *)
(*************************************************************************)

\* A set of numbers has a least one.
LEMMA LeastNumber ==
    ASSUME NEW T, T \subseteq Nat, T # {}
    PROVE  \E x \in T : \A y \in T : x <= y
<1>1. PICK x \in T : \A y \in T : ~(<<y, x>> \in OpToRel(<, Nat))
  BY NatLessThanWellFounded, WFMin
<1>2. \A y \in T : ~(y < x)
  BY <1>1 DEF OpToRel
<1> QED
  BY <1>2

\* The two tables, by digits.
Times(a, b) == VerhoeffD[a + 1][b + 1]
Turned(row, d) == VerhoeffP[row + 1][d + 1]

\* The multiplication is that of a group: it is associative, and both sides cancel.
LEMMA TableOfTimes ==
    /\ \A a, b \in Digits : Times(a, b) \in Digits
    /\ \A a, b, c \in Digits : Times(a, c) = Times(b, c) => a = b
    /\ \A a, b, c \in Digits : Times(c, a) = Times(c, b) => a = b
<1>1. \A a, b \in Digits : Times(a, b) \in Digits
  BY DEF Times, VerhoeffD, Digits
<1>2. \A a, b, c \in Digits : Times(a, c) = Times(b, c) => a = b
  BY DEF Times, VerhoeffD, Digits
<1>3. \A a, b, c \in Digits : Times(c, a) = Times(c, b) => a = b
  BY DEF Times, VerhoeffD, Digits
<1> QED
  BY <1>1, <1>2, <1>3

\* Products in the table may be bracketed in any way.
LEMMA TimesAssociates ==
    \A a, b, c \in Digits : Times(Times(a, b), c) = Times(a, Times(b, c))
BY DEF Times, VerhoeffD, Digits

\* Each row of the other table turns different digits into different ones.
LEMMA TableOfTurns ==
    /\ \A row \in 0..7, d \in Digits : Turned(row, d) \in Digits
    /\ \A row \in 0..7, d, e \in Digits : Turned(row, d) = Turned(row, e) => d = e
<1>1. \A row \in 0..7, d \in Digits : Turned(row, d) \in Digits
  BY DEF Turned, VerhoeffP, Digits
<1>2. \A row \in 0..7, d, e \in Digits : Turned(row, d) = Turned(row, e) => d = e
  BY DEF Turned, VerhoeffP, Digits
<1> QED
  BY <1>1, <1>2

\* Two different digits in the turns of a row and the next do not commute.
LEMMA TurnsDoNotCommute ==
    \A row \in 0..7, x, y \in Digits :
        LET next == IF row = 7 THEN 0 ELSE row + 1 IN
        x # y => Times(Turned(row, x), Turned(next, y)) # Times(Turned(row, y), Turned(next, x))
<1>1. \A row \in 0..6, x, y \in Digits :
        x # y => Times(Turned(row, x), Turned(row + 1, y)) # Times(Turned(row, y), Turned(row + 1, x))
  BY DEF Times, Turned, VerhoeffD, VerhoeffP, Digits
<1>2. \A x, y \in Digits :
        x # y => Times(Turned(7, x), Turned(0, y)) # Times(Turned(7, y), Turned(0, x))
  BY DEF Times, Turned, VerhoeffD, VerhoeffP, Digits
<1> QED
  BY <1>1, <1>2

\* What one digit more makes of a sum.
LEMMA AddingADigit ==
    ASSUME NEW p \in Nat
    PROVE  /\ \A s, d \in Digits : Added(s, p, d) \in Digits
           /\ \A s, u, d \in Digits : Added(s, p, d) = Added(u, p, d) => s = u
           /\ \A s, d, e \in Digits : Added(s, p, d) = Added(s, p, e) => d = e
           /\ \A s, x, y \in Digits :
                x # y => Added(Added(s, p, x), p + 1, y) # Added(Added(s, p, y), p + 1, x)
<1> DEFINE row == p % 8
           next == (p + 1) % 8
<1>1. row \in 0..7 /\ next = IF row = 7 THEN 0 ELSE row + 1
  OBVIOUS
<1>2. next \in 0..7
  BY <1>1
<1>3. \A s, d : Added(s, p, d) = Times(s, Turned(row, d))
                /\ Added(s, p + 1, d) = Times(s, Turned(next, d))
  BY DEF Added, Times, Turned
<1> HIDE DEF row, next
<1>4. ASSUME NEW s \in Digits, NEW x \in Digits, NEW y \in Digits, x # y
      PROVE  Added(Added(s, p, x), p + 1, y) # Added(Added(s, p, y), p + 1, x)
  <2> DEFINE a == Turned(row, x)
             b == Turned(next, y)
             c == Turned(row, y)
             d == Turned(next, x)
  <2>1. a \in Digits /\ b \in Digits /\ c \in Digits /\ d \in Digits
    BY <1>1, <1>2, TableOfTurns
  <2>2. Times(a, b) # Times(c, d)
    BY <1>1, <1>4, TurnsDoNotCommute
  <2>3. Added(Added(s, p, x), p + 1, y) = Times(Times(s, a), b)
        /\ Added(Added(s, p, y), p + 1, x) = Times(Times(s, c), d)
    BY <1>3
  <2> HIDE DEF a, b, c, d
  <2>4. Times(a, b) \in Digits /\ Times(c, d) \in Digits
    BY <2>1, TableOfTimes
  <2>5. Times(s, Times(a, b)) # Times(s, Times(c, d))
    BY <2>2, <2>4, TableOfTimes
  <2> QED
    BY <2>1, <2>3, <2>5, TimesAssociates
<1>5. \A s, d \in Digits : Added(s, p, d) \in Digits
  BY <1>1, <1>3, TableOfTimes, TableOfTurns
<1>6. ASSUME NEW s \in Digits, NEW u \in Digits, NEW d \in Digits, Added(s, p, d) = Added(u, p, d)
      PROVE  s = u
  <2>1. Turned(row, d) \in Digits /\ Times(s, Turned(row, d)) = Times(u, Turned(row, d))
    BY <1>1, <1>3, <1>6, TableOfTurns
  <2> QED
    BY <2>1, TableOfTimes
<1>7. ASSUME NEW s \in Digits, NEW d \in Digits, NEW e \in Digits, Added(s, p, d) = Added(s, p, e)
      PROVE  d = e
  <2>1. Turned(row, d) \in Digits /\ Turned(row, e) \in Digits
        /\ Times(s, Turned(row, d)) = Times(s, Turned(row, e))
    BY <1>1, <1>3, <1>7, TableOfTurns
  <2>2. Turned(row, d) = Turned(row, e)
    BY <2>1, TableOfTimes
  <2> QED
    BY <1>1, <2>2, TableOfTurns
<1> QED
  BY <1>4, <1>5, <1>6, <1>7

\* The sums of a number's last digits.
Sums(digits, sum) ==
    /\ sum \in [0..Len(digits) -> Digits]
    /\ sum[0] = 0
    /\ \A i \in 1..Len(digits) :
         sum[i] = Added(sum[i - 1], i - 1, digits[Len(digits) - i + 1])

\* There are such sums, and the checksum is the last of them.
LEMMA ChecksumIsASum ==
    ASSUME NEW digits \in Seq(Digits)
    PROVE  \E sum : Sums(digits, sum) /\ Checksum(digits) = sum[Len(digits)]
<1> DEFINE last == Len(digits)
           Of(i) == digits[last - i + 1]
           F(f) == [i \in 0..last |-> IF i = 0 THEN 0 ELSE Added(f[i - 1], i - 1, Of(i))]
           UpTo(f, k) == /\ f \in [0..k -> Digits] /\ f[0] = 0
                         /\ \A i \in 1..k : f[i] = Added(f[i - 1], i - 1, Of(i))
           Bad == {k \in 0..last : ~\E f : UpTo(f, k)}
<1>1. last \in Nat /\ \A i \in 1..last : Of(i) \in Digits
  OBVIOUS
<1> HIDE DEF Of
<1>2. Bad = {}
  <2> SUFFICES ASSUME Bad # {} PROVE FALSE
    OBVIOUS
  <2>1. PICK k \in Bad : \A m \in Bad : k <= m
    <3>1. Bad \subseteq Nat
      OBVIOUS
    <3> HIDE DEF Bad
    <3> QED
      BY <3>1, LeastNumber
  <2>2. k # 0
    <3>1. UpTo([i \in 0..0 |-> 0], 0)
      BY DEF Digits
    <3> QED
      BY <2>1, <3>1
  <2>3. k - 1 \in 0..last /\ k - 1 \notin Bad
    <3>1. k \in 0..last
      OBVIOUS
    <3> HIDE DEF Bad
    <3> QED
      BY <1>1, <2>1, <2>2, <3>1
  <2>4. PICK f : UpTo(f, k - 1)
    BY <2>3
  <2> DEFINE g == [i \in 0..k |-> IF i = k THEN Added(f[k - 1], k - 1, Of(k)) ELSE f[i]]
  <2>5. Added(f[k - 1], k - 1, Of(k)) \in Digits
    <3>1. k \in 1..last /\ k - 1 \in Nat
      BY <1>1, <2>1, <2>2
    <3>2. f[k - 1] \in Digits /\ Of(k) \in Digits
      BY <1>1, <2>4, <3>1
    <3> QED
      BY <3>1, <3>2, AddingADigit
  <2>6. UpTo(g, k)
    <3>1. k \in Nat /\ k # 0
      BY <1>1, <2>1, <2>2
    <3>2. g \in [0..k -> Digits]
      BY <2>4, <2>5, <3>1
    <3>3. g[0] = 0
      BY <2>4, <3>1
    <3>4. ASSUME NEW i \in 1..k
          PROVE  g[i] = Added(g[i - 1], i - 1, Of(i))
      <4>1. CASE i = k
        BY <3>1, <4>1
      <4>2. CASE i # k
        <5>1. i \in 1..(k - 1) /\ i \in 0..k /\ i - 1 \in 0..k /\ i - 1 # k
          BY <3>1, <4>2
        <5>2. g[i] = f[i] /\ g[i - 1] = f[i - 1]
          BY <4>2, <5>1
        <5> QED
          BY <2>4, <5>1, <5>2
      <4> QED
        BY <4>1, <4>2
    <3> QED
      BY <3>2, <3>3, <3>4
  <2> QED
    BY <2>1, <2>6
<1>3. PICK f : UpTo(f, last)
  BY <1>1, <1>2
<1>4. f = F(f)
  <2>1. \A i \in 0..last : f[i] = F(f)[i]
    BY <1>1, <1>3
  <2> QED
    BY <1>3, <2>1
<1> DEFINE sum == CHOOSE h : h = F(h)
<1>5. sum = F(sum)
  BY <1>4
<1>6. Checksum(digits) = sum[last]
  BY DEF Checksum, Of
<1> HIDE DEF sum
<1>7. sum[0] = 0 /\ \A i \in 1..last : sum[i] = Added(sum[i - 1], i - 1, Of(i))
  BY <1>1, <1>5
<1> DEFINE Odd == {i \in 0..last : sum[i] \notin Digits}
<1>8. Odd = {}
  <2> SUFFICES ASSUME Odd # {} PROVE FALSE
    OBVIOUS
  <2>1. PICK k \in Odd : \A m \in Odd : k <= m
    <3>1. Odd \subseteq Nat
      OBVIOUS
    <3> HIDE DEF Odd
    <3> QED
      BY <3>1, LeastNumber
  <2>2. k # 0
    BY <1>7, <2>1 DEF Digits
  <2>3. k \in 1..last /\ k - 1 \in 0..last /\ k - 1 \in Nat /\ k - 1 \notin Odd
    BY <1>1, <2>1, <2>2
  <2>4. sum[k - 1] \in Digits /\ Of(k) \in Digits
    BY <1>1, <2>3
  <2>5. sum[k] \in Digits
    BY <1>7, <2>3, <2>4, AddingADigit
  <2> QED
    BY <2>1, <2>5
<1>9. sum \in [0..last -> Digits]
  <2>1. DOMAIN sum = 0..last /\ sum = [i \in 0..last |-> sum[i]]
    BY <1>5
  <2> QED
    BY <1>8, <2>1
<1>10. Sums(digits, sum)
  BY <1>1, <1>7, <1>9 DEF Sums, Of
<1> QED
  BY <1>6, <1>10

\* The digits of a number, and its sums.
LEMMA SumsOf ==
    ASSUME NEW n \in Seq(Digits), NEW s, Sums(n, s)
    PROVE  /\ Len(n) \in Nat
           /\ \A i \in 1..Len(n) : n[i] \in Digits
           /\ \A i \in 0..Len(n) : s[i] \in Digits
           /\ \A i \in 1..Len(n) : s[i] = Added(s[i - 1], i - 1, n[Len(n) - i + 1])
           /\ s[0] = 0
BY DEF Sums

\* Sums of numbers with the same last digits agree as far as these go.
LEMMA SumsAgree ==
    ASSUME NEW n \in Seq(Digits), NEW r \in Seq(Digits), Len(n) = Len(r),
           NEW s, Sums(n, s), NEW u, Sums(r, u), NEW k \in 0..Len(n),
           \A i \in 1..k : n[Len(n) - i + 1] = r[Len(n) - i + 1]
    PROVE  s[k] = u[k]
<1> DEFINE last == Len(n)
           Bad == {i \in 0..k : s[i] # u[i]}
<1>1. last \in Nat /\ k \in Nat
  OBVIOUS
<1>2. Bad = {}
  <2> SUFFICES ASSUME Bad # {} PROVE FALSE
    OBVIOUS
  <2>1. PICK m \in Bad : \A i \in Bad : m <= i
    <3>1. Bad \subseteq Nat
      OBVIOUS
    <3> HIDE DEF Bad
    <3> QED
      BY <3>1, LeastNumber
  <2>2. m # 0
    BY <2>1 DEF Sums
  <2>3. m \in 1..k /\ m \in 1..last /\ m - 1 \in 0..k /\ m - 1 \notin Bad
    BY <1>1, <2>1, <2>2
  <2>4. s[m - 1] = u[m - 1] /\ n[last - m + 1] = r[last - m + 1]
    BY <2>3
  <2>5. s[m] = u[m]
    BY <2>3, <2>4 DEF Sums
  <2> QED
    BY <2>1, <2>5
<1> QED
  BY <1>1, <1>2

\* Once they differ they stay apart while the digits are the same.
LEMMA SumsStayApart ==
    ASSUME NEW n \in Seq(Digits), NEW r \in Seq(Digits), Len(n) = Len(r),
           NEW s, Sums(n, s), NEW u, Sums(r, u), NEW k \in 0..Len(n), s[k] # u[k],
           \A i \in (k + 1)..Len(n) : n[Len(n) - i + 1] = r[Len(n) - i + 1]
    PROVE  s[Len(n)] # u[Len(n)]
<1> DEFINE last == Len(n)
           Bad == {i \in k..last : s[i] = u[i]}
<1>1. last \in Nat /\ k \in Nat /\ k <= last
  OBVIOUS
<1>2. Bad = {}
  <2> SUFFICES ASSUME Bad # {} PROVE FALSE
    OBVIOUS
  <2>1. PICK m \in Bad : \A i \in Bad : m <= i
    <3>1. Bad \subseteq Nat
      BY <1>1
    <3> HIDE DEF Bad
    <3> QED
      BY <3>1, LeastNumber
  <2>2. m # k /\ m \in (k + 1)..last /\ m - 1 \in k..last /\ m - 1 \notin Bad
    BY <1>1, <2>1
  <2>3. s[m - 1] # u[m - 1] /\ n[last - m + 1] = r[last - m + 1]
    BY <2>2
  <2>4. m \in 1..last /\ m - 1 \in Nat /\ m - 1 \in 0..last /\ last - m + 1 \in 1..last
    BY <1>1, <2>2
  <2>5. s[m - 1] \in Digits /\ u[m - 1] \in Digits /\ n[last - m + 1] \in Digits
    BY <2>4, SumsOf
  <2>6. s[m] = Added(s[m - 1], m - 1, n[last - m + 1])
        /\ u[m] = Added(u[m - 1], m - 1, n[last - m + 1])
    BY <2>3, <2>4, SumsOf
  <2>7. \A x, y, d \in Digits : Added(x, m - 1, d) = Added(y, m - 1, d) => x = y
    BY <2>4, AddingADigit
  <2>8. s[m] # u[m]
    BY <2>3, <2>5, <2>6, <2>7
  <2> QED
    BY <2>1, <2>8
<1> QED
  BY <1>1, <1>2

\* One digit that is wrong, wherever it is, changes the checksum.
LEMMA OneDigitCounts ==
    ASSUME NEW n \in Seq(Digits), NEW r \in Seq(Digits), Len(n) = Len(r), NEW k \in 1..Len(n),
           n[k] # r[k], \A i \in 1..Len(n) : i # k => n[i] = r[i]
    PROVE  Checksum(n) # Checksum(r)
<1> DEFINE last == Len(n)
           at == last - k
<1>1. PICK s : Sums(n, s) /\ Checksum(n) = s[last]
  BY ChecksumIsASum
<1>2. PICK u : Sums(r, u) /\ Checksum(r) = u[last]
  BY ChecksumIsASum
<1>3. /\ at \in 0..last /\ at + 1 \in 1..last /\ at \in Nat
      /\ last - (at + 1) + 1 = k /\ (at + 1) - 1 = at /\ last = Len(r)
  OBVIOUS
<1> HIDE DEF at
<1>4. s[at] = u[at]
  <2>1. \A i \in 1..at : last - i + 1 \in 1..last /\ last - i + 1 # k
    BY DEF at
  <2> QED
    BY <1>1, <1>2, <1>3, <2>1, SumsAgree
<1>5. s[at + 1] # u[at + 1]
  <2>1. s[at + 1] = Added(s[at], at, n[k])
    BY <1>1, <1>3, SumsOf
  <2>2. u[at + 1] = Added(u[at], at, r[k])
    BY <1>2, <1>3, SumsOf
  <2>3. s[at] \in Digits /\ n[k] \in Digits /\ r[k] \in Digits
    BY <1>1, <1>2, <1>3, SumsOf
  <2>4. \A x, d, e \in Digits : Added(x, at, d) = Added(x, at, e) => d = e
    BY <1>3, AddingADigit
  <2> QED
    BY <1>4, <2>1, <2>2, <2>3, <2>4
<1>6. \A i \in (at + 2)..last : last - i + 1 \in 1..last /\ last - i + 1 # k
  BY <1>3 DEF at
<1>7. at + 1 \in 0..last /\ (at + 1) + 1 = at + 2
  BY <1>3
<1>8. \A i \in ((at + 1) + 1)..last : n[last - i + 1] = r[last - i + 1]
  BY <1>6, <1>7
<1>9. s[last] # u[last]
  BY <1>1, <1>2, <1>5, <1>7, <1>8, SumsStayApart
<1> QED
  BY <1>1, <1>2, <1>9

\* So do two different neighbours that are swapped.
LEMMA SwapCounts ==
    ASSUME NEW n \in Seq(Digits), NEW r \in Seq(Digits), Len(n) = Len(r), NEW k \in 1..(Len(n) - 1),
           n[k] # n[k + 1], r[k] = n[k + 1], r[k + 1] = n[k],
           \A i \in 1..Len(n) : i # k /\ i # k + 1 => n[i] = r[i]
    PROVE  Checksum(n) # Checksum(r)
<1> DEFINE last == Len(n)
           at == last - k - 1
<1>1. PICK s : Sums(n, s) /\ Checksum(n) = s[last]
  BY ChecksumIsASum
<1>2. PICK u : Sums(r, u) /\ Checksum(r) = u[last]
  BY ChecksumIsASum
<1>3. /\ at \in 0..last /\ at \in Nat /\ at + 1 \in 1..last /\ at + 2 \in 1..last
      /\ last - (at + 1) + 1 = k + 1 /\ last - (at + 2) + 1 = k
      /\ (at + 1) - 1 = at /\ (at + 2) - 1 = at + 1 /\ last = Len(r)
  OBVIOUS
<1>4. k \in 1..last /\ k + 1 \in 1..last
  OBVIOUS
<1>7. \A i \in (at + 3)..last :
        last - i + 1 \in 1..last /\ last - i + 1 # k /\ last - i + 1 # k + 1
  OBVIOUS
<1>8. at + 2 \in 0..last /\ (at + 2) + 1 = at + 3
  OBVIOUS
<1>11. \A i \in 1..at : last - i + 1 \in 1..last /\ last - i + 1 # k /\ last - i + 1 # k + 1
  OBVIOUS
<1> HIDE DEF at
<1>5. s[at] = u[at]
  <2>1. at \in 0..Len(n) /\ Sums(n, s) /\ Sums(r, u)
    BY <1>1, <1>2, <1>3
  <2>2. \A i \in 1..at : n[Len(n) - i + 1] = r[Len(n) - i + 1]
    BY <1>11
  <2>3. \A a \in Seq(Digits) : \A b \in Seq(Digits) : Len(a) = Len(b) =>
          \A x : Sums(a, x) => \A y : Sums(b, y) => \A m \in 0..Len(a) :
            (\A i \in 1..m : a[Len(a) - i + 1] = b[Len(a) - i + 1]) => x[m] = y[m]
    BY SumsAgree
  <2>4. \A x : Sums(n, x) => \A y : Sums(r, y) => \A m \in 0..Len(n) :
            (\A i \in 1..m : n[Len(n) - i + 1] = r[Len(n) - i + 1]) => x[m] = y[m]
    BY <2>3
  <2>5. \A m \in 0..Len(n) :
            (\A i \in 1..m : n[Len(n) - i + 1] = r[Len(n) - i + 1]) => s[m] = u[m]
    BY <2>1, <2>4
  <2> QED
    BY <2>1, <2>2, <2>5
<1>6. s[at + 2] # u[at + 2]
  <2>1. s[at + 1] = Added(s[at], at, n[k + 1]) /\ s[at + 2] = Added(s[at + 1], at + 1, n[k])
    BY <1>1, <1>3, SumsOf
  <2>2. u[at + 1] = Added(u[at], at, n[k]) /\ u[at + 2] = Added(u[at + 1], at + 1, n[k + 1])
    BY <1>2, <1>3, SumsOf
  <2>3. s[at] \in Digits /\ n[k] \in Digits /\ n[k + 1] \in Digits
    BY <1>1, <1>3, <1>4, SumsOf
  <2>4. \A z, x, y \in Digits :
          x # y => Added(Added(z, at, x), at + 1, y) # Added(Added(z, at, y), at + 1, x)
    BY <1>3, AddingADigit
  <2> QED
    BY <1>5, <2>1, <2>2, <2>3, <2>4
<1>9. \A i \in ((at + 2) + 1)..last : n[last - i + 1] = r[last - i + 1]
  BY <1>7, <1>8
<1>10. s[last] # u[last]
  BY <1>1, <1>2, <1>6, <1>8, <1>9, SumsStayApart
<1> QED
  BY <1>1, <1>2, <1>10

\* The digits of a number.
LEMMA DigitsOf ==
    ASSUME NEW n \in Seq(Digits)
    PROVE  Len(n) \in Nat /\ \A i \in 1..Len(n) : n[i] \in Digits
OBVIOUS

\* The digits of a whole number, and what becomes of it when one is replaced.
LEMMA OfTwelveDigits ==
    ASSUME NEW n \in Seq(Digits), Len(n) = 12
    PROVE  /\ \A i \in 1..12 : n[i] \in Digits
           /\ \A k \in 1..12, d \in Digits :
                LET r == [n EXCEPT ![k] = d] IN
                /\ r \in Seq(Digits) /\ Len(r) = 12
                /\ \A i \in 1..12 : r[i] = IF i = k THEN d ELSE n[i]
           /\ \A r \in Seq(Digits) : Len(r) = 12 /\ (\A i \in 1..12 : r[i] = n[i]) => r = n
<1>1. \A i \in 1..Len(n) : n[i] \in Digits
  BY DigitsOf
<1>2. 1..Len(n) = 1..12
  OBVIOUS
<1>3. ASSUME NEW k \in 1..12, NEW d \in Digits
      PROVE  LET r == [n EXCEPT ![k] = d] IN
             /\ r \in Seq(Digits) /\ Len(r) = 12
             /\ \A i \in 1..12 : r[i] = IF i = k THEN d ELSE n[i]
  <2>1. k \in 1..Len(n)
    BY <1>2
  <2> DEFINE r == [n EXCEPT ![k] = d]
  <2>2. r \in Seq(Digits)
    BY <1>3, <2>1, ExceptSeq
  <2>3. Len(r) = Len(n)
    BY <1>3, <2>1, ExceptSeq
  <2>4. \A j \in 1..Len(n) : r[j] = IF j = k THEN d ELSE n[j]
    BY <1>3, <2>1, ExceptSeq
  <2> HIDE DEF r
  <2>5. r \in Seq(Digits) /\ Len(r) = 12 /\ \A j \in 1..12 : r[j] = IF j = k THEN d ELSE n[j]
    BY <1>2, <2>2, <2>3, <2>4
  <2> QED
    BY <2>5 DEF r
<1>4. ASSUME NEW r \in Seq(Digits), Len(r) = 12, \A i \in 1..12 : r[i] = n[i]
      PROVE  r = n
  BY <1>2, <1>4, SeqEqual
<1> QED
  BY <1>1, <1>2, <1>3, <1>4

\* What a dropped digit leaves.
LEMMA OneDigitFewer ==
    ASSUME NEW n \in Seq(Digits), Len(n) = 12, NEW i \in 1..12
    PROVE  RemoveAt(n, i) \in Seq(Digits) /\ Len(RemoveAt(n, i)) = 11
<1> DEFINE front == SubSeq(n, 1, i - 1)
           back == SubSeq(n, i + 1, 12)
<1>4. i \in Int /\ i - 1 \in Int /\ i + 1 \in Int
      /\ (\A j \in 1..(i - 1) : n[j] \in Digits) /\ (\A j \in (i + 1)..12 : n[j] \in Digits)
  BY OfTwelveDigits
<1>1. front \in Seq(Digits) /\ Len(front) = i - 1
  <2>1. front \in Seq(Digits) /\ Len(front) = IF 1 <= i - 1 THEN (i - 1) - 1 + 1 ELSE 0
    BY <1>4, SubSeqProperties
  <2> QED
    BY <2>1
<1>2. back \in Seq(Digits) /\ Len(back) = 12 - i
  <2>1. back \in Seq(Digits) /\ Len(back) = IF i + 1 <= 12 THEN 12 - (i + 1) + 1 ELSE 0
    BY <1>4, SubSeqProperties
  <2> QED
    BY <2>1
<1>3. RemoveAt(n, i) = front \o back
  BY DEF RemoveAt
<1> HIDE DEF front, back
<1>5. front \o back \in Seq(Digits) /\ Len(front \o back) = Len(front) + Len(back)
  BY <1>1, <1>2, ConcatProperties
<1> QED
  BY <1>1, <1>2, <1>3, <1>5

\* A single misread of a valid number is the number itself or not valid.
LEMMA ReadsAreCaught ==
    ASSUME NEW n \in Seq(Digits), IsValidAadhaar(n), NEW r \in Reads(n)
    PROVE  r \in Seq(Digits) /\ (IsValidAadhaar(r) => r = n)
<1>1. Len(n) = 12 /\ Checksum(n) = 0
  BY DEF IsValidAadhaar
<1>2. CASE r = n
  BY <1>2
<1>3. ASSUME NEW k \in 1..12, NEW d \in Digits, r = [n EXCEPT ![k] = d]
      PROVE  r \in Seq(Digits) /\ (IsValidAadhaar(r) => r = n)
  <2>1. r \in Seq(Digits) /\ Len(r) = 12
        /\ \A i \in 1..12 : r[i] = IF i = k THEN d ELSE n[i]
    BY <1>1, <1>3, OfTwelveDigits
  <2>2. CASE d = n[k]
    <3>1. \A i \in 1..12 : r[i] = n[i]
      BY <2>1, <2>2
    <3> QED
      BY <1>1, <2>1, <3>1, OfTwelveDigits
  <2>3. CASE d # n[k]
    <3>1. k \in 1..Len(n) /\ Len(n) = Len(r) /\ n[k] # r[k]
          /\ \A i \in 1..Len(n) : i # k => n[i] = r[i]
      BY <1>1, <2>1, <2>3
    <3>2. Checksum(n) # Checksum(r)
      BY <2>1, <3>1, OneDigitCounts
    <3> QED
      BY <1>1, <2>1, <3>2 DEF IsValidAadhaar
  <2> QED
    BY <2>2, <2>3
<1>4. ASSUME NEW i \in 1..12, r = RemoveAt(n, i)
      PROVE  r \in Seq(Digits) /\ (IsValidAadhaar(r) => r = n)
  <2>1. r \in Seq(Digits) /\ Len(r) = 11
    BY <1>1, <1>4, OneDigitFewer
  <2> QED
    BY <2>1 DEF IsValidAadhaar
<1>5. ASSUME NEW k \in 1..11, r = [n EXCEPT ![k] = n[k + 1], ![k + 1] = n[k]]
      PROVE  r \in Seq(Digits) /\ (IsValidAadhaar(r) => r = n)
  <2> DEFINE half == [n EXCEPT ![k] = n[k + 1]]
  <2>1. k \in 1..12 /\ k + 1 \in 1..12 /\ k + 1 # k /\ n[k] \in Digits /\ n[k + 1] \in Digits
    BY <1>1, OfTwelveDigits
  <2>2. half \in Seq(Digits) /\ Len(half) = 12
        /\ \A i \in 1..12 : half[i] = IF i = k THEN n[k + 1] ELSE n[i]
    BY <1>1, <2>1, OfTwelveDigits
  <2>3. r = [half EXCEPT ![k + 1] = n[k]]
    BY <1>5
  <2> HIDE DEF half
  <2>7. \A j \in 1..12 : half[j] \in Digits
    BY <2>2, OfTwelveDigits
  <2>4. r \in Seq(Digits) /\ Len(r) = 12
        /\ \A i \in 1..12 : r[i] = IF i = k + 1 THEN n[k] ELSE half[i]
    <3>1. \A j \in 1..12, d \in Digits :
            LET h == [half EXCEPT ![j] = d] IN
            /\ h \in Seq(Digits) /\ Len(h) = 12
            /\ \A i \in 1..12 : h[i] = IF i = j THEN d ELSE half[i]
      BY <2>2, OfTwelveDigits
    <3>2. LET h == [half EXCEPT ![k + 1] = n[k]] IN
          /\ h \in Seq(Digits) /\ Len(h) = 12
          /\ \A i \in 1..12 : h[i] = IF i = k + 1 THEN n[k] ELSE half[i]
      BY <2>1, <3>1
    <3> QED
      BY <2>3, <3>2
  <2>5. CASE n[k] = n[k + 1]
    <3>1. \A i \in 1..12 : r[i] = n[i]
      BY <2>2, <2>4, <2>5
    <3> QED
      BY <1>1, <2>4, <3>1, OfTwelveDigits
  <2>6. CASE n[k] # n[k + 1]
    <3>1. /\ Len(n) = Len(r) /\ k \in 1..(Len(n) - 1)
          /\ r[k] = n[k + 1] /\ r[k + 1] = n[k]
          /\ \A i \in 1..Len(n) : i # k /\ i # k + 1 => n[i] = r[i]
      BY <1>1, <2>1, <2>2, <2>4
    <3>2. Checksum(n) # Checksum(r)
      BY <2>4, <2>6, <3>1, SwapCounts
    <3> QED
      BY <1>1, <2>4, <3>2 DEF IsValidAadhaar
  <2> QED
    BY <2>5, <2>6
<1>6. r \in {n} \union {[n EXCEPT ![i] = d] : i \in 1..12, d \in Digits}
             \union {RemoveAt(n, i) : i \in 1..12}
             \union {[n EXCEPT ![i] = n[i + 1], ![i + 1] = n[i]] : i \in 1..11}
  BY <1>1 DEF Reads
<1> QED
  BY <1>2, <1>3, <1>4, <1>5, <1>6

\* The runs of digits of a page or a file: the valid ones are the card's number.
GoodRuns(n, runs) ==
    /\ runs \in Seq(Seq(Digits))
    /\ \A i \in 1..Len(runs) : IsValidAadhaar(runs[i]) => runs[i] = n

\* No run, one, two, and two pages' runs together.
LEMMA GoodOnes ==
    ASSUME NEW n
    PROVE  /\ GoodRuns(n, <<>>)
           /\ \A a \in Seq(Digits) : (IsValidAadhaar(a) => a = n) => GoodRuns(n, <<a>>)
           /\ \A a, b \in Seq(Digits) :
                (IsValidAadhaar(a) => a = n) /\ (IsValidAadhaar(b) => b = n) => GoodRuns(n, <<a, b>>)
           /\ \A a, b : GoodRuns(n, a) /\ GoodRuns(n, b) => GoodRuns(n, a \o b)
<1> DEFINE All == Seq(Digits)
<1> HIDE DEF All
<1>1. GoodRuns(n, <<>>)
  BY DEF GoodRuns
<1>2. ASSUME NEW a \in All, IsValidAadhaar(a) => a = n
      PROVE  GoodRuns(n, <<a>>)
  <2>1. <<a>> \in Seq(All) /\ Len(<<a>>) = 1 /\ <<a>>[1] = a
    OBVIOUS
  <2> QED
    BY <1>2, <2>1 DEF GoodRuns, All
<1>3. ASSUME NEW a \in All, NEW b \in All,
             IsValidAadhaar(a) => a = n, IsValidAadhaar(b) => b = n
      PROVE  GoodRuns(n, <<a, b>>)
  <2>1. <<a, b>> \in Seq(All) /\ Len(<<a, b>>) = 2 /\ <<a, b>>[1] = a /\ <<a, b>>[2] = b
    OBVIOUS
  <2>2. \A i \in 1..2 : i = 1 \/ i = 2
    OBVIOUS
  <2> QED
    BY <1>3, <2>1, <2>2 DEF GoodRuns, All
<1>4. ASSUME NEW a, NEW b, GoodRuns(n, a), GoodRuns(n, b)
      PROVE  GoodRuns(n, a \o b)
  <2>1. a \in Seq(All) /\ b \in Seq(All)
    BY <1>4 DEF GoodRuns, All
  <2>2. /\ a \o b \in Seq(All) /\ Len(a \o b) = Len(a) + Len(b)
        /\ \A i \in 1..Len(a) + Len(b) :
             (a \o b)[i] = IF i <= Len(a) THEN a[i] ELSE b[i - Len(a)]
    BY <2>1, ConcatProperties
  <2>3. \A i \in 1..Len(a) + Len(b) :
          (i <= Len(a) => i \in 1..Len(a)) /\ (~(i <= Len(a)) => i - Len(a) \in 1..Len(b))
    BY <2>1
  <2>4. \A i \in 1..Len(a \o b) : IsValidAadhaar((a \o b)[i]) => (a \o b)[i] = n
    BY <1>4, <2>2, <2>3 DEF GoodRuns
  <2> QED
    BY <2>2, <2>4 DEF GoodRuns, All
<1> QED
  BY <1>1, <1>2, <1>3, <1>4 DEF All

\* What a page gives.
LEMMA PageRuns ==
    ASSUME NEW n \in Cards, NEW p \in Fronts(n) \union Backs(n)
    PROVE  /\ RunTesseract(p).words \in BOOLEAN
           /\ GoodRuns(n, RunTesseract(p).runs)
<1>1. n \in Seq(Digits) /\ IsValidAadhaar(n)
      /\ \A o \in Others : o \in Seq(Digits) /\ ~IsValidAadhaar(o)
  BY CardNumbers
<1>2. \A r \in Reads(n) : r \in Seq(Digits) /\ (IsValidAadhaar(r) => r = n)
  BY <1>1, ReadsAreCaught
<1>3. CASE p \in Wordless
  <2>1. p.words = "none" \/ p.words = "noise"
    BY <1>3 DEF Wordless
  <2>2. RunTesseract(p) = Empty \/ RunTesseract(p) = Raised
    BY <2>1 DEF RunTesseract
  <2>3. RunTesseract(p).words = FALSE /\ RunTesseract(p).runs = <<>>
    BY <2>2 DEF Empty, Raised
  <2> QED
    BY <2>3, GoodOnes
<1>4. ASSUME NEW Runs, p \in Latin(Runs), \A x \in Runs : GoodRuns(n, x)
      PROVE  RunTesseract(p).words \in BOOLEAN /\ GoodRuns(n, RunTesseract(p).runs)
  <2>1. p.words = "latin" /\ p.runs \in Runs
    BY <1>4 DEF Latin
  <2>2. RunTesseract(p) = [words |-> TRUE, runs |-> p.runs, confidence |-> p.confidence]
    BY <2>1 DEF RunTesseract
  <2>3. RunTesseract(p).words = TRUE /\ RunTesseract(p).runs = p.runs
    BY <2>2
  <2> QED
    BY <1>4, <2>1, <2>3
<1>5. \A x \in {<<r>> : r \in Reads(n)} \union {<<o, r>> : o \in Others, r \in Reads(n)} :
        GoodRuns(n, x)
  <2>1. \A r \in Reads(n) : GoodRuns(n, <<r>>)
    BY <1>2, GoodOnes
  <2>2. \A o \in Others, r \in Reads(n) : GoodRuns(n, <<o, r>>)
    BY <1>1, <1>2, GoodOnes
  <2>3. \A x \in {<<r>> : r \in Reads(n)} : GoodRuns(n, x)
    BY <2>1
  <2>4. \A x \in {<<o, r>> : o \in Others, r \in Reads(n)} : GoodRuns(n, x)
    BY <2>2
  <2> QED
    BY <2>3, <2>4
<1>6. \A x \in {<<>>, <<n>>} \union {<<o>> : o \in Others} : GoodRuns(n, x)
  BY <1>1, GoodOnes
<1> QED
  BY <1>3, <1>4, <1>5, <1>6 DEF Fronts, Backs

\* One page's runs joined, and two pages'.
LEMMA Joined ==
    /\ \A a : FlattenSeq(<<a>>) = a
    /\ \A a, b : FlattenSeq(<<a, b>>) = a \o b
<1>1. ASSUME NEW a PROVE FlattenSeq(<<a>>) = a
  <2> DEFINE F(f) == [i \in 1..1 |-> IF i = 1 THEN <<a>>[i] ELSE f[i - 1] \o <<a>>[i]]
             g == CHOOSE f : f = F(f)
  <2>1. [i \in 1..1 |-> a] = F([i \in 1..1 |-> a])
    OBVIOUS
  <2>2. g = F(g)
    BY <2>1
  <2>3. FlattenSeq(<<a>>) = g[1]
    BY DEF FlattenSeq
  <2> HIDE DEF g
  <2> QED
    BY <2>2, <2>3
<1>2. ASSUME NEW a, NEW b PROVE FlattenSeq(<<a, b>>) = a \o b
  <2> DEFINE F(f) == [i \in 1..2 |-> IF i = 1 THEN <<a, b>>[i] ELSE f[i - 1] \o <<a, b>>[i]]
             g == CHOOSE f : f = F(f)
             h == [i \in 1..2 |-> IF i = 1 THEN a ELSE a \o b]
  <2>1. h = F(h)
    <3>1. \A i \in 1..2 : h[i] = F(h)[i]
      OBVIOUS
    <3> QED
      BY <3>1
  <2>2. g = F(g)
    BY <2>1
  <2>3. FlattenSeq(<<a, b>>) = g[2]
    BY DEF FlattenSeq
  <2> HIDE DEF g, h
  <2>4. g[1] = a /\ g[2] = g[1] \o b
    <3>1. F(g)[1] = a /\ F(g)[2] = g[1] \o b
      <4>1. 1 \in 1..2 /\ 2 \in 1..2 /\ 2 - 1 = 1
        OBVIOUS
      <4>2. <<a, b>>[1] = a /\ <<a, b>>[2] = b
        OBVIOUS
      <4> QED
        BY <4>1, <4>2
    <3> HIDE DEF F
    <3> QED
      BY <2>2, <3>1
  <2> QED
    BY <2>3, <2>4
<1> QED
  BY <1>1, <1>2

\* What a file gives: words or none, and good runs.
LEMMA FileRuns ==
    ASSUME NEW n \in Cards, NEW f \in Uploads(n)
    PROVE  /\ OcrExtract(f).words \in BOOLEAN
           /\ GoodRuns(n, OcrExtract(f).runs)
<1> DEFINE single == {<<p>> : p \in Fronts(n)}
           double == {<<p, b>> : p \in Fronts(n), b \in Backs(n)}
           blank == {<<p>> : p \in Wordless}
           exact == {<<p>> : p \in Latin({<<n>>})}
<1>1. /\ Empty.words = FALSE /\ Empty.runs = <<>> /\ Raised.words = FALSE /\ Raised.runs = <<>>
      /\ GoodRuns(n, <<>>)
  BY GoodOnes DEF Empty, Raised
<1>2. CASE f \in [kind : {"image"}, opens : BOOLEAN, pages : single]
  <2>1. PICK p \in Fronts(n) : f.kind = "image" /\ f.pages = <<p>>
    BY <1>2
  <2>2. OcrExtract(f) = Empty \/ OcrExtract(f) = RunTesseract(p)
    BY <2>1 DEF OcrExtract, OcrImage
  <2> QED
    BY <1>1, <2>1, <2>2, PageRuns
<1>3. CASE f.kind = "scan" /\ f.pages \in single
  <2>1. PICK p \in Fronts(n) : f.pages = <<p>>
    BY <1>3
  <2> DEFINE one == RunTesseract(p)
             results == [i \in 1..Len(f.pages) |-> RunTesseract(f.pages[i])]
  <2>2. [i \in 1..Len(f.pages) |-> results[i].runs] = <<one.runs>>
    BY <2>1
  <2> HIDE DEF results
  <2>3. OcrPdfPages(f).words \in BOOLEAN
        /\ OcrPdfPages(f).runs \in {<<>>, one.runs}
    BY <1>1, <2>2, Joined DEF OcrPdfPages, results
  <2> QED
    BY <1>1, <1>3, <2>3, PageRuns DEF OcrExtract
<1>4. CASE f.kind = "scan" /\ f.pages \in double
  <2>1. PICK p \in Fronts(n), b \in Backs(n) : f.pages = <<p, b>>
    BY <1>4
  <2> DEFINE one == RunTesseract(p)
             two == RunTesseract(b)
             results == [i \in 1..Len(f.pages) |-> RunTesseract(f.pages[i])]
             joined == FlattenSeq([i \in 1..Len(f.pages) |-> results[i].runs])
  <2>2. [i \in 1..Len(f.pages) |-> results[i].runs] = <<one.runs, two.runs>>
    BY <2>1
  <2>5. OcrPdfPages(f) \in {Empty, Raised,
                           [words |-> TRUE, runs |-> joined, confidence |-> MeanConfidence(results)]}
    BY DEF OcrPdfPages
  <2>6. joined = one.runs \o two.runs
    BY <2>2, Joined
  <2> HIDE DEF results, joined
  <2>3. OcrPdfPages(f).words \in BOOLEAN
        /\ OcrPdfPages(f).runs \in {<<>>, one.runs \o two.runs}
    <3> DEFINE full == [words |-> TRUE, runs |-> joined, confidence |-> MeanConfidence(results)]
    <3>1. full.words = TRUE /\ full.runs = joined
      OBVIOUS
    <3>2. OcrPdfPages(f) \in {Empty, Raised, full}
      BY <2>5
    <3> HIDE DEF full
    <3>3. CASE OcrPdfPages(f) = full
      BY <2>6, <3>1, <3>3
    <3>4. CASE OcrPdfPages(f) = Empty \/ OcrPdfPages(f) = Raised
      BY <1>1, <3>4
    <3> QED
      BY <3>2, <3>3, <3>4
  <2>4. GoodRuns(n, one.runs \o two.runs)
    BY PageRuns, GoodOnes
  <2> QED
    BY <1>1, <1>4, <2>3, <2>4 DEF OcrExtract
<1>5. CASE f \in [kind : {"text"}, opens : {TRUE}, pages : exact]
  <2>1. PICK p \in Latin({<<n>>}) : f.kind = "text" /\ f.pages = <<p>>
    BY <1>5
  <2>2. OcrExtract(f) = [words |-> TRUE, runs |-> <<n>>, confidence |-> 100]
    <3>1. f.pages[1].runs = <<n>>
      BY <2>1 DEF Latin
    <3> QED
      BY <2>1, <3>1 DEF OcrExtract
  <2>3. OcrExtract(f).words = TRUE /\ OcrExtract(f).runs = <<n>>
    BY <2>2
  <2> QED
    BY <2>3, GoodOnes, CardNumbers
<1>6. blank \subseteq single
  BY DEF Fronts
<1>7. Uploads(n) =
        [kind : {"image", "scan"}, opens : {TRUE}, pages : single]
        \union [kind : {"scan"}, opens : {TRUE}, pages : double]
        \union [kind : {"image", "scan"}, opens : {FALSE}, pages : blank]
        \union [kind : {"text"}, opens : {TRUE}, pages : exact]
  BY DEF Uploads
<1> HIDE DEF single, double, blank, exact
<1>8. \/ f \in [kind : {"image"}, opens : BOOLEAN, pages : single]
      \/ f.kind = "scan" /\ f.pages \in single
      \/ f.kind = "scan" /\ f.pages \in double
      \/ f \in [kind : {"text"}, opens : {TRUE}, pages : exact]
  BY <1>6, <1>7
<1> QED
  BY <1>2, <1>3, <1>4, <1>5, <1>8

\* The number found: a number or none; when it is valid it is the card's, and when one
\* run is the card's it is found.
LEMMA NumberFound ==
    ASSUME NEW n \in Cards, NEW runs, GoodRuns(n, runs)
    PROVE  /\ FindAadhaarCandidate(runs) \in Seq(Digits)
           /\ IsValidAadhaar(FindAadhaarCandidate(runs)) => FindAadhaarCandidate(runs) = n
           /\ n \in Range(runs) => FindAadhaarCandidate(runs) = n
<1> DEFINE All == Seq(Digits)
           V == {i \in 1..Len(runs) : IsValidAadhaar(runs[i])}
           T == {i \in 1..Len(runs) : OfTwelve(runs[i])}
<1>1. V \subseteq Nat /\ T \subseteq Nat
  OBVIOUS
<1>2. \A i \in 1..Len(runs) : runs[i] \in Seq(Digits)
  <2> HIDE DEF All
  <2>1. runs \in Seq(All)
    BY DEF GoodRuns, All
  <2>2. \A i \in 1..Len(runs) : runs[i] \in All
    BY <2>1
  <2> QED
    BY <2>2 DEF All
<1>3. \A S : S \subseteq Nat /\ S # {} => Min(S) \in S
  BY LeastNumber DEF Min
<1>4. SelectInSeq(runs, IsValidAadhaar) = IF V # {} THEN Min(V) ELSE 0
  BY DEF SelectInSeq
<1>5. SelectInSeq(runs, OfTwelve) = IF T # {} THEN Min(T) ELSE 0
  BY DEF SelectInSeq
<1>6. ~IsValidAadhaar(<<>>) /\ <<>> \in Seq(Digits)
  BY DEF IsValidAadhaar
<1>7. CASE V # {}
  <2>1. Min(V) \in V
    BY <1>1, <1>3, <1>7
  <2>2. Min(V) \in 1..Len(runs) /\ IsValidAadhaar(runs[Min(V)]) /\ Min(V) # 0
    BY <2>1
  <2> HIDE DEF V, T
  <2>3. FindAadhaarCandidate(runs) = runs[Min(V)]
    BY <1>4, <1>7, <2>2 DEF FindAadhaarCandidate
  <2> QED
    BY <1>2, <2>2, <2>3 DEF GoodRuns
<1>8. CASE V = {}
  <2>1. \A i \in 1..Len(runs) : ~IsValidAadhaar(runs[i])
    BY <1>8
  <2>2. n \notin Range(runs)
    <3>1. runs \in Seq(All) /\ DOMAIN runs = 1..Len(runs)
      <4> HIDE DEF All
      <4>1. runs \in Seq(All)
        BY DEF GoodRuns, All
      <4> QED
        BY <4>1
    <3> QED
      BY <2>1, <3>1, CardNumbers DEF Range
  <2>3. T # {} => Min(T) \in T
    BY <1>1, <1>3
  <2>4. T # {} => Min(T) \in 1..Len(runs) /\ Min(T) # 0
    BY <2>3
  <2> HIDE DEF V, T
  <2>5. FindAadhaarCandidate(runs) = IF T # {} THEN runs[Min(T)] ELSE <<>>
    BY <1>4, <1>5, <1>8, <2>4 DEF FindAadhaarCandidate
  <2>6. FindAadhaarCandidate(runs) \in Seq(Digits) /\ ~IsValidAadhaar(FindAadhaarCandidate(runs))
    BY <1>2, <1>6, <2>1, <2>4, <2>5
  <2> QED
    BY <2>2, <2>6
<1> QED
  BY <1>7, <1>8

\* What a reading makes of a file: a block with the number found, masked; it is confirmed
\* when that number is valid, and clear only then.
LEMMA BlockOf ==
    ASSUME NEW n \in Cards, NEW f \in Uploads(n)
    PROVE  LET text == OcrExtract(f)
               b == ExtractBytes(text)
           IN /\ b \in Blocks
              /\ b.validated => b.number = MaskAadhaar(n) /\ Taken(text) = n
              /\ b.quality = "clear" => b.validated
              /\ Taken(text) \in Seq(Digits)
              /\ n \in Range(text.runs) => Taken(text) = n
<1> DEFINE text == OcrExtract(f)
           found == FindAadhaarCandidate(text.runs)
           fields == ExtractFields(text)
           b == ExtractBytes(text)
<1>1. text.words \in BOOLEAN /\ GoodRuns(n, text.runs)
  BY FileRuns
<1>2. /\ found \in Seq(Digits) /\ (IsValidAadhaar(found) => found = n)
      /\ n \in Range(text.runs) => found = n
  BY <1>1, NumberFound
<1> HIDE DEF text, found
<1>3. MaskAadhaar(found) \in Seq(Digits)
  <2>1. CASE Len(found) = 12
    <3>1. \A i \in 9..12 : found[i] \in Digits
      BY <1>2, <2>1, OfTwelveDigits
    <3>2. SubSeq(found, 9, 12) \in Seq(Digits)
      BY <3>1, SubSeqProperties
    <3> QED
      BY <2>1, <3>2 DEF MaskAadhaar
  <2>2. CASE Len(found) # 12
    BY <2>2 DEF MaskAadhaar
  <2> QED
    BY <2>1, <2>2
<1>4. /\ fields.number \in Seq(Digits) /\ fields.name \in {"none", "read"}
      /\ fields.validated \in BOOLEAN
      /\ fields.validated => IsValidAadhaar(found) /\ fields.number = MaskAadhaar(found)
  <2>1. CASE text.words
    <3>1. fields = [number |-> MaskAadhaar(found), name |-> "read", validated |-> IsValidAadhaar(found)]
      BY <2>1 DEF ExtractFields, ExtractAadhaar, found
    <3>2. IsValidAadhaar(found) \in BOOLEAN
      BY DEF IsValidAadhaar
    <3> HIDE DEF fields
    <3> QED
      BY <1>3, <3>1, <3>2
  <2>2. CASE ~text.words
    <3>1. fields = [number |-> <<>>, name |-> "none", validated |-> FALSE]
      BY <2>2 DEF ExtractFields
    <3> HIDE DEF fields
    <3> QED
      BY <3>1
  <2> QED
    BY <2>1, <2>2
<1> DEFINE grade == Grade(text.confidence, fields.validated, text.words)
<1>5. grade \in {"clear", "needs_review", "unreadable"} /\ (grade = "clear" => fields.validated)
  BY DEF Grade
<1>6. b = [quality |-> grade, number |-> fields.number, name |-> fields.name,
           validated |-> fields.validated, byHR |-> FALSE]
  BY DEF ExtractBytes, Block
<1> HIDE DEF grade, fields, b
<1>7. b \in Blocks /\ b.quality = grade /\ b.number = fields.number /\ b.validated = fields.validated
  BY <1>4, <1>5, <1>6 DEF Blocks
<1>8. Taken(text) = found
  BY DEF Taken, found
<1> QED
  BY <1>2, <1>4, <1>5, <1>7, <1>8 DEF b, text

-----------------------------------------------------------------------------
\* No document at all has no kind of an upload.
LEMMA NoFileIsNone ==
    NoFile.kind = "none"
    /\ \A n \in Cards : \A f \in Uploads(n) :
         f.kind \in {"image", "scan", "text"} /\ f # NoFile
<1>1. NoFile.kind = "none"
  BY DEF NoFile
<1>2. ASSUME NEW n \in Cards, NEW f \in Uploads(n)
      PROVE  f.kind \in {"image", "scan", "text"}
  <2> DEFINE single == {<<p>> : p \in Fronts(n)}
             double == {<<p, b>> : p \in Fronts(n), b \in Backs(n)}
             blank == {<<p>> : p \in Wordless}
             exact == {<<p>> : p \in Latin({<<n>>})}
  <2>1. Uploads(n) =
          [kind : {"image", "scan"}, opens : {TRUE}, pages : single]
          \union [kind : {"scan"}, opens : {TRUE}, pages : double]
          \union [kind : {"image", "scan"}, opens : {FALSE}, pages : blank]
          \union [kind : {"text"}, opens : {TRUE}, pages : exact]
    BY DEF Uploads
  <2> HIDE DEF single, double, blank, exact
  <2> QED
    BY <2>1
<1> QED
  BY <1>1, <1>2

\* An edited block: what a check confirmed keeps its number.
LEMMA EditedBlock ==
    ASSUME NEW b \in Blocks, NEW submitted
    PROVE  /\ WithEdits(b, submitted) \in Blocks
           /\ WithEdits(b, submitted).validated = b.validated
           /\ WithEdits(b, submitted).quality = b.quality
           /\ WithEdits(b, submitted).byHR = b.byHR
           /\ b.validated => WithEdits(b, submitted).number = b.number
<1> DEFINE number == IF "number" \in submitted /\ ~b.validated THEN <<"typed">> ELSE b.number
           name == IF "name" \in submitted THEN "typed" ELSE b.name
           r == [b EXCEPT !.number = number, !.name = name]
<1>1. number \in {<<"typed">>} \union Seq(Digits) /\ name \in {"none", "read", "typed"}
      /\ (b.validated => number = b.number)
  BY DEF Blocks
<1>2. WithEdits(b, submitted) = r
  BY DEF WithEdits
<1> HIDE DEF number, name
<1>3. /\ r \in Blocks /\ r.validated = b.validated /\ r.quality = b.quality /\ r.byHR = b.byHR
      /\ r.number = number
  BY <1>1 DEF Blocks
<1> QED
  BY <1>1, <1>2, <1>3

\* At the start there is no card's file, block or reading yet.
LEMMA ReadingStarts == ReadingInit => ReadingIInv
<1> SUFFICES ASSUME ReadingInit PROVE ReadingIInv
  OBVIOUS
<1> USE DEF ReadingInit
<1>1. NoBlock.quality = "none"
  BY DEF NoBlock
<1>2. ReadingTypeOK
  BY NoFileIsNone DEF ReadingTypeOK
<1>3. ReadsTheFile
  BY DEF ReadsTheFile
<1>4. MisreadsAreCaught
  BY <1>1 DEF MisreadsAreCaught, Confirmed, ReadWell
<1> QED
  BY <1>2, <1>3, <1>4 DEF ReadingIInv

\* A reading depends on the engine and the file.
LEMMA SameEngine ==
    ASSUME engine' = engine
    PROVE  OcrExtract(file)' = OcrExtract(file')
<1>1. OcrImage(file)' = OcrImage(file')
  BY DEF OcrImage
<1>2. OcrPdfPages(file)' = OcrPdfPages(file')
  BY DEF OcrPdfPages
<1> QED
  BY <1>1, <1>2 DEF OcrExtract

\* The blank blocks.
LEMMA BlankFields ==
    ASSUME NEW quality \in {"needs_review", "unreadable"}
    PROVE  /\ BlankBlock(quality) \in Blocks
           /\ BlankBlock(quality).validated = FALSE
           /\ BlankBlock(quality).quality = quality
<1>1. <<>> \in Seq(Digits)
  OBVIOUS
<1>2. \A v \in BOOLEAN :
        [quality |-> quality, number |-> <<>>, name |-> "none", validated |-> v, byHR |-> v] \in Blocks
  BY <1>1 DEF Blocks
<1>3. BlankBlock(quality) =
        [quality |-> quality, number |-> <<>>, name |-> "none", validated |-> FALSE, byHR |-> FALSE]
  BY DEF BlankBlock, Block
<1>4. [quality |-> quality, number |-> <<>>, name |-> "none", validated |-> FALSE, byHR |-> FALSE]
      \in Blocks
  <2>1. FALSE \in BOOLEAN
    OBVIOUS
  <2> QED
    BY <1>2, <2>1, Zenon
<1>5. /\ BlankBlock(quality).validated = FALSE
      /\ BlankBlock(quality).quality = quality
  BY <1>3
<1> QED
  BY <1>3, <1>4, <1>5, Zenon

\* After a reading of the file the invariant holds, whatever it was before.
LEMMA AfterReading ==
    ASSUME card \in Cards, engine \in BOOLEAN, card' = card, engine' = engine,
           file' \in Uploads(card), status' \in {"Submitted", "Verified", "Rejected"},
           block' = ExtractBytes(OcrExtract(file')), read' = Taken(OcrExtract(file'))
    PROVE  ReadingIInv'
<1> DEFINE text == OcrExtract(file')
<1>0. OcrExtract(file)' = text
  BY SameEngine
<1>1. /\ block' \in Blocks /\ read' \in Seq(Digits)
      /\ block'.validated => block'.number = MaskAadhaar(card) /\ read' = card
      /\ block'.quality = "clear" => block'.validated
      /\ card \in Range(text.runs) => read' = card
  BY BlockOf
<1>2. block' # NoBlock
  BY <1>1 DEF Blocks, NoBlock
<1>3. file'.kind \in {"image", "scan", "text"} /\ file' # NoFile
  BY NoFileIsNone
<1>4. ReadingTypeOK'
  BY <1>1, <1>3 DEF ReadingTypeOK
<1>5. ReadsTheFile'
  BY <1>0, <1>2, <1>3 DEF ReadsTheFile, Taken
<1>6. MisreadsAreCaught'
  BY <1>0, <1>1, <1>2 DEF MisreadsAreCaught, Confirmed, ReadWell
<1> QED
  BY <1>4, <1>5, <1>6 DEF ReadingIInv

\* So does it when nothing was read, on a block that confirms nothing.
LEMMA AfterNothing ==
    ASSUME card \in Cards, engine \in BOOLEAN, card' = card, engine' = engine,
           file' \in Uploads(card), status' \in {"Submitted", "Verified", "Rejected"},
           block' = NoBlock \/ block' = BlankBlock("unreadable"), read' = <<>>
    PROVE  ReadingIInv'
<1>1. /\ block' \in Blocks \union {NoBlock}
      /\ block'.quality # "clear" /\ (block' # NoBlock => ~block'.validated)
  <2>1. NoBlock.quality = "none"
    BY DEF NoBlock
  <2> QED
    BY <2>1, BlankFields
<1>2. file'.kind \in {"image", "scan", "text"} /\ file' # NoFile
  BY NoFileIsNone
<1>3. ReadingTypeOK'
  BY <1>1, <1>2 DEF ReadingTypeOK
<1>4. ReadsTheFile'
  BY <1>2 DEF ReadsTheFile
<1>5. MisreadsAreCaught'
  BY <1>1 DEF MisreadsAreCaught, Confirmed
<1> QED
  BY <1>3, <1>4, <1>5 DEF ReadingIInv

\* And when what was read stays and the block keeps what a check confirmed.
LEMMA AfterEdits ==
    ASSUME ReadingIInv, file # NoFile, NEW b \in Blocks, block' = b,
           card' = card, engine' = engine, file' = file, read' = read,
           status' \in {"Submitted", "Verified", "Rejected"},
           b.validated => /\ block # NoBlock /\ block.validated
                          /\ b.byHR \/ (b.number = block.number /\ ~block.byHR),
           b.quality = "clear" => b.validated
    PROVE  ReadingIInv'
<1> USE DEF ReadingIInv
<1>1. file \in Uploads(card) /\ card \in Cards
  BY DEF ReadsTheFile, ReadingTypeOK
<1>2. b # NoBlock
  BY DEF Blocks, NoBlock
<1>3. ReadingTypeOK'
  BY <1>1 DEF ReadingTypeOK
<1>7. OcrExtract(file)' = OcrExtract(file)
  BY SameEngine
<1>4. ReadsTheFile'
  BY <1>1, <1>7 DEF ReadsTheFile, Taken
<1>5. status # "none"
  BY DEF ReadsTheFile
<1>6. MisreadsAreCaught'
  <2>1. Confirmed' => b.validated
    BY DEF Confirmed
  <2>2. b.validated => read = card /\ (b.byHR \/ b.number = MaskAadhaar(card))
    BY DEF MisreadsAreCaught, Confirmed
  <2>3. b.quality = "clear" => Confirmed'
    BY <1>2 DEF Confirmed
  <2>4. ReadWell' /\ read # <<>> => read = card
    BY <1>5, <1>7 DEF MisreadsAreCaught, ReadWell
  <2> QED
    BY <2>1, <2>2, <2>3, <2>4 DEF MisreadsAreCaught
<1> QED
  BY <1>3, <1>4, <1>6

\* And when the block, the reading and whether there is a submission stay.
LEMMA AfterVerdict ==
    ASSUME ReadingIInv, block' = block, card' = card, engine' = engine, file' = file,
           read' = read, status' \in {"none", "Submitted", "Verified", "Rejected"},
           status' = "none" <=> status = "none"
    PROVE  ReadingIInv'
<1>1. OcrExtract(file)' = OcrExtract(file)
  BY SameEngine
<1>2. ReadingTypeOK'
  BY DEF ReadingIInv, ReadingTypeOK
<1>3. ReadsTheFile'
  BY <1>1 DEF ReadingIInv, ReadsTheFile, Taken
<1>4. MisreadsAreCaught'
  BY <1>1 DEF ReadingIInv, MisreadsAreCaught, Confirmed, ReadWell
<1> QED
  BY <1>2, <1>3, <1>4 DEF ReadingIInv

\* Every step keeps ReadingIInv: readings, edits and reviews are taken one by one.
LEMMA ReadingSteps == ReadingIInv /\ [ReadingNext]_readingVars => ReadingIInv'
<1> SUFFICES ASSUME ReadingIInv, [ReadingNext]_readingVars PROVE ReadingIInv'
  OBVIOUS
<1>0. /\ card \in Cards /\ engine \in BOOLEAN /\ block \in Blocks \union {NoBlock}
      /\ status \in {"none", "Submitted", "Verified", "Rejected"}
      /\ file \in Uploads(card) \union {NoFile} /\ (file = NoFile <=> status = "none")
      /\ read # <<>> => file # NoFile
  BY DEF ReadingIInv, ReadingTypeOK, ReadsTheFile
<1>1. ASSUME Upload PROVE ReadingIInv'
  <2>1. file' \in Uploads(card) /\ status' = "Submitted" /\ card' = card /\ engine' = engine
        /\ read = <<>>
    BY <1>0, <1>1 DEF Upload
  <2>2. \/ block' = ExtractBytes(OcrExtract(file')) /\ read' = Taken(OcrExtract(file'))
        \/ block' = NoBlock /\ read' = read
    BY <1>1 DEF Upload
  <2> QED
    BY <1>0, <2>1, <2>2, AfterReading, AfterNothing
<1>2. ASSUME NEW submitted \in SUBSET {"number", "name"}, Confirm(submitted) PROVE ReadingIInv'
  <2>1. block \in Blocks /\ block # NoBlock /\ block' = WithEdits(block, submitted)
        /\ file # NoFile /\ status' \in {"Submitted", "Verified", "Rejected"}
    BY <1>0, <1>2 DEF Confirm
  <2>2. block.quality = "clear" => block.validated
    BY DEF ReadingIInv, MisreadsAreCaught, Confirmed
  <2>3. /\ block' \in Blocks /\ block'.validated = block.validated
        /\ block'.quality = block.quality /\ block'.byHR = block.byHR
        /\ block.validated => block'.number = block.number
    BY <2>1, EditedBlock
  <2>4. block.byHR \in BOOLEAN
    BY <2>1 DEF Blocks
  <2>5. card' = card /\ engine' = engine /\ file' = file /\ read' = read
    BY <1>2 DEF Confirm
  <2> QED
    BY <2>1, <2>2, <2>3, <2>4, <2>5, AfterEdits
<1>3. ASSUME ExtractAgain PROVE ReadingIInv'
  <2>1. CASE UNCHANGED <<block, read>>
    BY <1>0, <1>3, <2>1, AfterVerdict DEF ExtractAgain
  <2>2. CASE block' = ExtractBytes(OcrExtract(file)) /\ read' = Taken(OcrExtract(file))
    BY <1>0, <1>3, <2>2, AfterReading DEF ExtractAgain
  <2> QED
    BY <1>3, <2>1, <2>2 DEF ExtractAgain
<1>4. ASSUME ExtractMissing PROVE ReadingIInv'
  BY <1>0, <1>4, AfterNothing DEF ExtractMissing
<1>5. ASSUME NEW answer \in {"Verified", "Rejected"}, NEW corrected \in BOOLEAN,
             Review(answer, corrected)
      PROVE  ReadingIInv'
  <2>1. /\ status # "none" /\ file # NoFile /\ status' = answer
        /\ card' = card /\ engine' = engine /\ file' = file /\ read' = read
    BY <1>0, <1>5 DEF Review
  <2>2. CASE block' = block
    BY <2>1, <2>2, AfterVerdict
  <2>3. CASE corrected
    <3> DEFINE old == IF block = NoBlock THEN BlankBlock("needs_review") ELSE block
               b == [old EXCEPT !.number = <<"typed">>, !.name = "typed", !.byHR = TRUE]
    <3>1. block' = b
      BY <1>5, <2>3 DEF Review
    <3>2. old \in Blocks /\ (old.validated => block # NoBlock /\ block.validated)
          /\ (old.quality = "clear" => old.validated)
      <4>3. CASE block = NoBlock
        BY <4>3, BlankFields
      <4>4. CASE block # NoBlock
        BY <1>0, <4>4 DEF ReadingIInv, MisreadsAreCaught, Confirmed
      <4> QED
        BY <4>3, <4>4
    <3> HIDE DEF old
    <3>3. b \in Blocks /\ b.byHR = TRUE /\ b.validated = old.validated /\ b.quality = old.quality
      BY <3>2 DEF Blocks
    <3> HIDE DEF b
    <3> QED
      BY <2>1, <3>1, <3>2, <3>3, AfterEdits
  <2> QED
    BY <1>5, <2>2, <2>3 DEF Review
<1>6. CASE UNCHANGED readingVars
  BY <1>0, <1>6, AfterVerdict DEF readingVars
<1> QED
  BY <1>1, <1>2, <1>3, <1>4, <1>5, <1>6 DEF ReadingNext

\* The inductive invariant of the readings.
THEOREM ReadingInvariance == ReadingSpec => []ReadingIInv
BY ReadingStarts, ReadingSteps, PTL DEF ReadingSpec

\* A single misread digit never ends in a confirmed number (doc_fields.py:223).
THEOREM NoMisreadConfirmed == ReadingSpec => []MisreadsAreCaught
<1>1. ReadingIInv => MisreadsAreCaught
  BY DEF ReadingIInv
<1> QED
  BY <1>1, ReadingInvariance, PTL
=============================================================================
