# Circle-Core: TLA+ specifications

Circle-Core (`app/`) is the backend of an HR system: FastAPI over PostgreSQL,
where nearly every record is one JSON document in a table `(id, data)`;
`voice_bridge/` is a small service of its own. This directory models its stateful
protocols in TLA+, checks them with TLC and proves the core ones with TLAPS.
`PROJECT.json` lists the runs, the mutants each property was tried against, the
source lines every definition stands for, the hazards and the findings.

Four facts about the program shape every model:

- The database engine runs in AUTOCOMMIT and no handler takes a lock, so **one SQL
  statement is one atomic step** and anything may happen between two of them.
- `DocumentRepository.upsert` writes the **whole document**. A handler is a read,
  a copy, work (an upload, OCR, an HTTP call) and a write of the copy.
  `service.patch` is a second read, a merge and a write of the merged copy.
- Two uvicorn processes (`Dockerfile:38`) each serve requests from a thread pool
  and an event loop, and each run one outbox worker.
- What one handler decides on may have changed when it writes. Most of the
  hazards, and most of the exceptions in the properties, come down to this.

## 1. Inventory

| Component (code) | State | Operations | What is hard | Correct means |
| --- | --- | --- | --- | --- |
| Identity outbox and workers (`identity_outbox_repository.py`, `identity_sync.py`, `identity_sync_worker.py`) | table `identity_outbox`; claims held by each worker; requests on the wire | `enqueue`, `claim_due`, `send`, `mark_delivered`, `mark_failed`, leases, backoff | two drainers, newer change while the older is sent, time-outs that were processed, crash between send and delete | no change lost, one sender per row, delivered in the end |
| Employee writes (`resources.py`, `resource_service.py`, `document_repository.py`) | `employees` | create, replace, patch, remove, then enqueue | write and enqueue are separate commits | id-sync converges to the table |
| Screening calls (`screening_calls.py`, `vapi.py`, `sarvam_calls.py`) | `screening_calls` | start (check, insert, dial, bind), status update, report, result, staleness | webhook before the answer, repeated or late events, two starts | one call at a time, a report is kept, verdicts are final |
| Voice webhooks (`vapi_webhook.py`, `webhook_auth.py`) | remembered signatures per process | verify, `was_used`, `remember`, evict | check and record around a handler | a failed delivery can be retried, a handled one is not repeated |
| Voice bridge (`voice_bridge/`) | two websockets, two tasks | handler, pump, relay, stop | one side ends first, cancellation | nothing lost or doubled, the end is told, the session ends |
| Public applications (`public.py`) | `email_otps`, `candidates` | request code, verify, apply | lost attempt counts, check then act across an await | caps hold, one application per posting, a verification used once |
| Candidate tests (`test_public.py`) | `test_invites`, `iq_tests` | start, violation, submit, take-home upload | start racing submit, terminal sets | what was answered about an attempt stands |
| Screening scores (`screening.py`, `screening_call_results.py`, `sarvam_results.py`) | none | rate a form, a Vapi report, Sarvam's variables | one rule in three forms | the three agree, doubt never helps |
| Rate limiter (`rate_limit.py`, `main.py`) | hits per key, per process | `allow`, garbage collection | several windows over one queue | at most the limit in every window |
| Joining documents (`doc_requests.py`, `doc_extraction.py`) | `doc_requests`, `documents`, `bgvs.extractedFields` | upload, confirm, extract, review, mirror, PATCH | stale copies across S3 and OCR | only HR verifies, values belong to their file |
| Reading documents (`ocr.py`, `doc_fields.py`, `doc_extraction.py`) | a submission's extraction | OCR, field search, grade, corrections | misread digits, a missing engine | a misread number is never confirmed |
| OnGrid verification (`bgv_ongrid.py`, `bgv_checks.py`, `bgv_records.py`, `clear_ongrid_links.py`) | `bgvs`; individuals at OnGrid | onboard, verify, refresh status, mark, clear | create then store across an HTTP call, concurrent onboard, community change | one individual per person and community, nobody else's touched, outcomes kept |
| Hand-off and Avora export (`avora_export.py`, `avora_internal.py`, `candidate_handoff.py`) | none of its own: reads links, documents, candidates | share, feed | decided when asked, while links change | nothing leaves that HR did not accept |
| Accounts (`auth.py`) | `auth_users` | create, invite, setup, edit, change address, delete, seed | patch after delete, two steps of a move, token used twice | an account per person, an invite works once |
| Files (`documents.py`, `candidate_promote.py`, `candidate_delete.py`) | `documents`, S3 objects, child records | upload, delete, promote, cascade delete | blob and row change apart, writers during a cascade | a row's blob exists, promoted files stay, nothing survives its candidate |
| Calendar (`calendar.py`, `google_calendar.py`) | `calendar_links`, `google_oauth`; events at Google | push, delete, connect | two pushes of one event, other account | Google has the event the link names, and no other |
| Employee codes (`employee_codes.py`, `database.py`) | a sequence | `nextval`, `setval` on boot | boot during service | no code issued twice |
| Exit handover (`exit_handover.py`) | one row per employee, documents | send, submit, upload, purge, patch | purge racing an upload | purged stays purged, answered files stay |
| Joining confirmations (`joining_confirmations.py`) | one row per link, documents | send, answer, photo, edit, delete | stale copy over a file await | each field holds its owner's last word |
| Company email backfill (`company_email_backfill.py`, `scripts/backfill_company_emails.py`) | `employees` | plan, apply | HR edits between plan and apply | no address shared by two |
| Other: mail, templates, notifications; settings and wiring; audit, directory and workbook output; S3 client | none with a protocol | | | not modelled, see section 6 |

Interactions: an employee write calls the outbox in the same request; workers and
requests share only the outbox table; start and webhook handlers share only the
call's row; portal and HR handlers share the request's row, and reviews and
OnGrid handlers the `bgvs` row; the export reads what the portal and the files
code write; the cascade delete shares rows with all of them; the bridge shares
nothing with `app/` but Vapi.

## 2. Modules

| Module | Models | Uses |
| --- | --- | --- |
| `PushChannel` | what the outbox promises, with no claims, versions, leases or retries | |
| `IdentityOutbox` | the outbox table, the workers, the wire, id-sync (external) | `PushChannel` (refinement) |
| `EmployeeSync` | employee requests composed with the whole outbox | extends `IdentityOutbox` |
| `ScreeningCalls` | the calls of one candidate, both providers | |
| `SeenSignatures` | replay protection of signed webhooks | |
| `VoiceBridge` | one transcriber session | |
| `Applications` | one applicant's codes and applications | |
| `TestInvites` | one candidate test | |
| `ScreeningScores` | rating of answers, three ways | |
| `RateLimiter` | the limiters and the choice of one | |
| `DocRequests` | one joining-documents link and its BGV mirror | |
| `DocumentReading` | the Aadhaar number from the scan to the record | |
| `OngridBgv` | one candidate's `bgvs` row and individuals in two OnGrid communities | |
| `ClaimChecks` | what one send of checks to OnGrid is made of | |
| `SharedDocuments` | what leaves of one hire's documents | |
| `Accounts` | `auth_users` | |
| `CandidateFiles` | one candidate's documents, promotion and cascade | |
| `CalendarLinks` | events, links and Google | |
| `EmployeeCodes` | the code sequence | |
| `HandoverLink`, `JoiningLink` | one exit handover, one welcome form | |
| `CompanyEmails` | the backfill against HR's edits | |
| `IdentityOutbox_proofs`, `EmployeeSync_proofs`, `Accounts_proofs` | theorems about these | the module, `TLAPS` |
| `Office_proofs` | theorems about the other components of `MCStaff`, and about it | `MCStaff`, `Accounts_proofs` |
| `Candidates_proofs` | theorems about `Applications`, `TestInvites`, `RateLimiter`, `ScreeningScores` | these, `TLAPS` |
| `Documents_proofs` | theorems about `DocRequests`, `SharedDocuments`, `DocumentReading` | these, `TLAPS` |
| `Verification_proofs` | theorems about `OngridBgv` and `ClaimChecks`, and about `MCPapers` | `MCPapers`, `Documents_proofs` |
| `Voice_proofs` | theorems about `ScreeningCalls` and `VoiceBridge` | these, `TLAPS` |
| `MC*` | constants, symmetry and composites for TLC | |

`MCCandidates`, `MCPapers`, `MCStaff` and `MCVoice` each hold several components
that share no state. A variable `part`, chosen in the initial state, names the one
a behaviour is about; the others keep their initial values. The states of the
parts add up instead of multiplying, and one run asks the questions of one side
of the system. A composite extends its components, so that a run checks the very
definition a theorem is about; that is why components carry names (`OngridNext`,
`CallNext`) that no other module they meet has.

### State and actions against the code

**IdentityOutbox.** `row` is the table. A message is its `changed_at` stamp. `now()`
is not a clock: `when` says due, hidden by a claim, or waiting out a retry, and
`LeaseExpires` and `BackoffEnds` are the passing of time. `attempts` only sets the
length of a backoff and is left out. `claim[w][e]` is how far worker `w` has come
with one item: the two statements of `mark_delivered` (`MarkDelivered`,
`ReleaseSuperseded`) and of `mark_failed` (`MarkFailed`, `ReleaseNewer`) are
separate actions. `FOR UPDATE SKIP LOCKED` makes the claimed batch any set of at
most `BatchSize` due rows. A request stays in `wire` until id-sync processes it; a failed
send may have been lost, processed, or still be on its way.

**EmployeeSync.** A request thread goes arrive, read (PATCH, DELETE), write, stamp,
enqueue. Threads overlap freely. `content` says what each stamp tells id-sync;
`NeverEnqueued` is every way the enqueue is skipped. Documents are reduced to
their directory-safe part (`to_directory_entry`); audit lines are left out.

**ScreeningCalls.** A row is its status and whether it carries the provider's id.
`starter` and `hook` hold the copies handlers work on. `since` is which of the two
staleness windows has passed. The provider posts events, and each may be
delivered any number of times at any later moment. A web test call is the same
control with another URL. The provider is fixed for a behaviour: switching the
configured provider while calls run is left out.

**SeenSignatures.** `Receive` is the signature check, the timestamp tolerance and
`was_used`; `Apply` the handler; `Remember` the entry with eviction of the old
ones. `Restart` forgets everything. Vapi's clock (`stamp`) may be ahead.

**VoiceBridge.** Three coroutines of one event loop: what lies between two awaits
is one step. Audio goes inbox, buffer, chunk; transcripts go outbox to Vapi.
Either side may stop at any point; the winner of `asyncio.wait` cancels the other
task, whose end is awaited. `CancelHandler` is the server shutting down.

**Applications.** `RequestCode`/`Issue`, `CheckGuess` with `RecordWrong` or
`RecordVerified`, and `CheckVerified`, `CheckNotApplied`, `StoreCandidate`,
`ConsumeVerification` are the reads and writes of the three handlers; `age` of a
code runs through the five spans that the cooldown, its life, the life of a
verification and the hour of the cap cut out. A candidate's id is drawn at
random, so an application may land on an id that is taken (`public.py:522`).

**TestInvites.** `Load` is the read with an endpoint's refusals, `StoreSubmission`
the stored file, `MergeRead` and `Patch` the two statements of `service.patch`,
`EndRequest` a refusal or failure on the way,
`CreateIqRow` what follows an IQ submission. Questions are reduced to whether the
attempt passes; a disqualified attempt never does.

**ScreeningScores.** `FormFit`, `CallPassed` and the two readings of a call's
answers are operators; the state machine only chooses a list of questions, the
answers and who rates them. Sarvam's agent is given the questions that have a text,
numbered (`Given`, `NumberOf`), fills in one variable per number (`Variables`, external), and
the variables are read back by position (`SarvamAnswers`).

**RateLimiter.** `allow` runs under a lock and is one action, with pruning, the
refusal that costs nothing, and the collection. What the queue of a key holds is a set
of numbered hits: the queue is in order of time, and requests of one instant differ by
their number. `HandleRequest` is the middleware
that chooses the limiter.

**DocRequests.** A handler loads the request (`Load`, with the operation's
refusals), and finishes by writing its copy. Extracted values are reduced to the
file they belong to, to a block without values, or to no block; `Mirrored` is when
an approval goes on to the BGV record. Left out: HR's own writes of the row,
the claims (they are in `ClaimChecks`), emptying a form again, and the moment a link
expires (every refusal it would cause is a `Load` that does not happen).

**DocumentReading.** A card is a sequence of twelve digits with a Verhoeff check
digit. `OcrExtract` gives runs of digits with at most one digit misread, dropped
or swapped with its neighbour in a copy of the number; `FindAadhaarCandidate`,
the mask and the grade are operators; `Upload`, `Confirm`, `ExtractAgain`,
`ExtractMissing` and `Review` write the block. Requests come one at a time here;
how they overlap is `DocRequests`.

**OngridBgv.** Onboard, verify, refresh and the mirror of an approved document each
read the row, call OnGrid, and write their copy back. An individual is a pair of
community and number; the row stores both, and for cached documents the number
only. OnGrid (external) mints any number that is free in its community.
`MoveToProduction` is a restart with other settings. A handler that ends early - a
refused call, an exception, a dead process - is `EndEarly`; for onboarding it may
come after the individual was created. The checks of one request are run in the
action that writes their outcomes, since nothing in between touches shared state.
`ClearRead`/`ClearWrite` are the script that unlinks an individual. Left
out: consent and gender refusals (nothing is read or written), what a check is made
of (`ClaimChecks`), and the report link.

**ClaimChecks.** The candidate's claims and documents lie on several links
(`SaveClaim`, `UploadScan`, `ReviewScan`), and HR may type over a claim. `PortalField` and
`DocumentFor` are the searches over the links, `Given` the precedence, `Collect` and
`Mandatory` what a record is built from, `IsReady` the reasons not to send. OnGrid
(external) lets each check come as far as `Reach` says: refused, its record or
document registered, or started. `OngridVerify` is one request, `VerifyDies` one
that ends between the last call and the row. One send at a time, on one individual:
overlapping sends are `OngridBgv`. A field is blank, malformed or good, and there is
one of each sort. Left out: optional text, the wording of reasons (and with it
whether the candidate says to be a fresher), the rendering of images into a PDF.

**SharedDocuments.** `AvoraShares` and `FeedOffers` are what the two exports answer
when asked, computed from `links`, `rows` and `person`; the actions are those of
the handlers that change these: uploads, reviews and deletions of links and
documents, hiring, promotion, arrival. A thread reads a link (`ReadLink`), stores a file
(`StoreUpload`) and writes its copy (`WriteUpload`, `WriteReview`). Sending a new link carries accepted
submissions forward. Documents are of one type; whether that type is a signed
letter is chosen initially.

**Accounts.** `CreateUser` is an upsert (`service.create`), so creating an account
that exists replaces it. `Invite`, `Edit` and `Setup` begin a patch (`MergeRead`,
`MergeWrite`); `MoveGet`, `MoveCreate`, `MoveDelete` are `change_email`;
`SeedCheck`, `Create` the seeding on boot. Who may ask is left out: any request
may come at any time.

**CandidateFiles.** A document is a row and an S3 object under one of two folders.
`CascadeFind` to `CascadeCandidate` follow `candidate_delete.py` line by line;
promotion copies, drops the old object and rewrites the row, one document after
the other. `Die` ends any operation at any step; a failed deletion of an object is
logged and leaves it in `kept`.

**CalendarLinks.** A push reads the link, calls Google, writes the link; Google is
external and per account, so an event is not found after switching accounts. 404
and 410 count as deleted. `Refused` is an error answer, `DieHalfway` an end after
Google acted.

**EmployeeCodes.** `Draw` is `nextval`, then the existence test, `TryAgain` up to
`MaxDraws`; `BootRead` and `BootSet` are the two halves of the statement run on
boot, which computes before it sets. Allocation and saving are apart.

**HandoverLink, JoiningLink.** `Read` or `ReadForm`, then for files `StoreFile` or
`StorePhoto` after the await of the body, then the write of the copy. Contents are numbers. In `JoiningLink` the
fields are those the candidate may write and those HR may.

**CompanyEmails.** `MakePlan` is one read of all employees and records; per move
`ReadForMove` (with the comparison of the address) and `WriteMove`; HR edits at any
moment.

## 3. Runs

| Run | Instance | Shows |
| --- | --- | --- |
| `outbox` | 1 employee, 2 workers, 2 changes, leases may be overrun | exclusion, no lost change, inductive invariant (with the type), refinement, delivery |
| `sync_converges` | 1 employee, 1 worker, 2 requests, 1 document or none, 3 changes | convergence |
| `screening_webhooks` (`MCVoice`) | 1 call, 1 start, 2 webhook threads, 3 statuses, 2 outcomes; 1 bridge session of 3 frames, chunks of 2, 2 transcripts | reports kept, verdicts final, staleness; the bridge adds up, sessions end |
| `candidates` (`MCCandidates`) | 2 handlers, 2 postings, 2 ids, 2 codes, cap 1, 1 guess; 1 test of each kind, 2 works, 2 violations; 2 limiters, 4 ticks; up to 3 questions; 2 calls, 2 starts | applications and codes, tests, limiter, scores, one call at a time |
| `papers` (`MCPapers`) | 1 type of document and the bank form, 2 uploads, 2 threads; 2 OnGrid numbers, 1 a stranger's, 2 checks; 2 links, 2 documents; 1 card and 1 reference number; 2 claims over 2 links, 1 upload, 1 send | documents link, OnGrid, what leaves, reading, claims |
| `staff` (`MCStaff`) | 2 threads and 2 of everything else; 1 token, 2 people, 2 Google events, 5 numbers, 2 draws, 2 items and links (4 in the welcome form), a clock to 4 with tolerance 2, 1 edit by HR | accounts, files, calendar, codes, links, signatures, backfill |
| `outbox_deletes_newer` | 1 employee, 2 workers, 4 changes, leases respected | **violated**: finding 1 |
| `docs_locked` | as the documents link in `papers` | **violated**: finding 2 |
| `tests_write_once` | 1 thread, 1 work | **violated**: finding 3 |
| `codes_reissued` | 2 sessions, 5 numbers | **violated**: finding 4 |
| `shared_unaccepted` | 2 links, 2 documents | **violated**: finding 5 |
| `check_reuses_file` | 2 links, 2 uploads, 2 sends of the PAN check | **violated**: finding 6 |

Why the bounds are enough. Employees never share a row and a batch is worked off
one item at a time, so one employee shows every interleaving on a row; the number
of employees is general in the proofs. Two workers are what the Dockerfile runs.
Two changes give a change that overtakes another and a third stamp adds only more
of the same, except for finding 1, which needs four. In `sync_converges` one
document suffices because the disagreement that matters is between a document and
its absence; the proof is for any number. Two threads per row are what it takes to
have a stale copy. Two OnGrid numbers
suffice: one collides with a stranger across communities, and staging has a
second free one for a fork. In the bridge, three frames make a full chunk and a
broken one. Two codes let a new code replace a guessed one; a cap of one code and
of one guess put both limits within reach of two handlers; the limiter's two
windows (1 in 1, 2 in 3) overlap in four ticks. One number of the old scheme (2)
lies above the sequence's start and below its bound. `CHECK_DEADLOCK FALSE` is
wherever changes, calls, files, codes or time are bounded and the system then
rests; each cfg says why.

Three runs have state constraints. Each but the last cuts behaviours only after a history
variable has already excused a property, and is named:

- `OneExcuse` (`candidates`): one excusing race of an application or code; nothing
  after a raced patch of a test, a rushed start or a revived call; no violations of
  a take-home test, which nothing reads.
- `OneMishap` (`staff`): one document torn or left in S3; two exposed numbers.
- `Settled` (`papers`): once two copies of the `bgvs` row were open at once, its
  cleared individuals and one of the two checks are not followed.
- `OneOddity` (`papers`): one of torn, split, dropped, signed letter or deleted document
  at a time; after a deleted link, one document.
- `FewClaims` (`papers`): a plain bound, on the claims saved on the links together.

The mutants are found under the same constraints.

The exceptions in the properties are the weaknesses of the code, each at its line
in `hazards`, never more:

- `stolen` - a claim ended under a live holder (a lease overrun, or the release in
  `mark_failed` that ignores who claimed the row). After that two workers send the
  row and versions, which restart at 1, no longer protect it.
- `raced`, `dropped` (`EmployeeSync`) - two writes of the employee overlapped, or an
  enqueue was swallowed; both are cleared by the next clean write, which is the claim.
- `rushed`, `revived` - two starts passed the check together; a queued call that
  had stopped blocking was reported on again.
- `missed` - a Sarvam result that came before the row carried the id.
- `torn` (`DocRequests`, `ScreeningCalls`, `SharedDocuments`; `rowTorn` in `OngridBgv`) - two
  handlers held a copy of the same row; in `CandidateFiles` two operations the same
  document, or one died on it. Neither whose individual a check runs on nor the
  cached status of OnGrid is excused by it: both hold of every stale copy.
- `lost` (`OngridBgv`) - OnGrid created an individual and the handler ended before
  storing its number; (`JoiningLink`) a stale copy wiped out or brought back an item.
- `clobbered`, `loose`, `overlapped`, `forgotten` (`Applications`) - the code's row
  was written from a stale copy; two applications held one verification, or the
  first died before consuming it; two passed the one-application check together;
  applying deleted the row that remembers how many codes were issued.
- `raced` (`TestInvites`) - an endpoint decided on an invite that changed before it wrote.
- `stray`, `mixed`, `exposed`, `undone`, `doubtful`, `touched` - an account row
  resurrected or copied to two addresses; an event handled twice at once, or by a
  request that died after Google acted, or under another account; a number drawn
  while a boot was about to set the sequence; an item put back or left out by a
  stale copy of the handover; an event delivered twice at once, or whose stamp is
  ahead of our clock; an address HR gave away while a plan was being applied.
- `AllWorded` (`ScreeningScores`) - Sarvam's rating is compared where every question
  has a text; see below.
- `split`, `dropped` (`SharedDocuments`) - a document carried to a second link was
  judged on one of them; a link was deleted.

No guard reads a history variable, but for the counts that bound a behaviour or name
what is new (`issued`, `people`).

### Fairness

`outbox` (`LiveSpec`): a worker's loop catches every exception
(`identity_sync_worker.py:41-46`), so its steps are weakly fair; a due row is
claimed again and again because `ORDER BY next_attempt_at` serves the oldest
first (strong fairness, since the other worker may be holding the row); leases and backoffs run
out; id-sync answers and processes infinitely often if asked infinitely often
(strong fairness), and processes stop dying at some point. Without the last two,
nothing could be promised.

`screening_webhooks` assumes for the calls only that time passes
(`WF(GrowOld)`): `StopsBlocking` holds though every handler may crash and no
webhook ever arrives. For the bridge it assumes that the event loop runs every
coroutine that can go on, that opening a Sarvam stream ends one way or the other
(it has a timeout), and that a first frame comes or its timeout does. Nothing is
assumed of Vapi or of Sarvam after that: neither has to speak, stop or hang up.

### Findings

1. `NeverDeletesNewer`: the second statement of `mark_failed` frees a row that
   another worker has claimed; after a delete versions start at 1 again and an old
   claim deletes a newer change. Leases need not be overrun.
2. `VerifiedIsLocked`: an upload that began before an approval replaces the
   verified document.
3. `WriteOnce`: a take-home test that was handed in is Submitted, which `start`
   does not refuse; it is In Progress again and the work can be replaced.
4. `NeverReissued`: the boot statement computes the new value before it sets it;
   a number drawn in between is drawn again.
5. `OnlyReviewedLeaves`: once a documents link is deleted, the uploads it collected
   count as attached by HR and are shared without review.
6. `RunsOnPreferredFile`: a document is registered at OnGrid once; a PAN check that is
   sent again after a better upload runs on the old file (`bgv_checks.py:247`).

### Observed while modelling

These follow from the models or from reading; no run states them, either because
an exception above covers them or because the code says nothing to the contrary.

- Outbox: of two overlapping writes the older may be enqueued last, and the row's
  payload is then the older (`identity_outbox_repository.py:3`).
- Binding a provider's id can write over a webhook (`screening_calls.py:188`, `202`).
- A request becomes Verified when every *uploaded* document is, though a required
  one is missing (`doc_requests.py:453`); HR's corrections leave `validatedFields`
  as they were.
- OnGrid's document ids are cached by number alone and survive a change of
  community (`bgv_ongrid.py:403-409`); the clearing script leaves `ongridPrevious*`
  and an open handler can write over it.
- Creating a user at an existing address replaces that account; `change_email`
  copies the setup token, so for a moment one link works at two addresses.
- A candidate's id is six random digits and a collision overwrites the other
  candidate (`public.py:522`); deleting the code's row on applying resets its hourly
  cap (`public.py:612`).
- Sarvam's agent is given the questions that have a text, numbered without a gap
  (`sarvam_calls.py:86-93`), and its answers are read by position in the whole list
  (`sarvam_results.py:83-86`): after a question with a blank text every answer is
  credited to the question before the one it was given to.
- A send of checks that carries a dialog replaces `claimDetails` (`bgv_ongrid.py:432-439`),
  while the outcomes it answers are merged: what HR typed for the checks sent before is gone. Of
  two links that hold a claim the older is sent (`bgv_ongrid.py:146-157`), while Avora gets the
  UAN of the newer (`avora_export.py:246`). A rejected upload is sent before an older one that
  was not reviewed (`bgv_ongrid.py:131`).
- A scanned page on which no word has a Latin letter or digit divides by zero
  (`ocr.py:206`), outside the `try` of the caller; the module says that it never
  raises (`ocr.py:7-8`). HR's reading of such a document is answered 500.
- The IQ bank is read when grading, so editing it during an attempt changes the result.
- A blank answer to a form question that expects "No" passes (`screening.py:26`), while
  on a call it is unclear and asks for review.
- A cascade that dies after deleting the interviews strands their Google events
  (`candidate_delete.py:74-88`).
- A purge of exit credentials is undone by an upload in flight
  (`exit_handover.py:159-203` against `240`); a joining photo in flight brings back
  older answers, or a deleted link (`joining_confirmations.py:178-219`).
- The backfill compares only the address when it skips what HR edited, and leaves a
  window between that read and its write.
- A signature's entry is dropped by the time of handling, so an event stamped ahead of our
  clock is still fresh when its entry has gone.
- Which of two links decides on a carried-forward submission depends on the order of rows.
- When Vapi hangs up, the last partial chunk and unread transcripts are dropped.

## 4. Proofs

For every set of employees and workers, every batch size and every set of positive
stamps, with leases overrun or not, `IdentityOutbox_proofs` proves

- `TypeCorrect`: `Spec => []TypeOK`;
- `Invariance`: `Spec => []IInv`, and from it `Exclusion` (`OneWorkerPerRow`) and
  `NothingLost` (`LatestNeverLost`);
- `Refinement`: `Spec => Channel!Spec`.

`LatestNeverLost` is not inductive: deleting a row is right only because id-sync
has processed what was sent (`AcknowledgedIsProcessed`), and because the version
tested by the `DELETE` still stands for the payload that was sent
(`HeldVersionIsCurrent`), which in turn holds only while nobody else claims the
row (`OneWorkerPerRow`). `IInv` is the conjunction of these, of `TypeOK` and of
`OnlyIssuedCirculates` (nothing is sent that was never enqueued, which the
abstract `Apply` needs). Each action has a lemma; the refinement maps a row to a
debt (`owed`), `Receive` to `Apply` or a stutter, `MarkDelivered` to `Settle`.

`EmployeeSync_proofs`, for any number of requests and documents on top of that:

- `RequestsFeedTheOutbox`: `SyncSpec => Spec`. Every step of the composition is a
  step of the outbox or leaves it alone, so the outbox's invariants hold here
  without being proved again;
- `SyncTypesCorrect`, `SyncInvariance`: `[]SyncTypeOK`, `[]SyncIInv`;
- `Convergence`: `SyncSpec => []ConvergesUnlessRaced`.

Convergence speaks of moments when nothing is in flight; to keep it through a write
one must know that an overlap has left its mark (`OverlapsAreKnown`), that a clean
request's stamp is ahead of all enqueued (`StampsGrow`), that the change enqueued
last is the newest (`LastIsNewest`), which makes id-sync's newest-wins rule take it,
and that a clean request says what the table holds (`CleanTellsStored`). The outbox's
`LatestNeverLost` closes the gap between enqueue and id-sync.

`Documents_proofs`. Of `DocRequests`, for any sets of document types, files and handlers:

- `DocTypesCorrect`, `CopiesAreSound`: `[]TypeOK`, `[]IInv`;
- `OnlyHRVerifies`, `ValuesBelong`, `MirrorHoldsApproved`: `VerifiedByHR`,
  `FieldsBelongToFile`, `MirrorIsApproved`;
- `AnswersStay`: `AnswersAreKept`, with `OneOpenCopy` (until a second copy is taken, the
  one copy is the request) as the strengthening.

None of the first three is inductive, because a handler writes back what it read long ago.
`IInv` says of every copy what it says of the stored request (`SoundRequest`, `SoundMirror`,
`SoundHandler`); it survives because `documents` and `approved` only grow (`RequestStaysSound`,
`HandlerStaysSound`), and because what an operation changes in its copy before writing keeps it
sound (`PutSound`). That a stale copy cannot make a document verified, though it can undo a
verification (finding 2), is the point.

Of `SharedDocuments`, for any links, threads and number of documents:

- `SharedInvariance`: `[]SharedIInv`; `OnlyAcceptedIsShared` (`SharedIsAccepted`).

What is offered is computed from the links of the moment, so the invariant is about the
links and the copies of them: a file that is stored and not yet written to its link is
nobody else's (`NewFilesAreFresh`), which keeps a late write from bringing an older file
back under a newer one's verdict; a link says of a document what HR last said of it, until it
was judged on two (`VerdictsAgree`); and as long as no two copies of a link were open, every
upload that was answered has, on some link, itself or a later one (`LatestAnswerCounts`), so
that the newest submission is the newest file.

Of `DocumentReading`, for any numbers of cards that satisfy the checksum and any other
numbers that do not:

- `ReadingInvariance`: `[]ReadingIInv`; `NoMisreadConfirmed` (`MisreadsAreCaught`).

The invariant says that what was read is what the engine makes of the file (`ReadsTheFile`). The
work is in the checksum, of which the proofs use the code's two tables: the products of the one
cancel on both sides and may be bracketed in any way; the rows of the other, the turns, map
different digits to different digits, and the turns of two neighbouring rows never give the same
product for two different digits in either order. A wrong digit changes one factor, swapped
neighbours change two factors to an unequal product, and by cancellation the sums that start
from there never meet again, at any position and for any digits around it. What a sum does along
a number is shown by taking the least position where it would fail, since induction theorems are
out of reach (below). A dropped digit leaves eleven, which is no number of a card. The rest
follows the search through the pages.

`Verification_proofs`. Of `OngridBgv`, for any sets of handlers, individuals and checks:

- `RecordInvariance`: `[]OngridIInv`; `NobodyElse` (`OnlyOurIndividual`), `NoFork`
  (`OneIndividual`), `NobodyForgotten` (`IndividualsStayNamed`), `OutcomesMerge`
  (`OutcomesAreKept`), `StatusMatches` (`StatusIsCurrent`).

What must hold though copies are stale (`OnlyOurIndividual`, `StatusIsCurrent`) is put in
terms of a row alone, `SoundRow`: an individual with its community is ours, and the
cached status is that individual's. Every handler writes a sound row because it read
one, and soundness survives the others because individuals are never forgotten by
OnGrid and the settings move once, to production. What holds only while copies are
not stale needs `OneCopy`, and `CreatedOnce`: the one individual of this community is
on the row or with the handler that is about to store it, so nobody creates another.

Of `ClaimChecks`, for any links, document types, offerings, ways to fill in a claim and
number of sends:

- `ClaimsInvariance`: `[]ClaimIInv`; `RecordsStayCheckable` (`RecordsCanBeChecked`).

`RecordsCanBeChecked` is inductive with the type invariant: what is registered in a send was
built in it, from entries that are complete (`UsableClaim`), and nothing later changes a
record. The content is in the operators, which are followed from the links through the
dialog to the record.

Of `MCPapers`: `PapersTypesCorrect` (`PapersTypeOK`). Each component's part of a behaviour of
the composition is a behaviour of the component (`PapersBehave`), which carries every
theorem about a component over to the composition that the run checks.

`Voice_proofs`. Of `ScreeningCalls`, for any number of calls, starting threads and webhook
handlers and either provider:

- `CallsInvariance`: `[]CallIInv`; `ReportsAreKept` (`ReportIsRecorded`), `OneCall`
  (`OneCallAtATime`), and `VerdictsAreFinal`, the action property `VerdictIsFinal`.

A webhook decides on a copy of the row. That its decision still stands when it is
written is `CopiesAreCurrent`: until a second copy of a row is taken, which marks it
`torn`, the one copy is the row. It needs that ids are fresh (`StartedOnce`) and that a
call is in the table before anybody reports on it (`KnownCallsExist`); that a result of
Sarvam can come too early, while Vapi's cannot, is `SarvamPostsResults`. One call at a
time needs that a thread which passed the check is alone and that no call blocks while
it waits (`StartsAreAlone`).

Of `VoiceBridge`, for any number of frames, transcripts and waiting messages, and any chunk:

- `BridgeInvariance`: `[]BridgeIInv`; `SessionsAddUp` (`BridgeAddsUp`).

`HandlerAgrees` ties the handler to the connection and the two tasks: while one of these
runs the connection is open, and it is closed only when both have stopped.
`StopsHaveReasons` says why a task can have stopped: a pump that is done or a relay that is
refused was hung up on, and any other stop is a fault - so whatever stopped first, the end is
told as it was.
That nothing is lost is a statement about queues: what is still waiting is numbered from the
first that was not taken to the last that was sent, with other messages in between
(`Waiting`); taking the head and appending keep it (`WaitingTail` and its companions).

`Candidates_proofs`. Of `Applications`, for any number of handlers, postings, candidate ids
and codes, and any limits:

- `ApplicationsInvariance`: `[]IInv`; `OncePerPosting` (`OneApplication`), `UsedOnce`
  (`VerificationIsUsedOnce`), `LimitsHold` (`OtpLimitsHold`).

`OneApplies`: who has passed the one-application check is alone, and the applicant is
not on the posting yet. `VerificationsRunOut`: a verification that backs a candidate is
with the handler about to delete the row, or the row names another code. For the limits
the row must count what the history counts: `GuessesAreCounted` relates the attempts in
the row to the guesses answered, `CodesAreCounted` its issued times to the codes of the
last hour, and a request that is to issue a code holds fewer than the cap
(`RequestsAreSound`).

Of `TestInvites`, for any number of requests, works and violations:

- `TestsInvariance`: `[]TestIInv`; `WhatWasAnsweredStands` (`AnswersStand`).

A request that nobody has overtaken decides on the invite as it is (`ChecksStand`), files are
stored before the invite names them (`FilesAreStored`), and the result of an IQ test is on
the invite before the one row that repeats it is made (`ResultsAreDue`, `RowsAreFinal`).

Of `RateLimiter`, for any limiters, rules, addresses and length of time:

- `LimiterInvariance`: `[]LimiterIInv`; `NoWindowOverflows` (`WindowsHold`).

A window that ended earlier holds what it held then; one that ends now is bounded by the test in
`allow`, provided that the queue holds all that was let through in the longest window, which
pruning and the collection respect because they drop what is older than that. The counting is on
cardinalities of hits that are numbered (`GrantsAreNumbered`).

Of `ScreeningScores`, for any options and number of questions:

- `ScoresInvariance`: `[]ScoreIInv`; `FormsAndCallsAgree` (`CallsAreRatedLikeForms`).

Here a state is rated once, and the proof is about the operators: what passes on a call passes
on a form when the answer is on the list, an unclear answer passes nowhere, and a rating only
grows with what is passed; for Sarvam, that the n-th variable is the n-th question's, when
every question has a text and there are ten at most.

`Accounts_proofs`, for any number of addresses, threads, invitations and people:

- `AccountsInvariance`: `[]IInv`; `SingleUse` (`LinkIsSingleUse`), `OneEach`
  (`OneAccountEach`).

A link is somewhere at each moment: with the request that sends it, at addresses, with
the request that completes it, or nowhere once it was used (`LinkRunsOut`). Two accounts
of one person are counted against the moves under way (`AddsUp`): each move adds one
account and stands for deleting one, so that what is left when none is under way is one, and
none once an admin deleted it. The counting is on cardinalities; two moves of one account
at once are covered by it.

`Office_proofs`, about the other seven components of `MCStaff`, for any values of their
constants:

- `CodesInvariance`, `CodesOnce` (`CodesAreIssuedOnce`). A number that is not exposed is
  drawn by one session, behind the sequence, and a boot sets the sequence no further back than
  it read (`SessionsFollow`, `NumberIsSingle`).
- `SignatureInvariance`, `AppliedAtMostOnce` (`AppliedOnce`). While a delivery carries an
  event nobody else does; afterwards it is remembered from a moment no earlier than its
  stamp, or too old to be accepted (`EventIsSingle`).
- `EmailInvariance`, `AddressesStaySingle` (`OneAddressEach`). An address that is promised
  to one employee, in the plan or in the move at hand, is nobody's (`AddressIsSingle`).
- `CalendarInvariance`, `GoogleAgrees` (`CalendarAgrees`). An id is one event's wherever it is
  kept (`IdsAreKept`), and what Google has of an event is known before and after the one
  request that is about it has asked (`EventFollows`).
- `HandoverInvariance`, `JoiningInvariance`, `LinksHold` (`LinksAddUp`). An item a request
  brings is its own (`OwnItem`, `OwnFields`), so that a stale copy can only undo, which marks
  the item.
- `FilesInvariance`, `DocumentsKeepStanding` (`DocumentsStand`). For each document that is
  not torn, which of the operations holds it and how far it is (`DocStands`); for a cascade
  that overlaps nothing, what it has reached so far (`AloneSoFar`, `NobodyAtWork`).
- `StaffTypesCorrect` (`StaffTypeOK`), with all eight components' invariants, since each
  component's part of a behaviour of `MCStaff` is a behaviour of the component
  (`ComponentsBehave`).

Assumptions: those of the modules and no more.

- Stamps are positive (`StampsAssumption`), `LeaseOverruns`, `NeedsConsent` and
  `BankRequired` are Booleans (`LeaseAssumption`, `FlagsAssumption`), `Absent` is no
  document (`AbsentAssumption`).
- Bounds and limits are numbers, where the code's are positive ones: `AccountBounds`,
  `LimitsAssumption`, `CodeBounds`, `ClockAssumption`, `CalendarBounds`, `HandoverBounds`,
  `JoiningBounds`, `SharedAssumption`, `BridgeBounds`, `ViolationsAssumption`.
- Parameters that are data have their shape: a limiter's rules, of which it has one at
  least (`LimiterAssumption`), the questions of a list (`ScoreAssumption`), the ways to fill in a
  claim (`ClaimConstants`).
- Names that must differ do: "none" is no job id and no number of OnGrid's
  (`PostingsAssumption`, `OngridAssumption`), company addresses are not private ones
  (`EmailAssumption`, `PrivateAddress`).
- What the providers report are statuses of a call, their outcomes terminal ones
  (`ReportedAssumption`, `OutcomesAssumption`); a card's number satisfies the checksum
  and the other numbers on a card, of any length, do not (`CardNumbers`): a reference number
  that happens to satisfy it the code takes for the card's.

TLC evaluates all of them, and each inductive invariant was checked by TLC before it was
proved, on instances of the size of the runs.

Every safety property of a passing run is a theorem. Model-checked only:

- liveness (`LatestReachesIdSync`, `StopsBlocking`, `SessionsEnd`): fairness is beyond the
  prover;
- the violated properties, which are the findings;
- recursion over data. What a function defined by recursion computes is proved here only as
  far as a least counterexample reaches it (`Checksum`); a fold (`MeanConfidence`) is never
  expanded, and nothing proved depends on its value.

## 5. Plan

1. Models: HR's own writes of `doc_requests` and `bgvs` through the generic router;
   sessions and the sliding cookie; the remaining extractors of `doc_fields.py`; the
   mask and layout rules of the Avora export.
2. Composition: the cascade delete against the documents link and the OnGrid handlers;
   signed webhooks in front of `ScreeningCalls`, where today any event may repeat.
3. Proofs: an abstract specification of the office links and of the documents link, of
   which `HandoverLink`, `JoiningLink` and `DocRequests` are refinements.

## 6. Not modelled

- Mail, templates, notifications (`email_sender.py` and others): wording and transport; a
  send is best-effort and no state depends on it.
- Settings, wiring, error mapping (`config.py`, most of `main.py`): no protocol state.
  The middleware that picks a rate limiter is in `RateLimiter`.
- Audit log, directory export, workbook: append-only or read-only output.
- S3 client and HTTP transport: pure I/O; where a caller depends on the outcome,
  failure is an action of the caller's module.
- OCR itself and the regular expressions over its text other than for the Aadhaar
  number, password hashing, cookies and roles, OAuth, the prompts of the voice agents.
- Parts left out of a component that is otherwise modelled are named in section 2
  and in `PROJECT.json`.
