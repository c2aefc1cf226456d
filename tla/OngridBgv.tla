----------------------------- MODULE OngridBgv -----------------------------
(***************************************************************************)
(* The background verification of one candidate at OnGrid                  *)
(* (app/api/routes/bgv_ongrid.py, app/services/bgv_checks.py, ongrid.py).  *)
(*                                                                         *)
(* Circle keeps one bgvs row.  HR onboards the candidate (which creates an *)
(* individual at OnGrid unless the row names one), starts checks and reads *)
(* their status; each handler works on a copy of the row across its calls  *)
(* to OnGrid and writes the whole row back.  An individual is known by a   *)
(* number, and numbers mean different people in the staging and in the     *)
(* production community; Circle moves from the one to the other once.      *)
(***************************************************************************)
EXTENDS Integers, FiniteSets

CONSTANTS Ids,             \* individual ids, the same numbers in both communities
          Strangers,       \* <<community, id>> of other people
          Codes,           \* offerings HR may choose
          DocumentBacked,  \* CHECK_REQUIREMENTS: those that need a registered document
          Servers         \* threads serving HR's requests on this candidate

None == "none"
Communities == {"staging", "production"}
People == Communities \X Ids
NoPerson == <<None, None>>

\* None is not a number of OnGrid's.
ASSUME OngridAssumption ==
    /\ None \notin Ids
    /\ Strangers \subseteq People /\ DocumentBacked \subseteq Codes

VARIABLES here,     \* settings.ongrid_community_id
          row,      \* the bgvs row
          legacy,   \* individuals from before the community was stored
          created,  \* individuals this code has created for the candidate
          server,   \* what each thread is doing
          lastTold, \* history: the last outcome HR was told for each code, until rowTorn
          rowTorn,  \* history: two copies of the row were open at once
          lost      \* history: an individual was created and its id never stored

ongridVars == <<here, row, legacy, created, server, lastTold, rowTorn, lost>>

-----------------------------------------------------------------------------

Outcomes == {None, "started", "refused"}
NoOutcome == [c \in Codes |-> None]

\* docs: the person the cached document id was registered for; docsFor is what the
\* row says of it, a number.  previous: ongridPrevious(Community, Individual)Id.
\* timeline: the individuals that verificationTimeline says were unlinked.
Row == [individual : Ids \union {None}, community : Communities \union {None},
        previous : (Communities \union {None}) \X (Ids \union {None}),
        checks : [Codes -> Outcomes],
        docs : People \union {NoPerson}, docsFor : Ids \union {None},
        status : People \union {NoPerson},
        timeline : SUBSET ((Communities \union {None}) \X Ids)]

NoRow == [individual |-> None, community |-> None, previous |-> NoPerson,
          checks |-> NoOutcome, docs |-> NoPerson, docsFor |-> None, status |-> NoPerson,
          timeline |-> {}]

Free == [stage |-> "idle"]
Handling ==
    {Free} \union [stage : {"creating", "mirroring", "clearing"}, copy : Row]
           \union [stage : {"sending", "asking"}, copy : Row, id : Ids]
           \union [stage : {"checking"}, copy : Row, id : Ids, services : SUBSET Codes]

OngridTypeOK ==
    /\ here \in Communities
    /\ row \in Row
    /\ legacy \subseteq People /\ created \subseteq People
    /\ server \in [Servers -> Handling]
    /\ lastTold \in [Codes -> Outcomes]
    /\ rowTorn \in BOOLEAN /\ lost \in BOOLEAN

Ours == legacy \union created
Done(h) == server' = [server EXCEPT ![h] = Free]

\* Mutant: a row without a community is taken for one of ours.
BelongsHereOrUnstamped(r) == r.community \in {here, None}

\* belongs_here: a row without a community is foreign.
BelongsHere(r) == r.community = here

\* The id a row offers for use.
Usable(r) == r.individual # None /\ BelongsHere(r)

\* An id that is there and not of this community is abandoned: kept, and its cached
\* status dropped.
Abandons(r) == r.individual # None /\ ~BelongsHere(r)

\* A handler takes up a copy of the row.
Open(h, state) ==
    /\ server[h] = Free
    /\ server' = [server EXCEPT ![h] = state]
    /\ rowTorn' = (rowTorn \/ \E g \in Servers : server[g] # Free)
    /\ lastTold' = IF rowTorn' THEN NoOutcome ELSE lastTold

-----------------------------------------------------------------------------
\* ongrid_onboard.  Without consent or a gender it answers before it reads.

\* Mutant: an individual is created whatever the row holds.
OnboardAlwaysCreates(h) ==
    /\ Open(h, [stage |-> "creating", copy |-> row])
    /\ UNCHANGED <<here, row, legacy, created, lost>>

\* The row is read, and its individual is used again if it is one of this community.
OnboardRead(h) ==
    /\ Open(h, IF Usable(row)
               THEN [stage |-> "sending", copy |-> row, id |-> row.individual]
               ELSE [stage |-> "creating", copy |-> row])
    /\ UNCHANGED <<here, row, legacy, created, lost>>

\* create_individual: OnGrid mints an unused number of this community.
CreateIndividual(h, id) ==
    /\ server[h].stage = "creating"
    /\ <<here, id>> \notin Ours \union Strangers
    /\ created' = created \union {<<here, id>>}
    /\ server' = [server EXCEPT ![h] = [stage |-> "sending", copy |-> @.copy, id |-> id]]
    /\ UNCHANGED <<here, row, legacy, lastTold, rowTorn, lost>>

\* Mutant: an answer without an id is not noticed.
CreateRefusedUnnoticed(h) ==
    /\ server[h].stage = "creating"
    /\ server' = [server EXCEPT ![h] = [stage |-> "sending", copy |-> @.copy, id |-> None]]
    /\ UNCHANGED <<here, row, legacy, created, lastTold, rowTorn, lost>>

\* OnGridError, or an answer without an id, and nothing created.
CreateRefused(h) ==
    /\ server[h].stage = "creating"
    /\ Done(h)
    /\ UNCHANGED <<here, row, legacy, created, lastTold, rowTorn, lost>>

\* Mutant: the cached status of the abandoned individual stays.
OnboardWriteKeepsStatus(h) ==
    /\ server[h].stage = "sending"
    /\ LET old == server[h].copy IN
       row' = [old EXCEPT !.individual = server[h].id, !.community = here,
                          !.previous = IF Abandons(old)
                                       THEN <<old.community, old.individual>> ELSE @]
    /\ Done(h)
    /\ UNCHANGED <<here, legacy, created, lastTold, rowTorn, lost>>

OnboardWrite(h) ==
    /\ server[h].stage = "sending"
    /\ LET old == server[h].copy IN
       row' = [old EXCEPT !.individual = server[h].id, !.community = here,
                          !.previous = IF Abandons(old)
                                       THEN <<old.community, old.individual>> ELSE @,
                          !.status = IF Abandons(old) THEN NoPerson ELSE @]
    /\ Done(h)
    /\ UNCHANGED <<here, legacy, created, lastTold, rowTorn, lost>>

-----------------------------------------------------------------------------
\* ongrid_verify.

\* The cached document id counts while the number it was registered for is the same.
CachedDocument(r) == IF r.docsFor = r.individual THEN r.docs ELSE NoPerson

VerifyRead(h, services) ==
    /\ services # {}
    /\ Usable(row)
    /\ Open(h, [stage |-> "checking", copy |-> row, id |-> row.individual, services |-> services])
    /\ UNCHANGED <<here, row, legacy, created, lost>>

\* _start: the check's own endpoint starts it, or refuses with a reason that is kept.
Started == {"started", "refused"}

\* upload_for_extract: the document OnGrid now has of this person, if it took one; one that
\* was registered is cached though the check be refused.
Register(person, docs) == IF docs # NoPerson THEN {docs} ELSE {NoPerson, person}

\* _run_document_check: without a registered document the check is refused.
RunDocumentCheck(docs) == IF docs = NoPerson THEN {"refused"} ELSE Started

\* _run_education, _run_employment, _run_permanent_address and _run_reference register the
\* claim anew for every run; _run_uan_check and _run_self_contained register nothing.
\* Nothing is cached, and what is missing or incomplete is a refusal.
RunClaimCheck == Started

RunCheck(code, docs) == IF code \in DocumentBacked THEN RunDocumentCheck(docs) ELSE RunClaimCheck

\* The loop over run_check: a check that is refused does not stop the rest.  Of the checks
\* that need the document, those before its registration are refused.
RunChecks(person, services, docs) ==
    {run \in [outcome : [Codes -> Outcomes],
              docs : IF services \intersect DocumentBacked = {} THEN {docs}
                     ELSE Register(person, docs)] :
       \A code \in Codes :
         run.outcome[code] \in IF code \in services THEN RunCheck(code, run.docs) ELSE {None}}

\* Mutant: the outcomes of this run replace those of all earlier runs.
MergeReplacing(old, new) == new

\* Outcomes are merged by code into those on record.
Merge(old, new) == [c \in Codes |-> IF new[c] = None THEN old[c] ELSE new[c]]

\* The checks are run, and the copy that was read before them is written.
VerifyWrite(h) ==
    /\ server[h].stage = "checking"
    /\ LET old == server[h].copy
           id == server[h].id IN
       \E run \in RunChecks(<<here, id>>, server[h].services, CachedDocument(old)) :
         /\ row' = [old EXCEPT !.checks = Merge(@, run.outcome),
                               !.docs = run.docs, !.docsFor = id]
         /\ lastTold' = IF rowTorn THEN NoOutcome
                        ELSE [c \in Codes |-> IF c \in server[h].services
                                              THEN run.outcome[c] ELSE lastTold[c]]
    /\ Done(h)
    /\ UNCHANGED <<here, legacy, created, rowTorn, lost>>

-----------------------------------------------------------------------------
\* ongrid_status, and the mirror of an approved document (doc_requests.py), which
\* writes the same row.

StatusRead(h) ==
    /\ Usable(row)
    /\ Open(h, [stage |-> "asking", copy |-> row, id |-> row.individual])
    /\ UNCHANGED <<here, row, legacy, created, lost>>

\* OnGrid's answer is cached; the report link may be the one cached before.
StatusWrite(h) ==
    /\ server[h].stage = "asking"
    /\ row' = [server[h].copy EXCEPT !.status = <<here, server[h].id>>]
    /\ Done(h)
    /\ UNCHANGED <<here, legacy, created, lastTold, rowTorn, lost>>

MirrorLoad(h) ==
    /\ Open(h, [stage |-> "mirroring", copy |-> row])
    /\ UNCHANGED <<here, row, legacy, created, lost>>

\* extractedFields is all that changes.
MirrorStore(h) ==
    /\ server[h].stage = "mirroring"
    /\ row' = server[h].copy
    /\ Done(h)
    /\ UNCHANGED <<here, legacy, created, lastTold, rowTorn, lost>>

-----------------------------------------------------------------------------
\* scripts/clear_ongrid_links.py --apply, run by hand beside the service: it reads every
\* row, and writes those of a foreign community back without ONGRID_FIELDS.  The
\* individual abandoned before that (previous) is not one of these fields.

ClearRead(h) ==
    /\ Abandons(row)
    /\ Open(h, [stage |-> "clearing", copy |-> row])
    /\ UNCHANGED <<here, row, legacy, created, lost>>

\* Mutant: the timeline does not say which individual was unlinked.
ClearSilently(h) ==
    /\ server[h].stage = "clearing"
    /\ row' = [NoRow EXCEPT !.previous = server[h].copy.previous,
                            !.timeline = server[h].copy.timeline]
    /\ lastTold' = NoOutcome
    /\ Done(h)
    /\ UNCHANGED <<here, legacy, created, rowTorn, lost>>

ClearWrite(h) ==
    /\ server[h].stage = "clearing"
    /\ LET old == server[h].copy IN
       row' = [NoRow EXCEPT !.previous = old.previous,
                            !.timeline = old.timeline \union {<<old.community, old.individual>>}]
    /\ lastTold' = NoOutcome
    /\ Done(h)
    /\ UNCHANGED <<here, legacy, created, rowTorn, lost>>

-----------------------------------------------------------------------------
\* Failures, and the move to the other community.

\* Thread h holds an individual that no row names yet.
Holding(h) == server[h].stage = "sending" /\ ~Usable(server[h].copy)

\* An OnGridError of the status call, an exception that is not one (a timeout
\* while an answer is awaited), or a dead process.
EndEarly(h) ==
    /\ server[h] # Free
    /\ lost' = (lost \/ Holding(h))
    /\ Done(h)
    /\ UNCHANGED <<here, row, legacy, created, lastTold, rowTorn>>

\* The service is started again with the settings of the other community.
MoveToProduction ==
    /\ here = "staging"
    /\ here' = "production"
    /\ lost' = (lost \/ \E h \in Servers : Holding(h))
    /\ server' = [h \in Servers |-> Free]
    /\ UNCHANGED <<row, legacy, created, lastTold, rowTorn>>

-----------------------------------------------------------------------------

\* A new candidate, or one onboarded in staging before rows carried a community.
OngridInit ==
    /\ here \in Communities
    /\ \/ row = NoRow /\ legacy = {}
       \/ \E id \in Ids :
            /\ <<"staging", id>> \notin Strangers
            /\ \E person \in {NoPerson, <<"staging", id>>} :
                 row = [NoRow EXCEPT !.individual = id, !.status = person,
                                     !.docs = person, !.docsFor = person[2]]
            /\ legacy = {<<"staging", id>>}
    /\ created = {}
    /\ server = [h \in Servers |-> Free]
    /\ lastTold = NoOutcome
    /\ rowTorn = FALSE
    /\ lost = FALSE

OngridNext ==
    \/ \E h \in Servers :
         \/ OnboardRead(h) \/ CreateRefused(h)
         \/ \E id \in Ids : CreateIndividual(h, id)
         \/ OnboardWrite(h)
         \/ \E services \in SUBSET Codes : VerifyRead(h, services)
         \/ VerifyWrite(h)
         \/ StatusRead(h) \/ StatusWrite(h)
         \/ MirrorLoad(h) \/ MirrorStore(h)
         \/ ClearRead(h) \/ ClearWrite(h)
         \/ EndEarly(h)
    \/ MoveToProduction

OngridSpec == OngridInit /\ [][OngridNext]_ongridVars

-----------------------------------------------------------------------------
\* What keeps the properties, as one inductive invariant.

\* The cached status is that of the individual on record.
StatusOf(r) ==
    r.status = NoPerson \/ /\ r.status[2] = r.individual
                           /\ r.community \in {r.status[1], None}

\* What every row that is written has of its own, however stale it may be: an individual with
\* a community is ours, and one of a community was abandoned by a row of the later one.
SoundRow(r) ==
    /\ r.individual # None /\ r.community # None => <<r.community, r.individual>> \in Ours
    /\ r.community = "production" => here = "production"
    /\ r.previous[1] # None => r.community = "production"
    /\ StatusOf(r)

\* What a handler has found in the row it read.
Follows(state) ==
    /\ state.stage = "creating" => ~Usable(state.copy)
    /\ state.stage = "clearing" => Abandons(state.copy)
    /\ state.stage \in {"checking", "asking"} => Usable(state.copy) /\ state.id = state.copy.individual
    /\ state.stage = "sending" => IF Usable(state.copy) THEN state.id = state.copy.individual
                                  ELSE <<here, state.id>> \in created

RowsAreSound ==
    /\ SoundRow(row)
    /\ \A h \in Servers : server[h] # Free => SoundRow(server[h].copy) /\ Follows(server[h])

\* Nobody is created in a community before its time.
CreatedInTime == \A p \in created : p[1] = "production" => here = "production"

\* Until a second copy is taken, the one copy is the row.
OneCopy ==
    rowTorn \/ \A h \in Servers : server[h] # Free =>
               /\ server[h].copy = row
               /\ \A g \in Servers : server[g] # Free => g = h

Named(p) ==
    \/ p \in {<<row.community, row.individual>>, row.previous} \union row.timeline
    \/ \E h \in Servers : Holding(h) /\ p = <<here, server[h].id>>

\* The individual of this community is on the row or about to be stored, so that another one
\* is not created.
CreatedOnce ==
    rowTorn \/ lost \/
      /\ \A p, q \in created : p[1] = q[1] => p = q
      /\ \A p \in created : p[1] = here =>
           \/ p = <<row.community, row.individual>>
           \/ \E h \in Servers : Holding(h) /\ p = <<here, server[h].id>>
      /\ \A p \in created : Named(p)

\* "Merged by code, not replaced" (bgv_ongrid.py:438): the outcome HR was last told
\* of a check stays on record whatever is sent, refreshed, mirrored or re-onboarded.
OutcomesAreKept == rowTorn \/ row.checks = lastTold

OngridIInv ==
    /\ OngridTypeOK
    /\ RowsAreSound
    /\ CreatedInTime
    /\ OneCopy
    /\ CreatedOnce
    /\ OutcomesAreKept

-----------------------------------------------------------------------------
\* Properties.

\* "it quietly answers about somebody else" (bgv_ongrid.py:211): whatever the
\* settings were when an id was stored, whichever copies are stale, documents go
\* to, checks run on and status is asked about individuals of this candidate.
OnlyOurIndividual ==
    \A h \in Servers : server[h].stage \in {"sending", "checking", "asking"} =>
        <<here, server[h].id>> \in Ours

\* "A second create does not update the first, it forks it" (bgv_ongrid.py:513):
\* a candidate is created once in a community, unless the answer was lost or two
\* copies of the row were open at once.
OneIndividual ==
    rowTorn \/ lost \/ \A c \in Communities : Cardinality({p \in created : p[1] = c}) <= 1

\* "The abandoned id is kept, not dropped: it is the only record that this
\* candidate was run somewhere else" (bgv_ongrid.py:600): with its community, every
\* individual created stays named by the row, by its timeline once it was unlinked, or
\* by the handler about to store it.
IndividualsStayNamed == rowTorn \/ lost \/ \A p \in created : Named(p)

\* "Left in place it would be shown against the new one as if it were current"
\* (bgv_ongrid.py:605): whatever is onboarded anew, cleared or written from a stale copy, the
\* cached status is that of the individual on record.
StatusIsCurrent == StatusOf(row)
=============================================================================
