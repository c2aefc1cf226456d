------------------------ MODULE Verification_proofs -------------------------
(*************************************************************************)
(* Proofs about the background verification of a joiner: OngridBgv for any *)
(* numbers, strangers, offerings and number of threads; ClaimChecks for any *)
(* documents links, document types, offerings and ways to fill in a claim. *)
(* And what they and the documents say together.                         *)
(*************************************************************************)
EXTENDS MCPapers, Documents_proofs, FiniteSetTheorems

(*************************************************************************)
(* One candidate at OnGrid.                                              *)
(*************************************************************************)

(***************************************************************************)
(* What the records hold.                                                  *)
(***************************************************************************)

\* A thread at work holds a copy of the row.
LEMMA HandlerFields ==
    ASSUME NEW state \in Handling, state # Free
    PROVE  /\ state.copy \in Row
           /\ state.stage \in {"creating", "mirroring", "clearing", "sending", "asking", "checking"}
           /\ state.stage \in {"sending", "asking", "checking"} => state.id \in Ids
           /\ state.stage = "checking" => state.services \subseteq Codes
BY DEF Handling, Free

\* The states that a step brings about.
LEMMA HandlersMade ==
    /\ Free \in Handling /\ Free.stage = "idle"
    /\ \A r \in Row : \A stage \in {"creating", "mirroring", "clearing"} :
         [stage |-> stage, copy |-> r] \in Handling \ {Free}
    /\ \A r \in Row, id \in Ids : \A stage \in {"sending", "asking"} :
         [stage |-> stage, copy |-> r, id |-> id] \in Handling \ {Free}
    /\ \A r \in Row, id \in Ids, services \in SUBSET Codes :
         [stage |-> "checking", copy |-> r, id |-> id, services |-> services] \in Handling \ {Free}
BY DEF Handling, Free

\* The parts of a row.
LEMMA RowFields ==
    ASSUME NEW r \in Row
    PROVE  /\ r.individual \in Ids \union {None} /\ r.community \in Communities \union {None}
           /\ r.previous \in (Communities \union {None}) \X (Ids \union {None})
           /\ r.checks \in [Codes -> Outcomes]
           /\ r.docs \in People \union {NoPerson} /\ r.docsFor \in Ids \union {None}
           /\ r.status \in People \union {NoPerson}
           /\ r.timeline \in SUBSET ((Communities \union {None}) \X Ids)
BY DEF Row

LEMMA NoRowIsRow == NoRow \in Row
BY DEF NoRow, Row, NoOutcome, Outcomes, NoPerson, None, Communities

(***************************************************************************)
(* Rows that are written, and handlers that take them up.                  *)
(***************************************************************************)

\* What is sound stays so when an individual is created or time goes on, and what a handler
\* has found while it stays the same.
LEMMA SoundStays ==
    ASSUME legacy \subseteq legacy', created \subseteq created',
           here = "production" => here' = "production"
    PROVE  /\ \A r : SoundRow(r) => SoundRow(r)'
           /\ here' = here => \A state : Follows(state) => Follows(state)'
BY DEF SoundRow, StatusOf, Ours, Follows, Usable, Abandons, BelongsHere

\* The parts of the invariant, with the types they need.
LEMMA Known ==
    ASSUME OngridIInv
    PROVE  /\ here \in Communities /\ row \in Row /\ SoundRow(row)
           /\ legacy \subseteq People /\ created \subseteq People
           /\ server \in [Servers -> Handling]
           /\ lastTold \in [Codes -> Outcomes] /\ rowTorn \in BOOLEAN /\ lost \in BOOLEAN
           /\ \A h \in Servers : server[h] # Free =>
                /\ server[h].copy \in Row
                /\ SoundRow(server[h].copy) /\ Follows(server[h])
BY HandlerFields DEF OngridIInv, OngridTypeOK, RowsAreSound

\* With one copy of the row, nobody but its holder could be about to store an individual.
LEMMA OnlyHolder ==
    ASSUME OngridIInv, ~rowTorn, NEW h \in Servers, server[h] # Free
    PROVE  /\ server[h].copy = row
           /\ \A g \in Servers : g # h => server[g] = Free
           /\ \A g \in Servers : Holding(g) => g = h
BY HandlersMade DEF OngridIInv, OneCopy, Holding

\* Is p named by a row?
NamedBy(r, p) == p \in {<<r.community, r.individual>>, r.previous} \union r.timeline

\* A step that writes a row and ends the handler.
LEMMA Write ==
    ASSUME OngridIInv, NEW h \in Servers, server[h] # Free, Done(h),
           row' \in Row, SoundRow(row'), UNCHANGED <<here, legacy, created, rowTorn>>,
           lastTold' \in [Codes -> Outcomes], ~rowTorn => row'.checks = lastTold',
           lost' \in BOOLEAN, lost => lost',
           ~rowTorn /\ ~lost' => \A p \in created :
               /\ NamedBy(row', p)
               /\ p[1] = here => p = <<row'.community, row'.individual>>
    PROVE  OngridIInv'
<1>1. server' = [server EXCEPT ![h] = Free] /\ server' \in [Servers -> Handling]
  BY Known, HandlersMade DEF Done
<1>2. OngridTypeOK'
  BY <1>1, Known DEF OngridTypeOK
<1>3. \A g \in Servers : server'[g] # Free => g # h /\ server'[g] = server[g] /\ server[g] # Free
  BY <1>1, Known
<1>4. SoundRow(row)'
  BY DEF SoundRow, Ours, StatusOf
<1>5. \A g \in Servers : server'[g] # Free =>
        SoundRow(server'[g].copy) /\ Follows(server'[g])
  BY <1>3, Known
<1>6. RowsAreSound'
  BY <1>4, <1>5, SoundStays DEF RowsAreSound
<1>7. CreatedInTime'
  BY DEF OngridIInv, CreatedInTime
<1>8. ~rowTorn => \A g \in Servers : server'[g] = Free
  BY <1>1, <1>3, OnlyHolder
<1>9. OneCopy'
  BY <1>8 DEF OneCopy
<1>10. CreatedOnce'
  <2> SUFFICES ASSUME ~rowTorn, ~lost'
               PROVE  CreatedOnce'
    BY DEF CreatedOnce
  <2>1. \A p, q \in created : p[1] = q[1] => p = q
    BY DEF OngridIInv, CreatedOnce
  <2>2. \A p \in created : Named(p)'
    BY DEF Named, NamedBy
  <2> QED
    BY <2>1, <2>2 DEF CreatedOnce
<1>11. OutcomesAreKept'
  BY DEF OutcomesAreKept
<1> QED
  BY <1>2, <1>6, <1>7, <1>9, <1>10, <1>11 DEF OngridIInv

\* A step that takes up the row.
LEMMA Take ==
    ASSUME OngridIInv, NEW h \in Servers, NEW state \in Handling \ {Free}, Open(h, state),
           state.copy = row, Follows(state), ~(state.stage = "sending" /\ ~Usable(row)),
           UNCHANGED <<here, row, legacy, created, lost>>
    PROVE  OngridIInv'
<1>1. /\ server[h] = Free
      /\ server' = [server EXCEPT ![h] = state] /\ server' \in [Servers -> Handling]
      /\ rowTorn' = (rowTorn \/ \E g \in Servers : server[g] # Free) /\ rowTorn' \in BOOLEAN
      /\ lastTold' = IF rowTorn' THEN NoOutcome ELSE lastTold
  BY Known DEF Open
<1>2. OngridTypeOK'
  BY <1>1, Known DEF OngridTypeOK, NoOutcome, Outcomes, None
<1>3. SoundRow(row)'
  BY Known, SoundStays
<1>4. \A g \in Servers : server'[g] # Free =>
        SoundRow(server'[g].copy) /\ Follows(server'[g])
  <2>1. SoundRow(state.copy) /\ Follows(state) /\ server'[h] = state
    BY <1>1, Known
  <2> QED
    BY <1>1, <2>1, Known
<1>5. RowsAreSound'
  BY <1>3, <1>4, SoundStays DEF RowsAreSound
<1>6. CreatedInTime'
  BY DEF OngridIInv, CreatedInTime
<1>7. ~rowTorn' => \A g \in Servers : server[g] = Free /\ (g # h => server'[g] = Free)
  BY <1>1, Known
<1>8. OneCopy'
  BY <1>1, <1>7, Known DEF OneCopy
<1>9. CreatedOnce'
  <2> SUFFICES ASSUME ~rowTorn', ~lost
               PROVE  CreatedOnce'
    BY DEF CreatedOnce
  <2>1. ~rowTorn /\ \A g \in Servers : ~Holding(g)
    BY <1>1, <1>7, HandlersMade DEF Holding
  <2>2. /\ \A p, q \in created : p[1] = q[1] => p = q
        /\ \A p \in created : p[1] = here => p = <<row.community, row.individual>>
        /\ \A p \in created : NamedBy(row, p)
    BY <2>1 DEF OngridIInv, CreatedOnce, Named, NamedBy
  <2>3. \A p \in created : Named(p)'
    BY <2>2 DEF Named, NamedBy
  <2> QED
    BY <2>2, <2>3 DEF CreatedOnce
<1>10. OutcomesAreKept'
  BY <1>1 DEF OngridIInv, OutcomesAreKept
<1> QED
  BY <1>2, <1>5, <1>6, <1>8, <1>9, <1>10 DEF OngridIInv

(***************************************************************************)
(* Reading the row.                                                        *)
(***************************************************************************)

LEMMA BgvReads ==
    ASSUME OngridIInv, NEW h \in Servers,
           \/ OnboardRead(h) \/ \E services \in SUBSET Codes : VerifyRead(h, services)
           \/ StatusRead(h) \/ MirrorLoad(h) \/ ClearRead(h)
    PROVE  OngridIInv'
<1>1. row \in Row /\ (Usable(row) => row.individual \in Ids)
  BY Known, RowFields DEF Usable
<1>2. CASE OnboardRead(h)
  <2>1. CASE Usable(row)
    <3> DEFINE state == [stage |-> "sending", copy |-> row, id |-> row.individual]
    <3>1. state \in Handling \ {Free} /\ state.copy = row /\ Follows(state)
      BY <1>1, <2>1, HandlersMade DEF Follows
    <3>2. Open(h, state)
      BY <1>2, <2>1 DEF OnboardRead
    <3> QED
      BY <1>2, <2>1, <3>1, <3>2, Take DEF OnboardRead
  <2>2. CASE ~Usable(row)
    <3> DEFINE state == [stage |-> "creating", copy |-> row]
    <3>1. state \in Handling \ {Free} /\ state.copy = row /\ Follows(state)
      BY <1>1, <2>2, HandlersMade DEF Follows
    <3>2. Open(h, state)
      BY <1>2, <2>2 DEF OnboardRead
    <3> QED
      BY <1>2, <3>1, <3>2, Take DEF OnboardRead
  <2> QED
    BY <2>1, <2>2
<1>3. ASSUME NEW services \in SUBSET Codes, VerifyRead(h, services)
      PROVE  OngridIInv'
  <2> DEFINE state == [stage |-> "checking", copy |-> row, id |-> row.individual,
                       services |-> services]
  <2>1. state \in Handling \ {Free} /\ state.copy = row /\ Follows(state)
    BY <1>1, <1>3, HandlersMade DEF Follows, VerifyRead
  <2> QED
    BY <1>3, <2>1, Take DEF VerifyRead
<1>4. CASE StatusRead(h)
  <2> DEFINE state == [stage |-> "asking", copy |-> row, id |-> row.individual]
  <2>1. state \in Handling \ {Free} /\ state.copy = row /\ Follows(state)
    BY <1>1, <1>4, HandlersMade DEF Follows, StatusRead
  <2> QED
    BY <1>4, <2>1, Take DEF StatusRead
<1>5. CASE MirrorLoad(h)
  <2> DEFINE state == [stage |-> "mirroring", copy |-> row]
  <2>1. state \in Handling \ {Free} /\ state.copy = row /\ Follows(state)
    BY <1>1, HandlersMade DEF Follows
  <2> QED
    BY <1>5, <2>1, Take DEF MirrorLoad
<1>6. CASE ClearRead(h)
  <2> DEFINE state == [stage |-> "clearing", copy |-> row]
  <2>1. state \in Handling \ {Free} /\ state.copy = row /\ Follows(state)
    BY <1>1, <1>6, HandlersMade DEF Follows, ClearRead
  <2> QED
    BY <1>6, <2>1, Take DEF ClearRead
<1> QED
  BY <1>2, <1>3, <1>4, <1>5, <1>6

(***************************************************************************)
(* Creating an individual.                                                 *)
(***************************************************************************)

\* The handler that is about to create holds no usable row, so nobody of this community was
\* created before, unless a copy is stale or an answer was lost.
LEMMA Creates ==
    ASSUME None \notin Ids, OngridIInv, NEW h \in Servers, NEW id \in Ids, CreateIndividual(h, id)
    PROVE  OngridIInv'
<1> DEFINE old == server[h].copy
           state == [stage |-> "sending", copy |-> old, id |-> id]
           who == <<here, id>>
<1>1. /\ server[h] # Free /\ old \in Row /\ SoundRow(old) /\ ~Usable(old)
      /\ who \in People /\ who \notin created
  BY Known, HandlersMade DEF CreateIndividual, Follows, Ours, People
<1>2. state \in Handling \ {Free} /\ state.copy = old
  BY <1>1, HandlersMade
<1>3. /\ server' = [server EXCEPT ![h] = state] /\ server' \in [Servers -> Handling]
      /\ created' = created \union {who}
      /\ UNCHANGED <<here, row, legacy, lastTold, rowTorn, lost>>
  BY <1>2, Known DEF CreateIndividual
<1>4. OngridTypeOK'
  BY <1>1, <1>3, Known DEF OngridTypeOK
<1>5. \A g \in Servers : server'[g] # Free => SoundRow(server'[g].copy)
  BY <1>1, <1>2, <1>3, Known
<1>6. Follows(state)'
  BY <1>1, <1>2, <1>3 DEF Follows, Usable, BelongsHere
<1>7. \A g \in Servers : server'[g] # Free => server'[g] = state \/ Follows(server'[g])
  BY <1>3, Known
<1>8. RowsAreSound'
  BY <1>3, <1>5, <1>6, <1>7, Known, SoundStays DEF RowsAreSound
<1>9. CreatedInTime'
  BY <1>3 DEF OngridIInv, CreatedInTime
<1>10. OneCopy'
  BY <1>1, <1>2, <1>3, Known DEF OngridIInv, OneCopy
<1>11. CreatedOnce'
  <2> SUFFICES ASSUME ~rowTorn, ~lost
               PROVE  CreatedOnce'
    BY <1>3 DEF CreatedOnce
  <2>1. old = row /\ \A g \in Servers : ~Holding(g)
    BY <1>1, OnlyHolder DEF CreateIndividual, Holding
  <2>2. \A p \in created : p[1] # here
    <3>1. \A p \in created : p[1] = here => p = <<row.community, row.individual>>
      BY <2>1 DEF OngridIInv, CreatedOnce
    <3>2. \A p \in created : p[2] # None
      BY Known DEF People
    <3> QED
      BY <1>1, <2>1, <3>1, <3>2 DEF Usable, BelongsHere
  <2>3. Holding(h)' /\ who = <<here, server[h].id>>'
    BY <1>1, <1>2, <1>3, Known DEF Holding, Usable, BelongsHere
  <2>4. \A p \in created' : p = who \/ NamedBy(row, p)
    BY <1>3, <2>1 DEF OngridIInv, CreatedOnce, Named, NamedBy
  <2>5. \A p \in created' : Named(p)'
    BY <1>3, <2>3, <2>4 DEF Named, NamedBy
  <2>6. \A p, q \in created' : p[1] = q[1] => p = q
    BY <1>3, <2>2 DEF OngridIInv, CreatedOnce
  <2>7. \A p \in created' : p[1] = here' => \E g \in Servers : Holding(g)' /\ p = <<here', server'[g].id>>
    BY <1>3, <2>2, <2>3
  <2> QED
    BY <2>5, <2>6, <2>7 DEF CreatedOnce
<1>12. OutcomesAreKept'
  BY <1>3 DEF OngridIInv, OutcomesAreKept
<1> QED
  BY <1>4, <1>8, <1>9, <1>10, <1>11, <1>12 DEF OngridIInv

(***************************************************************************)
(* Handlers that end without a word to the row.                            *)
(***************************************************************************)

\* Whom the row names while its one copy is held.
LEMMA Names ==
    ASSUME OngridIInv, ~rowTorn, ~lost, NEW h \in Servers, server[h] # Free
    PROVE  /\ server[h].copy = row /\ row.checks = lastTold
           /\ \A p, q \in created : p[1] = q[1] => p = q
           /\ \A p \in created :
                \/ Holding(h) /\ p = <<here, server[h].id>>
                \/ NamedBy(row, p) /\ (p[1] = here => p = <<row.community, row.individual>>)
BY OnlyHolder DEF OngridIInv, CreatedOnce, OutcomesAreKept, Named, NamedBy

LEMMA Ends ==
    ASSUME OngridIInv, NEW h \in Servers, CreateRefused(h) \/ EndEarly(h)
    PROVE  OngridIInv'
<1>1. /\ server[h] # Free /\ Done(h) /\ row' = row /\ lastTold' = lastTold
      /\ UNCHANGED <<here, legacy, created, rowTorn>>
      /\ lost' \in BOOLEAN /\ (lost => lost') /\ (Holding(h) => lost')
  <2>1. CASE CreateRefused(h)
    BY <2>1, HandlersMade, Known DEF CreateRefused, Holding
  <2>2. CASE EndEarly(h)
    BY <2>2, Known DEF EndEarly
  <2> QED
    BY <2>1, <2>2
<1>2. row' \in Row /\ SoundRow(row') /\ lastTold' \in [Codes -> Outcomes]
  BY <1>1, Known
<1>3. ~rowTorn => row'.checks = lastTold'
  BY <1>1 DEF OngridIInv, OutcomesAreKept
<1>4. ~rowTorn /\ ~lost' => \A p \in created :
        NamedBy(row', p) /\ (p[1] = here => p = <<row'.community, row'.individual>>)
  BY <1>1, Names
<1> QED
  BY <1>1, <1>2, <1>3, <1>4, Write

(***************************************************************************)
(* Writing the row.                                                        *)
(***************************************************************************)

\* Onboarding: the individual of the handler replaces the one on the row, which is kept as
\* the previous one if it is not of this community.
LEMMA Onboards ==
    ASSUME None \notin Ids, OngridIInv, NEW h \in Servers, OnboardWrite(h)
    PROVE  OngridIInv'
<1> DEFINE old == server[h].copy
           id == server[h].id
<1>1. /\ server[h] # Free /\ server[h].stage = "sending" /\ Done(h) /\ id \in Ids
      /\ old \in Row /\ SoundRow(old) /\ Follows(server[h])
      /\ UNCHANGED <<here, legacy, created, lastTold, rowTorn, lost>> /\ here \in Communities
  BY Known, HandlersMade, HandlerFields DEF OnboardWrite
<1>2. /\ row' = [old EXCEPT !.individual = id, !.community = here, !.previous = row'.previous,
                            !.status = row'.status]
      /\ row'.previous = IF Abandons(old) THEN <<old.community, old.individual>> ELSE old.previous
      /\ row'.status = IF Abandons(old) THEN NoPerson ELSE old.status
      /\ row'.individual = id /\ row'.community = here
      /\ row'.checks = old.checks /\ row'.timeline = old.timeline
  BY <1>1 DEF OnboardWrite, Row
<1>3. row' \in Row
  <2>1. row'.previous \in (Communities \union {None}) \X (Ids \union {None})
    BY <1>1, <1>2, RowFields
  <2>2. row'.status \in People \union {NoPerson}
    BY <1>1, <1>2, RowFields
  <2> QED
    BY <1>1, <1>2, <2>1, <2>2 DEF Row
<1>4. SoundRow(row')
  <2>1. <<here, id>> \in Ours
    BY <1>1 DEF Follows, SoundRow, Ours, Usable, BelongsHere, Communities, None
  <2>2. row'.previous[1] # None => here = "production"
    BY <1>1, <1>2, RowFields DEF SoundRow, Abandons, BelongsHere, Communities
  <2>3. StatusOf(row')
    <3>1. CASE Abandons(old)
      BY <1>2, <3>1 DEF StatusOf
    <3>2. CASE Usable(old)
      BY <1>1, <1>2, <3>2 DEF StatusOf, SoundRow, Follows, Usable, Abandons, BelongsHere
    <3>3. CASE old.individual = None
      <4>1. old.status = NoPerson
        BY <1>1, <3>3, RowFields DEF SoundRow, StatusOf, People
      <4> QED
        BY <1>2, <4>1 DEF StatusOf
    <3> QED
      BY <3>1, <3>2, <3>3 DEF Usable, Abandons
  <2> QED
    BY <1>2, <2>1, <2>2, <2>3 DEF SoundRow
<1>5. ASSUME ~rowTorn, ~lost, NEW p \in created
      PROVE  NamedBy(row', p) /\ (p[1] = here => p = <<row'.community, row'.individual>>)
  <2>1. old = row /\ p \in People
    BY <1>1, <1>5, Names, Known
  <2>2. CASE Holding(h)
    <3>1. <<here, id>> \in created
      BY <1>1, <2>2 DEF Holding, Follows
    <3>2. CASE p[1] = here
      BY <1>1, <1>2, <1>5, <3>1, <3>2, Names DEF NamedBy
    <3>3. CASE p[1] # here
      <4>1. NamedBy(old, p)
        BY <1>1, <1>5, <2>1, <3>3, Names
      <4>2. CASE p = <<old.community, old.individual>>
        BY <1>2, <2>1, <3>3, <4>2 DEF NamedBy, Abandons, BelongsHere, People
      <4>3. CASE p = old.previous
        <5>1. old.community = "production" /\ here = "production"
          BY <1>1, <2>1, <4>3 DEF SoundRow, People, Communities, None
        <5> QED
          BY <1>2, <3>3, <4>3, <5>1 DEF NamedBy, Abandons, BelongsHere
      <4>4. CASE p \in old.timeline
        BY <1>2, <3>3, <4>4 DEF NamedBy
      <4> QED
        BY <4>1, <4>2, <4>3, <4>4 DEF NamedBy
    <3> QED
      BY <3>2, <3>3
  <2>3. CASE ~Holding(h)
    <3>1. Usable(old) /\ id = old.individual /\ ~Abandons(old) /\ here = old.community
      BY <1>1, <2>3 DEF Holding, Follows, Usable, Abandons, BelongsHere
    <3> QED
      BY <1>1, <1>2, <1>5, <2>1, <2>3, <3>1, Names DEF NamedBy
  <2> QED
    BY <2>2, <2>3
<1>6. ~rowTorn => row'.checks = lastTold'
  BY <1>1, <1>2, OnlyHolder DEF OngridIInv, OutcomesAreKept
<1>7. lastTold' \in [Codes -> Outcomes] /\ lost' \in BOOLEAN
  BY <1>1, Known
<1> QED
  BY <1>1, <1>3, <1>4, <1>5, <1>6, <1>7, Write

\* The other writes keep the individual on the row and those it names.
LEMMA Keeps ==
    ASSUME OngridIInv, NEW h \in Servers, server[h] # Free, ~Holding(h), Done(h), row' \in Row,
           row'.individual = server[h].copy.individual,
           row'.community = server[h].copy.community,
           row'.previous = server[h].copy.previous,
           row'.timeline = server[h].copy.timeline,
           StatusOf(row'), UNCHANGED <<here, legacy, created, rowTorn, lost>>,
           lastTold' \in [Codes -> Outcomes], ~rowTorn => row'.checks = lastTold'
    PROVE  OngridIInv'
<1>1. SoundRow(row')
  BY Known DEF SoundRow
<1>2. ~rowTorn /\ ~lost' => \A p \in created :
        NamedBy(row', p) /\ (p[1] = here => p = <<row'.community, row'.individual>>)
  BY Names DEF NamedBy
<1>3. lost' \in BOOLEAN
  BY Known
<1> QED
  BY <1>1, <1>2, <1>3, Write

\* A run has an outcome for each check that was asked for and for no other.
LEMMA RunFields ==
    \A who \in People, services \in SUBSET Codes, docs \in People \union {NoPerson} :
      \A run \in RunChecks(who, services, docs) :
        /\ run.outcome \in [Codes -> Outcomes] /\ run.docs \in People \union {NoPerson}
        /\ \A c \in Codes : run.outcome[c] = None <=> c \notin services
<1> TAKE who \in People, services \in SUBSET Codes, docs \in People \union {NoPerson}
<1> TAKE run \in RunChecks(who, services, docs)
<1>1. /\ run \in [outcome : [Codes -> Outcomes],
                  docs : IF services \intersect DocumentBacked = {} THEN {docs}
                         ELSE Register(who, docs)]
      /\ \A c \in Codes : run.outcome[c] \in IF c \in services THEN RunCheck(c, run.docs) ELSE {None}
  BY DEF RunChecks
<1>2. run.outcome \in [Codes -> Outcomes] /\ run.docs \in People \union {NoPerson}
  BY <1>1 DEF Register
<1>3. \A c \in Codes : \A d : None \notin RunCheck(c, d)
  BY DEF RunCheck, RunDocumentCheck, RunClaimCheck, Started, None
<1>4. ASSUME NEW c \in Codes
      PROVE  run.outcome[c] = None <=> c \notin services
  <2>1. None \notin RunCheck(c, run.docs)
    BY <1>3
  <2>2. run.outcome[c] \in IF c \in services THEN RunCheck(c, run.docs) ELSE {None}
    BY <1>1
  <2> QED
    BY <2>1, <2>2
<1>5. \A c \in Codes : run.outcome[c] = None <=> c \notin services
  BY <1>4
<1> QED
  BY <1>2, <1>5

LEMMA Verifies ==
    ASSUME OngridIInv, NEW h \in Servers, VerifyWrite(h)
    PROVE  OngridIInv'
<1> DEFINE old == server[h].copy
           id == server[h].id
           asked == server[h].services
           docs == CachedDocument(old)
<1>1. /\ server[h] # Free /\ Done(h) /\ id \in Ids /\ asked \in SUBSET Codes
      /\ old \in Row /\ SoundRow(old) /\ ~Holding(h)
      /\ UNCHANGED <<here, legacy, created, rowTorn, lost>> /\ <<here, id>> \in People
      /\ lastTold \in [Codes -> Outcomes]
  BY Known, HandlersMade, HandlerFields DEF VerifyWrite, Holding, People
<1>2. docs \in People \union {NoPerson}
  BY <1>1, RowFields DEF CachedDocument
<1>3. PICK run \in RunChecks(<<here, id>>, asked, docs) :
        /\ row' = [old EXCEPT !.checks = Merge(@, run.outcome),
                              !.docs = run.docs, !.docsFor = id]
        /\ lastTold' = IF rowTorn THEN NoOutcome
                   ELSE [c \in Codes |-> IF c \in asked THEN run.outcome[c] ELSE lastTold[c]]
  BY DEF VerifyWrite
<1>4. /\ run.outcome \in [Codes -> Outcomes] /\ run.docs \in People \union {NoPerson}
      /\ \A c \in Codes : run.outcome[c] = None <=> c \notin asked
  <2>1. /\ <<here, id>> \in People /\ asked \in SUBSET Codes
        /\ docs \in People \union {NoPerson}
        /\ run \in RunChecks(<<here, id>>, asked, docs)
    BY <1>1, <1>2, <1>3
  <2> HIDE DEF docs, asked, id
  <2>2. \A ru \in RunChecks(<<here, id>>, asked, docs) :
          /\ ru.outcome \in [Codes -> Outcomes] /\ ru.docs \in People \union {NoPerson}
          /\ \A c \in Codes : ru.outcome[c] = None <=> c \notin asked
    BY <2>1, RunFields, Zenon
  <2> QED
    BY <2>1, <2>2
<1>5. Merge(old.checks, run.outcome) \in [Codes -> Outcomes]
  BY <1>1, <1>4, RowFields DEF Merge
<1>6. /\ row' \in Row /\ row'.individual = old.individual /\ row'.community = old.community
      /\ row'.previous = old.previous /\ row'.timeline = old.timeline
      /\ row'.status = old.status /\ row'.checks = Merge(old.checks, run.outcome)
  BY <1>1, <1>3, <1>4, <1>5 DEF Row
<1>7. StatusOf(row')
  BY <1>1, <1>6 DEF StatusOf, SoundRow
<1>8. lastTold' \in [Codes -> Outcomes]
  BY <1>1, <1>3, <1>4 DEF NoOutcome, Outcomes
<1>9. ~rowTorn => row'.checks = lastTold'
  <2> SUFFICES ASSUME ~rowTorn
               PROVE  row'.checks = lastTold'
    OBVIOUS
  <2>1. old.checks = lastTold
    BY <1>1, OnlyHolder DEF OngridIInv, OutcomesAreKept
  <2> QED
    BY <1>3, <1>4, <1>6, <2>1 DEF Merge
<1> QED
  BY <1>1, <1>6, <1>7, <1>8, <1>9, Keeps

LEMMA Refreshes ==
    ASSUME OngridIInv, NEW h \in Servers, StatusWrite(h) \/ MirrorStore(h)
    PROVE  OngridIInv'
<1> DEFINE old == server[h].copy
<1>1. /\ server[h] # Free /\ Done(h) /\ ~Holding(h) /\ old \in Row /\ SoundRow(old)
      /\ lastTold' = lastTold /\ lastTold \in [Codes -> Outcomes]
      /\ UNCHANGED <<here, legacy, created, rowTorn, lost>>
  BY Known, HandlersMade DEF StatusWrite, MirrorStore, Holding
<1>2. ~rowTorn => old.checks = lastTold'
  BY <1>1, OnlyHolder DEF OngridIInv, OutcomesAreKept
<1>3. CASE StatusWrite(h)
  <2>1. /\ <<here, server[h].id>> \in People /\ server[h].id = old.individual
        /\ old.community = here
    BY <1>1, <1>3, Known, HandlerFields DEF StatusWrite, Follows, Usable, BelongsHere, People
  <2>2. /\ row' \in Row /\ row'.individual = old.individual /\ row'.community = old.community
        /\ row'.previous = old.previous /\ row'.timeline = old.timeline
        /\ row'.checks = old.checks /\ StatusOf(row')
    BY <1>1, <1>3, <2>1 DEF StatusWrite, Row, StatusOf
  <2> QED
    BY <1>1, <1>2, <2>2, Keeps
<1>4. CASE MirrorStore(h)
  <2>1. row' = old /\ StatusOf(row')
    BY <1>1, <1>4 DEF MirrorStore, SoundRow
  <2> QED
    BY <1>1, <1>2, <2>1, Keeps
<1> QED
  BY <1>3, <1>4

\* Clearing: the individual that is unlinked goes to the timeline.
LEMMA Clears ==
    ASSUME OngridIInv, NEW h \in Servers, ClearWrite(h)
    PROVE  OngridIInv'
<1> DEFINE old == server[h].copy
           gone == <<old.community, old.individual>>
<1>1. /\ server[h] # Free /\ Done(h) /\ ~Holding(h) /\ old \in Row /\ SoundRow(old)
      /\ Abandons(old) /\ here \in Communities /\ lastTold' = NoOutcome
      /\ UNCHANGED <<here, legacy, created, rowTorn, lost>>
  BY Known, HandlersMade DEF ClearWrite, Holding, Follows
<1>2. row' = [NoRow EXCEPT !.previous = old.previous, !.timeline = old.timeline \union {gone}]
  BY DEF ClearWrite
<1>3. /\ row'.individual = None /\ row'.community = None /\ row'.status = NoPerson
      /\ row'.previous = old.previous /\ row'.timeline = old.timeline \union {gone}
      /\ row'.checks = NoOutcome
  BY <1>2 DEF NoRow
<1>4. row' \in Row
  <2>1. gone \in (Communities \union {None}) \X Ids
    BY <1>1, RowFields DEF Abandons
  <2>2. old.timeline \union {gone} \in SUBSET ((Communities \union {None}) \X Ids)
    BY <1>1, <2>1, RowFields
  <2>3. old.previous \in (Communities \union {None}) \X (Ids \union {None})
    BY <1>1, RowFields
  <2> QED
    BY <1>2, <2>2, <2>3, NoRowIsRow DEF Row
<1>5. SoundRow(row')
  <2>1. old.previous[1] = None
    BY <1>1 DEF SoundRow, Abandons, BelongsHere
  <2> QED
    BY <1>3, <2>1 DEF SoundRow, StatusOf, None
<1>6. ~rowTorn /\ ~lost' => \A p \in created :
        NamedBy(row', p) /\ (p[1] = here => p = <<row'.community, row'.individual>>)
  BY <1>1, <1>3, Names DEF NamedBy, Abandons, BelongsHere
<1>7. lastTold' \in [Codes -> Outcomes] /\ lost' \in BOOLEAN
  BY <1>1, Known DEF NoOutcome, Outcomes
<1> QED
  BY <1>1, <1>3, <1>4, <1>5, <1>6, <1>7, Write

(***************************************************************************)
(* The move, the beginning, and every step.                                *)
(***************************************************************************)

\* In staging nobody of production was created and no row was abandoned.
LEMMA Moves ==
    ASSUME OngridIInv, MoveToProduction
    PROVE  OngridIInv'
<1>1. /\ here = "staging" /\ here' = "production" /\ server' = [h \in Servers |-> Free]
      /\ UNCHANGED <<row, legacy, created, lastTold, rowTorn>>
      /\ lost' \in BOOLEAN /\ (lost => lost') /\ \A h \in Servers : Holding(h) => lost'
  BY Known DEF MoveToProduction
<1>2. OngridTypeOK'
  BY <1>1, Known, HandlersMade DEF OngridTypeOK, Communities
<1>3. RowsAreSound'
  BY <1>1, Known, SoundStays DEF RowsAreSound
<1>4. CreatedInTime'
  BY <1>1 DEF CreatedInTime
<1>5. OneCopy'
  BY <1>1 DEF OneCopy
<1>6. CreatedOnce'
  <2> SUFFICES ASSUME ~rowTorn, ~lost'
               PROVE  CreatedOnce'
    BY <1>1 DEF CreatedOnce
  <2>1. /\ \A p, q \in created : p[1] = q[1] => p = q
        /\ \A p \in created : NamedBy(row, p)
    BY <1>1 DEF OngridIInv, CreatedOnce, Named, NamedBy
  <2>2. \A p \in created : p[1] # here'
    BY <1>1 DEF OngridIInv, CreatedInTime
  <2>3. \A p \in created : Named(p)'
    BY <1>1, <2>1 DEF Named, NamedBy
  <2> QED
    BY <1>1, <2>1, <2>2, <2>3 DEF CreatedOnce
<1>7. OutcomesAreKept'
  BY <1>1 DEF OngridIInv, OutcomesAreKept
<1> QED
  BY <1>2, <1>3, <1>4, <1>5, <1>6, <1>7 DEF OngridIInv

LEMMA Begins ==
    ASSUME OngridInit
    PROVE  OngridIInv
<1>1. /\ here \in Communities /\ created = {} /\ server = [h \in Servers |-> Free]
      /\ lastTold = NoOutcome /\ rowTorn = FALSE /\ lost = FALSE
  BY DEF OngridInit
<1>2. /\ row \in Row /\ row.community = None /\ row.previous = NoPerson /\ StatusOf(row)
      /\ row.checks = NoOutcome /\ legacy \subseteq People
  <2>1. CASE row = NoRow /\ legacy = {}
    BY <2>1, NoRowIsRow DEF NoRow, StatusOf
  <2>2. ASSUME NEW id \in Ids, NEW who \in {NoPerson, <<"staging", id>>},
               row = [NoRow EXCEPT !.individual = id, !.status = who,
                                   !.docs = who, !.docsFor = who[2]],
               legacy = {<<"staging", id>>}
        PROVE  /\ row \in Row /\ row.community = None /\ row.previous = NoPerson /\ StatusOf(row)
               /\ row.checks = NoOutcome /\ legacy \subseteq People
    <3>1. <<"staging", id>> \in People /\ who \in People \union {NoPerson}
          /\ who[2] \in Ids \union {None}
      BY DEF People, Communities, NoPerson
    <3>2. row \in Row
      BY <2>2, <3>1, NoRowIsRow DEF Row
    <3>3. /\ row.community = None /\ row.previous = NoPerson /\ row.checks = NoOutcome
          /\ row.status = who /\ row.individual = id
      BY <2>2 DEF NoRow
    <3> QED
      BY <2>2, <3>1, <3>2, <3>3 DEF StatusOf
  <2> QED
    BY <2>1, <2>2 DEF OngridInit
<1>3. OngridTypeOK
  BY <1>1, <1>2, HandlersMade DEF OngridTypeOK, NoOutcome, Outcomes
<1>4. RowsAreSound
  BY <1>1, <1>2 DEF RowsAreSound, SoundRow, NoPerson, None
<1>5. CreatedInTime /\ OneCopy /\ CreatedOnce /\ OutcomesAreKept
  BY <1>1, <1>2 DEF CreatedInTime, OneCopy, CreatedOnce, OutcomesAreKept
<1> QED
  BY <1>3, <1>4, <1>5 DEF OngridIInv

LEMMA Steps ==
    ASSUME OngridIInv, [OngridNext]_ongridVars
    PROVE  OngridIInv'
<1>1. None \notin Ids
  BY OngridAssumption
<1>2. ASSUME NEW h \in Servers, NEW id \in Ids, CreateIndividual(h, id)
      PROVE  OngridIInv'
  BY <1>1, <1>2, Creates
<1>3. ASSUME NEW h \in Servers, CreateRefused(h) \/ EndEarly(h)
      PROVE  OngridIInv'
  BY <1>3, Ends
<1>4. ASSUME NEW h \in Servers, OnboardWrite(h)
      PROVE  OngridIInv'
  BY <1>1, <1>4, Onboards
<1>5. ASSUME NEW h \in Servers, VerifyWrite(h)
      PROVE  OngridIInv'
  BY <1>5, Verifies
<1>6. ASSUME NEW h \in Servers, StatusWrite(h) \/ MirrorStore(h)
      PROVE  OngridIInv'
  BY <1>6, Refreshes
<1>7. ASSUME NEW h \in Servers, ClearWrite(h)
      PROVE  OngridIInv'
  BY <1>7, Clears
<1>8. ASSUME NEW h \in Servers,
             \/ OnboardRead(h) \/ \E services \in SUBSET Codes : VerifyRead(h, services)
             \/ StatusRead(h) \/ MirrorLoad(h) \/ ClearRead(h)
      PROVE  OngridIInv'
  BY <1>8, BgvReads
<1>9. CASE MoveToProduction
  BY <1>9, Moves
<1>10. CASE UNCHANGED ongridVars
  BY <1>10 DEF ongridVars, OngridIInv, OngridTypeOK, RowsAreSound, SoundRow, StatusOf, Follows, Ours,
     Usable, Abandons, BelongsHere, CreatedInTime, OneCopy, CreatedOnce, Named, Holding,
     OutcomesAreKept
<1> QED
  BY <1>2, <1>3, <1>4, <1>5, <1>6, <1>7, <1>8, <1>9, <1>10 DEF OngridNext

(***************************************************************************)
(* The theorems.                                                           *)
(***************************************************************************)

\* The types, what every copy of the row has of its own, that one copy is the row until a
\* second is taken, that an individual of this community is on the row or about to be
\* stored (app/api/routes/bgv_ongrid.py), and that merged outcomes stay.
THEOREM RecordInvariance == OngridSpec => []OngridIInv
<1>1. OngridInit => OngridIInv
  BY Begins
<1>2. OngridIInv /\ [OngridNext]_ongridVars => OngridIInv'
  BY Steps
<1> QED
  BY <1>1, <1>2, PTL DEF OngridSpec

\* Documents go to, checks run on and status is asked about individuals of this candidate,
\* whichever copies are stale and whatever the settings were when an id was stored.
THEOREM NobodyElse == OngridSpec => []OnlyOurIndividual
<1>1. OngridIInv => OnlyOurIndividual
  <2> SUFFICES ASSUME OngridIInv, NEW h \in Servers,
                      server[h].stage \in {"sending", "checking", "asking"}
               PROVE  <<here, server[h].id>> \in Ours
    BY DEF OnlyOurIndividual
  <2>1. SoundRow(server[h].copy) /\ Follows(server[h]) /\ here \in Communities
    BY Known, HandlersMade
  <2> QED
    BY <2>1 DEF SoundRow, Follows, Usable, BelongsHere, Ours, Communities, None
<1> QED
  BY <1>1, RecordInvariance, PTL

\* A candidate is created once in a community, until two copies of the row were open at once
\* or an answer was lost.
THEOREM NoFork == OngridSpec => []OneIndividual
<1>1. OngridIInv => OneIndividual
  <2> SUFFICES ASSUME OngridIInv, ~rowTorn, ~lost, NEW c \in Communities
               PROVE  Cardinality({p \in created : p[1] = c}) <= 1
    BY DEF OneIndividual
  <2> DEFINE those == {p \in created : p[1] = c}
  <2>1. \A p, q \in those : p = q
    BY DEF OngridIInv, CreatedOnce
  <2>2. CASE those = {}
    BY <2>2, FS_EmptySet
  <2>3. ASSUME NEW p \in those
        PROVE  Cardinality(those) <= 1
    <3>1. those = {p}
      BY <2>1, <2>3
    <3>2. Cardinality({p}) = 1
      BY FS_Singleton
    <3> HIDE DEF those
    <3> QED
      BY <3>1, <3>2
  <2> QED
    BY <2>2, <2>3
<1> QED
  BY <1>1, RecordInvariance, PTL

\* An individual that was created stays named by the row, by its timeline once it was
\* unlinked, or by the handler about to store it.
THEOREM NobodyForgotten == OngridSpec => []IndividualsStayNamed
<1>1. OngridIInv => IndividualsStayNamed
  BY DEF OngridIInv, CreatedOnce, IndividualsStayNamed
<1> QED
  BY <1>1, RecordInvariance, PTL

\* The outcome HR was last told of a check stays on record.
THEOREM OutcomesMerge == OngridSpec => []OutcomesAreKept
<1>1. OngridIInv => OutcomesAreKept
  BY DEF OngridIInv
<1> QED
  BY <1>1, RecordInvariance, PTL

\* The cached status is that of the individual on record, whichever copies are stale.
THEOREM StatusMatches == OngridSpec => []StatusIsCurrent
<1>1. OngridIInv => StatusIsCurrent
  BY DEF OngridIInv, RowsAreSound, SoundRow, StatusIsCurrent
<1> QED
  BY <1>1, RecordInvariance, PTL

(*************************************************************************)
(* The claims of a send.                                                 *)
(*************************************************************************)

(***************************************************************************)
(* What a send has to go on.                                               *)
(***************************************************************************)

\* The newest of some files is one of them.
LEMMA NewestFile ==
    ASSUME NEW T, T \subseteq 1..MaxFiles, T # {}
    PROVE  Max(T) \in T
<1> DEFINE Ages == {MaxFiles - x : x \in T}
<1>1. MaxFiles \in Nat
  BY ClaimConstants
<1>2. Ages \subseteq Nat /\ Ages # {}
  <2>1. \A x \in T : MaxFiles - x \in Nat
    BY <1>1
  <2> QED
    BY <2>1
<1>3. PICK a \in Ages : \A b \in Ages : a <= b
  <2> HIDE DEF Ages
  <2> QED
    BY <1>2, LeastNumber
<1>4. PICK x \in T : a = MaxFiles - x
  OBVIOUS
<1>5. \A y \in T : x >= y
  <2>1. \A y \in T : MaxFiles - x <= MaxFiles - y /\ y \in Int
    BY <1>3, <1>4
  <2>2. x \in Int
    OBVIOUS
  <2> QED
    BY <1>1, <2>1, <2>2
<1> QED
  BY <1>5 DEF Max

\* The preferred document of a type is a file that was uploaded, or none.
LEMMA PreferredFile ==
    ASSUME ClaimTypeOK, NEW type \in Types
    PROVE  DocumentFor(type) \in 0..MaxFiles
<1> DEFINE submissions == {files[l][type] : l \in Portals} \ {NoDocument}
           trusted == {s \in submissions : s.status = "Verified"}
           best == IF trusted # {} THEN trusted ELSE submissions
           numbers == {s.file : s \in best}
<1>1. submissions \subseteq Document
  BY DEF ClaimTypeOK
<1>2. best \subseteq submissions /\ (submissions # {} => best # {})
  OBVIOUS
<1> HIDE DEF submissions, best
<1>3. \A s \in best : s.file \in 1..MaxFiles
  BY <1>1, <1>2 DEF Document
<1>4. numbers \subseteq 1..MaxFiles /\ (best # {} => numbers # {})
  BY <1>3
<1> HIDE DEF numbers
<1>5. submissions # {} => Max(numbers) \in 1..MaxFiles
  BY <1>2, <1>4, NewestFile
<1>6. DocumentFor(type) = IF submissions = {} THEN NoScan ELSE Max(numbers)
  BY DEF DocumentFor, submissions, numbers, best
<1> QED
  BY <1>5, <1>6, ClaimConstants DEF NoScan

\* So is what storage delivers.
LEMMA DeliveredFile ==
    ASSUME ClaimTypeOK, NEW type, NEW delivered
    PROVE  Fetched(type, delivered) \in 0..MaxFiles
BY PreferredFile, ClaimConstants DEF Fetched, NoScan

\* The scans of a record are uploads.
LEMMA ScansAreFiles ==
    ASSUME ClaimTypeOK, NEW code, NEW delivered
    PROVE  Scans(code, delivered) \subseteq 1..MaxFiles
<1>1. \A type : Fetched(type, delivered) # NoScan => Fetched(type, delivered) \in 1..MaxFiles
  BY DeliveredFile DEF NoScan
<1>2. Proofs(delivered) \subseteq 1..MaxFiles
  BY <1>1 DEF Proofs
<1>3. {Fetched(EducationDocType, delivered)} \ {NoScan} \subseteq 1..MaxFiles
  BY <1>1
<1> QED
  BY <1>2, <1>3 DEF Scans

\* What HR typed into the dialog.
LEMMA TypedClaims ==
    ASSUME NEW typed \in Details
    PROVE  /\ DOMAIN typed \subseteq HRClaims
           /\ \A c \in DOMAIN typed : typed[c] \in By(HR)
BY DEF Details

\* What HR passes with a send are entries; for a claim it passes nothing for there are none.
LEMMA GivenEntries ==
    ASSUME ClaimTypeOK, NEW typed \in Details, NEW claim \in Claims
    PROVE  Given(typed, claim) \in Seq(Entry)
<1>1. By(HR) \subseteq Entry
  BY DEF By, Entry
<1>2. CASE claim \in DOMAIN typed
  BY <1>1, <1>2, TypedClaims DEF Given
<1>3. CASE claim \notin DOMAIN typed
  <2> DEFINE holding == {l \in Portals : filled[l][claim] # <<>>}
  <2>1. holding \subseteq Nat /\ holding \subseteq Portals
    BY ClaimConstants
  <2>2. PortalField(claim) = IF holding = {} THEN <<>> ELSE filled[Min(holding)][claim]
    BY DEF PortalField
  <2> HIDE DEF holding
  <2>3. holding # {} => Min(holding) \in holding
    BY <2>1, LeastNumber DEF Min
  <2>4. \A l \in Portals : filled[l][claim] \in Seq(Entry)
    BY DEF ClaimTypeOK
  <2>5. PortalField(claim) \in Seq(Entry)
    <3> DEFINE All == Seq(Entry)
    <3>1. <<>> \in All
      OBVIOUS
    <3>2. holding # {} => filled[Min(holding)][claim] \in All
      BY <2>1, <2>3, <2>4
    <3> HIDE DEF All
    <3>3. PortalField(claim) \in All
      BY <2>2, <3>1, <3>2
    <3> QED
      BY <3>3 DEF All
  <2> QED
    BY <1>3, <2>5 DEF Given
<1> QED
  BY <1>2, <1>3

\* What may be sent of a claim is one complete entry, or nothing.
LEMMA UsableEntry ==
    ASSUME ClaimTypeOK, NEW typed \in Details, NEW claim \in Claims, UsableClaim(typed, claim) # <<>>
    PROVE  /\ Head(UsableClaim(typed, claim)) \in Entry
           /\ IsComplete(claim, Head(UsableClaim(typed, claim)))
<1> DEFINE given == Given(typed, claim)
           I == {i \in 1..Len(given) : IsComplete(claim, given[i])}
           first == IF I # {} THEN Min(I) ELSE 0
<1>1. UsableClaim(typed, claim) = IF first = 0 THEN <<>> ELSE <<given[first]>>
  BY DEF UsableClaim, SelectInSeq
<1>2. given \in Seq(Entry)
  BY GivenEntries
<1>3. I \subseteq Nat
  OBVIOUS
<1> HIDE DEF given
<1>4. I # {} => Min(I) \in I
  <2> HIDE DEF I
  <2> QED
    BY <1>3, LeastNumber DEF Min
<1>5. first # 0
  BY <1>1
<1>6. first \in I
  BY <1>4, <1>5
<1> HIDE DEF first
<1>7. given[first] \in Entry /\ IsComplete(claim, given[first])
  BY <1>2, <1>6
<1>8. Head(UsableClaim(typed, claim)) = given[first]
  BY <1>1, <1>5
<1> QED
  BY <1>7, <1>8

(***************************************************************************)
(* What a send registers.                                                  *)
(***************************************************************************)

\* The claim of a code.
LEMMA ClaimOfCode ==
    /\ DOMAIN ClaimOf = {"EHC", "EDUV", "EMPV", "PAV", "PRC"}
    /\ \A c \in DOMAIN ClaimOf : ClaimOf[c] \in Claims /\ c \notin SelfContained /\ c # "PANV"
    /\ RegisteredFirst \subseteq DOMAIN ClaimOf
    /\ \A c \in DOMAIN ClaimOf : ClaimOf[c] \in {"education", "employment"} => c \in NeedsScan
BY DEF ClaimOf, Claims, SelfContained, RegisteredFirst, NeedsScan

\* A check that nothing is missing for has a complete entry, and a scan where it needs one.
LEMMA ReadyMeans ==
    ASSUME NEW code \in DOMAIN ClaimOf, NEW typed, NEW delivered, IsReady(code, typed, delivered)
    PROVE  /\ UsableClaim(typed, ClaimOf[code]) # <<>>
           /\ code \in NeedsScan => Scans(code, delivered) # {}
BY ClaimOfCode DEF IsReady

\* The record of a claim is sound and can be checked.
LEMMA RecordIsCheckable ==
    ASSUME ClaimTypeOK, NEW typed \in Details, NEW delivered, NEW code \in RegisteredFirst,
           IsReady(code, typed, delivered)
    PROVE  RecordFor(code, typed, delivered) \in Record /\ Checkable(RecordFor(code, typed, delivered))
<1> DEFINE claim == ClaimOf[code]
           entry == Head(UsableClaim(typed, claim))
           fields == Collect(entry)
           malformed == "checked" \in fields /\ entry.as.checked = "malformed"
           scans == Scans(code, delivered)
           r == [claim |-> claim, by |-> entry.by, fields |-> fields,
                 malformed |-> malformed, scans |-> scans]
<1>1. code \in DOMAIN ClaimOf /\ claim \in Claims
      /\ (claim \in {"education", "employment"} => code \in NeedsScan)
  BY ClaimOfCode
<1>2. entry \in Entry /\ IsComplete(claim, entry)
  BY <1>1, ReadyMeans, UsableEntry
<1>3. code \in NeedsScan => scans # {}
  BY <1>1, ReadyMeans
<1>4. scans \subseteq 1..MaxFiles
  BY ScansAreFiles
<1>5. RecordFor(code, typed, delivered) = r
  BY DEF RecordFor
<1> HIDE DEF claim, scans, entry
<1>6. fields \subseteq {"text", "checked"} /\ Mandatory(claim) \subseteq fields
      /\ entry.by \in Portals \union {HR}
  BY <1>2 DEF Collect, IsComplete, Entry
<1>7. malformed = FALSE
  BY DEF Collect
<1> HIDE DEF fields, malformed
<1>8. \A b \in BOOLEAN :
        [claim |-> claim, by |-> entry.by, fields |-> fields, malformed |-> b, scans |-> scans] \in Record
  BY <1>1, <1>4, <1>6 DEF Record
<1>9. malformed \in BOOLEAN
  BY <1>7
<1>10. r \in Record
  BY <1>8, <1>9, Zenon
<1>11. r.claim = claim /\ r.fields = fields /\ r.malformed = malformed /\ r.scans = scans
  OBVIOUS
<1> HIDE DEF r
<1>12. Checkable(r)
  BY <1>1, <1>3, <1>6, <1>7, <1>11 DEF Checkable
<1> QED
  BY <1>5, <1>10, <1>12

\* What the checks of a send leave at OnGrid, whether or not the row is written after them.
LEMMA ChecksStarted ==
    ASSUME ClaimTypeOK, RecordsCanBeChecked, NEW services, NEW typed \in Details, NEW delivered,
           NEW reach, StartChecks(reach, Ready(services, typed, delivered), typed, delivered)
    PROVE  /\ registered' \subseteq Record
           /\ running'.file \in 0..MaxFiles
           /\ \A c \in Claims : running'.claims[c] \in {<<>>} \union {<<e>> : e \in Entry}
           /\ \A r \in registered' : Checkable(r)
           /\ \A c \in Claims : running'.claims[c] # <<>> => IsComplete(c, Head(running'.claims[c]))
           /\ RegisteredDocument(reach, Ready(services, typed, delivered), delivered) \in 0..MaxFiles
<1> DEFINE ready == Ready(services, typed, delivered)
           started == {c \in ready : reach[c] = "started"}
           now == {RecordFor(c, typed, delivered) :
                     c \in {d \in ready \intersect RegisteredFirst : reach[d] # "refused"}}
<1>1. \A c \in ready : IsReady(c, typed, delivered)
  BY DEF Ready
<1>2. \A r \in now : r \in Record /\ Checkable(r)
  BY <1>1, RecordIsCheckable
<1>3. registered' = registered \union now
  BY DEF StartChecks
<1>4. \A r \in registered' : r \in Record /\ Checkable(r)
  <2> HIDE DEF now
  <2> QED
    BY <1>2, <1>3 DEF ClaimTypeOK, RecordsCanBeChecked
<1>5. RegisteredDocument(reach, ready, delivered) \in 0..MaxFiles
  BY DeliveredFile DEF RegisteredDocument, ClaimTypeOK
<1> HIDE DEF ready
<1>6. running' =
        [file |-> IF "PANV" \in started
                  THEN RegisteredDocument(reach, ready, delivered) ELSE running.file,
         claims |-> [claim \in Claims |->
           IF \E c \in started \intersect DOMAIN ClaimOf : ClaimOf[c] = claim
           THEN <<Head(UsableClaim(typed, claim))>> ELSE running.claims[claim]]]
  BY DEF StartChecks, ready
<1>7. running'.file \in 0..MaxFiles
  BY <1>5, <1>6 DEF ClaimTypeOK
<1>8. ASSUME NEW claim \in Claims
      PROVE  /\ running'.claims[claim] \in {<<>>} \union {<<e>> : e \in Entry}
             /\ running'.claims[claim] # <<>> => IsComplete(claim, Head(running'.claims[claim]))
  <2>1. CASE \E c \in started \intersect DOMAIN ClaimOf : ClaimOf[c] = claim
    <3>1. PICK c \in started \intersect DOMAIN ClaimOf : ClaimOf[c] = claim
      BY <2>1
    <3>2. UsableClaim(typed, claim) # <<>>
      BY <1>1, <3>1, ReadyMeans
    <3> DEFINE e == Head(UsableClaim(typed, claim))
    <3>3. e \in Entry /\ IsComplete(claim, e)
      BY <3>2, UsableEntry
    <3>4. running'.claims[claim] = <<e>>
      BY <1>6, <2>1
    <3> HIDE DEF e
    <3> QED
      BY <3>3, <3>4
  <2>2. CASE ~\E c \in started \intersect DOMAIN ClaimOf : ClaimOf[c] = claim
    <3>1. running'.claims[claim] = running.claims[claim]
      BY <1>6, <2>2
    <3> QED
      BY <3>1 DEF ClaimTypeOK, RecordsCanBeChecked
  <2> QED
    BY <2>1, <2>2
<1> QED
  BY <1>4, <1>5, <1>7, <1>8 DEF ready

(***************************************************************************)
(* The steps.                                                              *)
(***************************************************************************)

\* The inductive invariant: what is at OnGrid can be checked.
ClaimIInv == ClaimTypeOK /\ RecordsCanBeChecked

\* At the start no claim is filled in and no check is started.
LEMMA ClaimStarts == ClaimInit => ClaimIInv
<1> SUFFICES ASSUME ClaimInit PROVE ClaimIInv
  OBVIOUS
<1> USE DEF ClaimInit
<1>1. MaxFiles \in Nat /\ MaxSends \in Nat /\ NoScan \in 0..MaxFiles
  BY ClaimConstants DEF NoScan
<1>2. \A l \in Portals, c \in Claims : filled[l][c] = <<>>
  OBVIOUS
<1>3. \A S : <<>> \in Seq(S) /\ Len(<<>>) = 0
  OBVIOUS
<1>4. filled \in [Portals -> [Claims -> Seq(Entry)]]
  BY <1>3
<1>5. DOMAIN claimRow.details = {} /\ claimRow.document = NoScan
  OBVIOUS
<1>6. running.file = NoScan /\ \A c \in Claims : running.claims[c] = <<>>
  OBVIOUS
<1>7. files \in [Portals -> [Types -> Document \union {NoDocument}]]
  OBVIOUS
<1>8. answer \in [Offerings -> {"none", "missing", "refused", "started"}]
  OBVIOUS
<1>9. ClaimTypeOK
  BY <1>1, <1>2, <1>3, <1>4, <1>5, <1>6, <1>7, <1>8 DEF ClaimTypeOK
<1>10. RecordsCanBeChecked
  BY <1>6 DEF RecordsCanBeChecked
<1> QED
  BY <1>9, <1>10 DEF ClaimIInv

\* The portal's own requests leave what is at OnGrid.
LEMMA SaveClaimKeeps ==
    ASSUME ClaimIInv, NEW l \in Portals, NEW claim \in Claims, NEW entries \in Seq(By(l)),
           SaveClaim(l, claim, entries)
    PROVE  ClaimIInv'
<1> USE DEF ClaimIInv, SaveClaim
<1>1. Seq(By(l)) \subseteq Seq(Entry)
  <2>1. By(l) \subseteq Entry
    BY DEF By, Entry
  <2> QED
    BY <2>1
<1>2. filled \in [Portals -> [Claims -> Seq(Entry)]]
  BY DEF ClaimTypeOK
<1> DEFINE All == Seq(Entry)
<1>3. entries \in All
  BY <1>1
<1>4. filled' = [filled EXCEPT ![l][claim] = entries]
  OBVIOUS
<1>5. filled' \in [Portals -> [Claims -> Seq(Entry)]]
  <2> HIDE DEF All
  <2>1. filled' \in [Portals -> [Claims -> All]]
    BY <1>2, <1>3, <1>4 DEF All
  <2> QED
    BY <2>1 DEF All
<1>6. \A m \in Portals, c \in Claims :
        filled'[m][c] = IF m = l /\ c = claim THEN entries ELSE filled[m][c]
  BY <1>2, <1>4
<1>7. \A m \in Portals, c \in Claims :
        /\ filled'[m][c] \in Seq(By(m))
        /\ c # "references" => Len(filled'[m][c]) <= 1
  BY <1>6 DEF ClaimTypeOK
<1>8. ClaimTypeOK'
  BY <1>5, <1>7 DEF ClaimTypeOK
<1> QED
  BY <1>8 DEF RecordsCanBeChecked

\* A new scan disturbs no record: what was sent was sent.
LEMMA UploadScanKeeps ==
    ASSUME ClaimIInv, NEW l \in Portals, NEW type \in Types, UploadScan(l, type)
    PROVE  ClaimIInv'
<1> USE DEF ClaimIInv, UploadScan
<1>1. uploads' \in 1..MaxFiles /\ uploads' \in 0..MaxFiles
  BY ClaimConstants DEF ClaimTypeOK
<1>2. [file |-> uploads', status |-> "Submitted"] \in Document
  BY <1>1 DEF Document
<1>3. files' \in [Portals -> [Types -> Document \union {NoDocument}]]
  BY <1>2 DEF ClaimTypeOK
<1>4. ClaimTypeOK'
  BY <1>1, <1>3 DEF ClaimTypeOK
<1> QED
  BY <1>4 DEF RecordsCanBeChecked

\* A verdict changes the status of a scan and no record.
LEMMA ReviewScanKeeps ==
    ASSUME ClaimIInv, NEW l \in Portals, NEW type \in Types, NEW v \in {"Verified", "Rejected"},
           ReviewScan(l, type, v)
    PROVE  ClaimIInv'
<1> USE DEF ClaimIInv, ReviewScan
<1>1. files[l][type] \in Document
  BY DEF ClaimTypeOK
<1>2. [files[l][type] EXCEPT !.status = v] \in Document
  BY <1>1 DEF Document
<1>3. files' = [files EXCEPT ![l][type] = [files[l][type] EXCEPT !.status = v]]
  BY DEF ClaimTypeOK
<1>4. files' \in [Portals -> [Types -> Document \union {NoDocument}]]
  BY <1>2, <1>3 DEF ClaimTypeOK
<1>5. ClaimTypeOK'
  BY <1>4 DEF ClaimTypeOK
<1> QED
  BY <1>5 DEF RecordsCanBeChecked

\* A send, to its end or not.
LEMMA VerifyKeeps ==
    ASSUME ClaimIInv, NEW services, NEW dialog \in BOOLEAN, NEW typed \in Details, NEW delivered,
           OngridVerify(services, dialog, typed, delivered)
    PROVE  ClaimIInv'
<1> DEFINE ready == Ready(services, typed, delivered)
<1>1. PICK reach \in [ready -> Reach] :
        /\ StartChecks(reach, ready, typed, delivered)
        /\ claimRow' = [document |-> RegisteredDocument(reach, ready, delivered),
                        details |-> IF dialog THEN typed ELSE claimRow.details]
        /\ answer' = [c \in Offerings |->
                        CASE c \notin services -> "none"
                          [] c \in services \ ready -> "missing"
                          [] c \in ready /\ reach[c] = "started" -> "started"
                          [] OTHER -> "refused"]
  BY DEF OngridVerify
<1> HIDE DEF ready
<1>2. /\ registered' \subseteq Record
      /\ running'.file \in 0..MaxFiles
      /\ \A c \in Claims : running'.claims[c] \in {<<>>} \union {<<e>> : e \in Entry}
      /\ \A r \in registered' : Checkable(r)
      /\ \A c \in Claims : running'.claims[c] # <<>> => IsComplete(c, Head(running'.claims[c]))
      /\ RegisteredDocument(reach, ready, delivered) \in 0..MaxFiles
  BY <1>1, ChecksStarted DEF ClaimIInv, ready
<1>3. claimRow'.document \in 0..MaxFiles
      /\ DOMAIN claimRow'.details \subseteq HRClaims
      /\ \A c \in DOMAIN claimRow'.details : claimRow'.details[c] \in By(HR)
  BY <1>1, <1>2, TypedClaims DEF ClaimIInv, ClaimTypeOK
<1>4. answer' \in [Offerings -> {"none", "missing", "refused", "started"}]
  BY <1>1
<1>5. sends' \in 0..MaxSends /\ filled' = filled /\ files' = files /\ uploads' = uploads
  BY ClaimConstants DEF OngridVerify, ClaimIInv, ClaimTypeOK
<1>6. ClaimTypeOK'
  BY <1>2, <1>3, <1>4, <1>5 DEF ClaimIInv, ClaimTypeOK
<1>7. RecordsCanBeChecked'
  BY <1>2 DEF RecordsCanBeChecked
<1> QED
  BY <1>6, <1>7 DEF ClaimIInv

\* A send whose thread dies has started checks on usable claims, and kept no result.
LEMMA VerifyDiesKeeps ==
    ASSUME ClaimIInv, NEW services, NEW typed \in Details, NEW delivered,
           VerifyDies(services, typed, delivered)
    PROVE  ClaimIInv'
<1> DEFINE ready == Ready(services, typed, delivered)
<1>1. PICK reach \in [ready -> Reach] : StartChecks(reach, ready, typed, delivered)
  BY DEF VerifyDies
<1>2. /\ registered' \subseteq Record
      /\ running'.file \in 0..MaxFiles
      /\ \A c \in Claims : running'.claims[c] \in {<<>>} \union {<<e>> : e \in Entry}
      /\ \A r \in registered' : Checkable(r)
      /\ \A c \in Claims : running'.claims[c] # <<>> => IsComplete(c, Head(running'.claims[c]))
  BY <1>1, ChecksStarted DEF ClaimIInv
<1>3. answer' \in [Offerings -> {"none", "missing", "refused", "started"}]
  BY DEF VerifyDies
<1>4. sends' \in 0..MaxSends /\ filled' = filled /\ files' = files /\ uploads' = uploads
      /\ claimRow' = claimRow
  BY ClaimConstants DEF VerifyDies, ClaimIInv, ClaimTypeOK
<1>5. ClaimTypeOK'
  BY <1>2, <1>3, <1>4 DEF ClaimIInv, ClaimTypeOK
<1>6. RecordsCanBeChecked'
  BY <1>2 DEF RecordsCanBeChecked
<1> QED
  BY <1>5, <1>6 DEF ClaimIInv

\* Every step keeps ClaimIInv, the ones of candidates, HR and the sends.
LEMMA ClaimSteps == ClaimIInv /\ [ClaimNext]_claimVars => ClaimIInv'
<1> SUFFICES ASSUME ClaimIInv, [ClaimNext]_claimVars PROVE ClaimIInv'
  OBVIOUS
<1>1. ASSUME NEW l \in Portals, NEW claim \in Asked, NEW n \in 0..2,
             NEW entries \in [1..n -> By(l)], SaveClaim(l, claim, entries)
      PROVE  ClaimIInv'
  <2>1. claim \in Claims
    BY ClaimOfCode DEF Asked
  <2>2. entries \in Seq(By(l))
    OBVIOUS
  <2> QED
    BY <1>1, <2>1, <2>2, SaveClaimKeeps
<1>2. ASSUME NEW l \in Portals, NEW type \in Types, UploadScan(l, type) PROVE ClaimIInv'
  BY <1>2, UploadScanKeeps
<1>3. ASSUME NEW l \in Portals, NEW type \in Types, NEW v \in {"Verified", "Rejected"},
             ReviewScan(l, type, v)
      PROVE  ClaimIInv'
  BY <1>3, ReviewScanKeeps
<1>4. ASSUME NEW services \in SUBSET Offerings, NEW delivered \in SUBSET Types,
             NEW typed \in Details, NEW dialog \in BOOLEAN,
             OngridVerify(services, dialog, typed, delivered)
      PROVE  ClaimIInv'
  BY <1>4, VerifyKeeps
<1>5. ASSUME NEW services \in SUBSET Offerings, NEW delivered \in SUBSET Types,
             NEW typed \in Details, VerifyDies(services, typed, delivered)
      PROVE  ClaimIInv'
  BY <1>5, VerifyDiesKeeps
<1>6. CASE UNCHANGED claimVars
  BY <1>6 DEF claimVars, ClaimIInv, ClaimTypeOK, RecordsCanBeChecked
<1> QED
  BY <1>1, <1>2, <1>3, <1>4, <1>5, <1>6 DEF ClaimNext

\* The claims, the scans and the records keep their types, and the records can be checked.
THEOREM ClaimsInvariance == ClaimSpec => []ClaimIInv
BY ClaimStarts, ClaimSteps, PTL DEF ClaimSpec

\* No record at OnGrid is one its check would refuse (bgv_checks.py:335).
THEOREM RecordsStayCheckable == ClaimSpec => []RecordsCanBeChecked
<1>1. ClaimIInv => RecordsCanBeChecked
  BY DEF ClaimIInv
<1> QED
  BY <1>1, ClaimsInvariance, PTL

(*************************************************************************)
(* All five together, as MCPapers composes them.                         *)
(*************************************************************************)

\* Each component's part of a behaviour of MCPapers is a behaviour of the component.
LEMMA PapersBehave ==
    PapersSpec => Spec /\ OngridSpec /\ SharedSpec /\ ReadingSpec /\ ClaimSpec
<1>1. PapersInit => Init /\ OngridInit /\ SharedInit /\ ReadingInit /\ ClaimInit
  BY DEF PapersInit
<1>2. [PapersNext]_papersVars =>
        /\ [Next]_vars /\ [OngridNext]_ongridVars /\ [SharedNext]_sharedVars
        /\ [ReadingNext]_readingVars /\ [ClaimNext]_claimVars
  BY DEF PapersNext, papersVars
<1> QED
  BY <1>1, <1>2, PTL
     DEF PapersSpec, Spec, OngridSpec, SharedSpec, ReadingSpec, ClaimSpec

\* PapersTypeOK: every variable of the five components has its type.
THEOREM PapersTypesCorrect == PapersSpec => []PapersTypeOK
<1>1. /\ IInv => TypeOK
      /\ OngridIInv => OngridTypeOK
      /\ SharedIInv => SharedTypeOK
      /\ ReadingIInv => ReadingTypeOK
      /\ ClaimIInv => ClaimTypeOK
  BY DEF IInv, OngridIInv, RowsAreSound, SharedIInv, ReadingIInv, ClaimIInv
<1>2. TypeOK /\ OngridTypeOK /\ SharedTypeOK /\ ReadingTypeOK /\ ClaimTypeOK => PapersTypeOK
  BY DEF PapersTypeOK
<1> QED
  BY <1>1, <1>2, PapersBehave, CopiesAreSound, RecordInvariance, SharedInvariance,
     ReadingInvariance, ClaimsInvariance, PTL
=============================================================================
