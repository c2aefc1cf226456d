----------------------------- MODULE JoiningLink -----------------------------
(***************************************************************************)
(* The welcome form of one hire (app/api/routes/joining_confirmations.py): *)
(* HR sends a link, its holder answers and uploads a photo, HR changes the *)
(* terms (date, expiry) or deletes the link.  Every request reads the row, *)
(* works on its copy and upserts it whole; a photo awaits its file in      *)
(* between.  Contents are left out: what a request brings is a number.     *)
(* The mail to HR shows the copy a request wrote; it changes no state.     *)
(***************************************************************************)
EXTENDS Integers

CONSTANTS Visits,      \* threads and event loops serving requests
          MaxBrought   \* bound: terms, answers and photos brought in a behaviour

ASSUME JoiningBounds == MaxBrought \in Nat

VARIABLES record,    \* the row of joining_confirmations
          lapsed,    \* terms whose expiresAt has passed
          photos,    \* photos recorded in documents
          visit,     \* what each request is doing
          offered,   \* items brought so far
          latest,    \* history: what was last answered 200 or 201 for each field
          lost       \* history: items a stale copy wiped out or brought back

joiningVars == <<record, lapsed, photos, visit, offered, latest, lost>>

-----------------------------------------------------------------------------

\* Two of the candidate's answers, the photo's id, and all that is HR's.
Fields == {"meal", "plant", "photo", "terms"}
_CANDIDATE_WRITABLE == {"meal", "plant"}

Brought == 1..MaxBrought
Record == [Fields -> Brought \union {0}]
NoRecord == [f \in Fields |-> 0]
NoVisit == [op |-> "none"]

JoiningTypeOK ==
    /\ record \in Record /\ latest \in Record
    /\ lapsed \subseteq Brought /\ photos \subseteq Brought /\ lost \subseteq Brought
    /\ visit \in [Visits -> {NoVisit} \union
         [op : {"answer", "photo", "stored", "edit"}, sets : SUBSET Fields, item : Brought,
          copy : Record]]
    /\ offered \in 0..MaxBrought

\* Whose each field is to write.
OfOp == [answer |-> _CANDIDATE_WRITABLE, stored |-> {"photo"}, edit |-> {"terms"}]

Exists == record.terms # 0

\* Mutant: every field of the body is written.
AllowAny(fields) == fields

\* The allowlist of the public PATCH.
Allowed(fields) == fields \intersect _CANDIDATE_WRITABLE

\* HR's POST: a row with its terms, and nothing answered.
SendForm ==
    /\ ~Exists
    /\ offered < MaxBrought
    /\ offered' = offered + 1
    /\ record' = [NoRecord EXCEPT !.terms = offered']
    /\ latest' = record'
    /\ UNCHANGED <<lapsed, photos, visit, lost>>

ReadForm(r, op, sets) ==
    /\ visit[r] = NoVisit
    /\ Exists
    /\ op # "edit" => record.terms \notin lapsed
    /\ sets # {}
    /\ offered < MaxBrought
    /\ offered' = offered + 1
    /\ visit' = [visit EXCEPT ![r] = [op |-> op, sets |-> sets, item |-> offered',
                                          copy |-> record]]
    /\ UNCHANGED <<record, lapsed, photos, latest, lost>>

\* After the body has arrived and was found to be an image: the blob and its documents row.
StorePhoto(r) ==
    /\ visit[r].op = "photo"
    /\ photos' = photos \union {visit[r].item}
    /\ visit' = [visit EXCEPT ![r].op = "stored"]
    /\ UNCHANGED <<record, lapsed, offered, latest, lost>>

\* The copy with its changes replaces the row, or puts one back that was deleted.
\* HR's edit is a PUT of the row HR's page had read.
Write(r) ==
    /\ visit[r].op \in {"answer", "stored", "edit"}
    /\ LET q == visit[r]
           Put(row) == [f \in Fields |-> IF f \in q.sets THEN q.item ELSE row[f]]
           stale == {f \in Fields : record[f] # q.copy[f]} IN
       /\ record' = Put(q.copy)
       /\ latest' = [f \in Fields |-> IF f \in q.sets \intersect OfOp[q.op] THEN q.item
                                  ELSE latest[f]]
       /\ lost' = lost \union (({record[f] : f \in stale} \union {q.copy[f] : f \in stale}) \ {0})
                       \union (IF Exists THEN {} ELSE {q.item})
    /\ visit' = [visit EXCEPT ![r] = NoVisit]
    /\ UNCHANGED <<lapsed, photos, offered>>

Delete ==
    /\ Exists
    /\ record' = NoRecord
    /\ latest' = NoRecord
    /\ UNCHANGED <<lapsed, photos, visit, offered, lost>>

\* A refusal, or a request that fails.
Leave(r) ==
    /\ visit[r] # NoVisit
    /\ visit' = [visit EXCEPT ![r] = NoVisit]
    /\ UNCHANGED <<record, lapsed, photos, offered, latest, lost>>

RunOut ==
    /\ Exists
    /\ lapsed' = lapsed \union {record.terms}
    /\ UNCHANGED <<record, photos, visit, offered, latest, lost>>

JoiningInit ==
    /\ record = NoRecord /\ latest = NoRecord
    /\ lapsed = {} /\ photos = {} /\ lost = {}
    /\ visit = [r \in Visits |-> NoVisit]
    /\ offered = 0

JoiningNext ==
    \/ SendForm \/ Delete \/ RunOut
    \/ \E r \in Visits :
         \/ \E fields \in SUBSET Fields : ReadForm(r, "answer", Allowed(fields))
         \/ ReadForm(r, "photo", {"photo"})
         \/ ReadForm(r, "edit", {"terms"})
         \/ StorePhoto(r) \/ Write(r) \/ Leave(r)

JoiningSpec == JoiningInit /\ [][JoiningNext]_joiningVars

-----------------------------------------------------------------------------
\* Property.

\* "The candidate may only ever write their own response fields" (joining_confirmations.py:9)
\* and what they are answered is saved: in any order of answers, photos, edits and deletions
\* each field holds what its owner wrote last, except for the items a request wiped out or
\* brought back by writing a copy of a row that had changed since (a photo awaits its body
\* in between, line 184); and whatever raced, the photo named is in the documents table.
JoiningStands ==
    /\ \A f \in Fields : record[f] # latest[f] => {record[f], latest[f]} \intersect lost # {}
    /\ record.photo \in photos \union {0}

-----------------------------------------------------------------------------
\* What keeps the property, as one inductive invariant.

\* A field that does not hold what its owner wrote last: both values have gone astray.
OwnersLast == \A f \in Fields : record[f] # latest[f] => {record[f], latest[f]} \subseteq lost \union {0}

\* Nobody writes a field of somebody else, and the photos of rows and copies are stored.
OwnFields ==
    /\ record.photo \in photos \union {0}
    /\ \A r \in Visits : visit[r] # NoVisit =>
         /\ visit[r].op = "photo" => visit[r].sets = {"photo"}
         /\ visit[r].op # "photo" => visit[r].sets \subseteq OfOp[visit[r].op]
         /\ visit[r].op = "stored" => visit[r].item \in photos
         /\ visit[r].copy.photo \in photos \union {0}

JoiningIInv == JoiningTypeOK /\ OwnersLast /\ OwnFields
=============================================================================
