---------------------------- MODULE HandoverLink ----------------------------
(***************************************************************************)
(* The exit handover of one employee (app/api/routes/exit_handover.py):    *)
(* HR sends a link, its holder submits work credentials and uploads files, *)
(* HR reveals and purges them.  Every request reads the row, works on its  *)
(* copy and upserts it; an upload awaits the file in between.  What is in  *)
(* a credential or file is left out: each is a number.                     *)
(***************************************************************************)
EXTENDS Integers

CONSTANTS Requests,  \* threads and event loops serving requests
          MaxItems,  \* bound: credentials and files brought in a behaviour
          MaxLinks   \* bound: links HR sends

ASSUME HandoverBounds == MaxItems \in Nat /\ MaxLinks \in Nat

VARIABLES handover,  \* the row of exit_handovers
          open,      \* expiresAt of the row's link has not passed
          library,   \* files recorded in documents
          request,   \* what each request is doing
          brought,   \* items brought so far
          sent,      \* links sent so far
          purged,    \* history: credentials the row held when HR purged it
          accepted,  \* history: files whose upload was answered 201, for the row's link
          undone     \* history: items a stale copy brought back or left out

handoverVars == <<handover, open, library, request, brought, sent, purged, accepted, undone>>

-----------------------------------------------------------------------------

Items == 1..MaxItems
Links == 1..MaxLinks
Handover == [link : Links, creds : Items \union {0}, files : SUBSET Items]
NoHandover == [link |-> 0, creds |-> 0, files |-> {}]
Nothing == [op |-> "none"]

HandoverTypeOK ==
    /\ handover \in Handover \union {NoHandover}
    /\ open \in BOOLEAN
    /\ library \subseteq Items /\ purged \subseteq Items
    /\ accepted \subseteq Items /\ undone \subseteq Items
    /\ request \in [Requests -> {Nothing} \union
         [op : {"submit", "upload", "stored", "purge", "patch"}, item : Items \union {0},
          copy : Handover]]
    /\ brought \in 0..MaxItems /\ sent \in 0..MaxLinks

\* POST on the generic resource, an upsert: a new link, and a row that starts empty.
Send ==
    /\ sent < MaxLinks
    /\ sent' = sent + 1
    /\ handover' = [NoHandover EXCEPT !.link = sent']
    /\ open' = TRUE
    /\ accepted' = {}
    /\ UNCHANGED <<library, request, brought, purged, undone>>

\* _by_token finds the row while it has the link; _is_expired is asked next.
Read(r, op) ==
    /\ request[r] = Nothing
    /\ handover # NoHandover
    /\ IF op \in {"submit", "upload"}
       THEN open /\ brought < MaxItems /\ brought' = brought + 1
       ELSE UNCHANGED brought
    /\ request' = [request EXCEPT ![r] =
         [op |-> op, item |-> IF op \in {"submit", "upload"} THEN brought' ELSE 0,
          copy |-> handover]]
    /\ UNCHANGED <<handover, open, library, sent, purged, accepted, undone>>

\* After the body has arrived: the blob and its documents row.
StoreFile(r) ==
    /\ request[r].op = "upload"
    /\ library' = library \union {request[r].item}
    /\ request' = [request EXCEPT ![r].op = "stored"]
    /\ UNCHANGED <<handover, open, brought, sent, purged, accepted, undone>>

\* The copy with its change replaces the row; the rest of the row is as it was read.
Replace(r, changed) ==
    /\ handover' = changed
    /\ undone' = LET copy == request[r].copy IN
         undone \union (handover.files \ copy.files)
                \union (IF handover.creds = copy.creds THEN {} ELSE {copy.creds} \ {0})
    /\ request' = [request EXCEPT ![r] = Nothing]
    /\ UNCHANGED <<open, library, brought, sent>>

SubmitCredentials(r) ==
    /\ request[r].op = "submit"
    /\ Replace(r, [request[r].copy EXCEPT !.creds = request[r].item])
    /\ UNCHANGED <<purged, accepted>>

RecordUpload(r) ==
    /\ request[r].op = "stored"
    /\ Replace(r, [request[r].copy EXCEPT !.files = @ \union {request[r].item}])
    /\ accepted' = IF handover.link = request[r].copy.link THEN accepted \union {request[r].item}
                   ELSE {request[r].item}
    /\ UNCHANGED purged

\* Mutant: the row is marked Completed and keeps what it held.
PurgeStatus(r) ==
    /\ request[r].op = "purge"
    /\ Replace(r, request[r].copy)
    /\ purged' = purged \union ({request[r].copy.creds} \ {0})
    /\ UNCHANGED accepted

Purge(r) ==
    /\ request[r].op = "purge"
    /\ Replace(r, [request[r].copy EXCEPT !.creds = 0])
    /\ purged' = purged \union ({request[r].copy.creds} \ {0})
    /\ UNCHANGED accepted

\* HR's PATCH on the generic resource: a status, a date, never these fields.
Patch(r) ==
    /\ request[r].op = "patch"
    /\ Replace(r, request[r].copy)
    /\ UNCHANGED <<purged, accepted>>

Abandon(r) ==
    /\ request[r] # Nothing
    /\ request' = [request EXCEPT ![r] = Nothing]
    /\ UNCHANGED <<handover, open, library, brought, sent, purged, accepted, undone>>

Expire ==
    /\ open
    /\ open' = FALSE
    /\ UNCHANGED <<handover, library, request, brought, sent, purged, accepted, undone>>

HandoverInit ==
    /\ handover = NoHandover
    /\ open = FALSE
    /\ library = {} /\ purged = {} /\ accepted = {} /\ undone = {}
    /\ request = [r \in Requests |-> Nothing]
    /\ brought = 0 /\ sent = 0

HandoverNext ==
    \/ Send \/ Expire
    \/ \E r \in Requests :
         \/ \E op \in {"submit", "upload", "purge", "patch"} : Read(r, op)
         \/ StoreFile(r)
         \/ SubmitCredentials(r) \/ RecordUpload(r) \/ Purge(r) \/ Patch(r)
         \/ Abandon(r)

HandoverSpec == HandoverInit /\ [][HandoverNext]_handoverVars

-----------------------------------------------------------------------------
\* Property.

\* What HR purges stays purged ("Auto-delete the stored credentials once the handover is
\* complete", exit_handover.py:240), and a file answered 201 is on the handover and in the
\* documents panel, until HR sends a new link: submissions, uploads and purges in any
\* order keep both, except for the items a request put back or left out by writing a copy
\* of the row that had changed since (the upload awaits the body between, line 164).
HandoverAddsUp ==
    /\ handover.creds \notin purged \ undone
    /\ accepted \ undone \subseteq handover.files \intersect library

-----------------------------------------------------------------------------
\* What keeps the property, as one inductive invariant.

\* What a request has brought and not yet written is its own: no row, copy or purge has it.
OwnItem(r) ==
    LET item == request[r].item IN
    request[r].op = "submit" =>
        /\ item \in 1..brought
        /\ item \notin purged /\ handover.creds # item
        /\ \A q \in Requests : request[q] # Nothing => request[q].copy.creds # item
        /\ \A q \in Requests \ {r} : request[q] # Nothing => request[q].item # item

\* Nothing is anywhere that nobody has brought.
NothingElse ==
    /\ handover.creds <= brought
    /\ \A i \in purged : i <= brought
    /\ \A r \in Requests : request[r] # Nothing =>
         request[r].item <= brought /\ request[r].copy.creds <= brought

\* A file is brought before it is stored, and stored before the row names it.
FileComes(r) ==
    /\ request[r].op = "upload" => request[r].item \in Items
    /\ request[r].op = "stored" => request[r].item \in library

HandoverIInv ==
    /\ HandoverTypeOK /\ NothingElse
    /\ \A r \in Requests : OwnItem(r) /\ FileComes(r)
    /\ HandoverAddsUp
=============================================================================
