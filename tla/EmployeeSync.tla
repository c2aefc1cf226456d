---------------------------- MODULE EmployeeSync ----------------------------
(***************************************************************************)
(* Employee writes on the generic router (app/api/routes/resources.py)     *)
(* composed with the outbox they feed.  A request commits its write to the *)
(* employees table, then stamps and enqueues the document it wrote; sync   *)
(* endpoints run in a thread pool, so other requests and the delivery      *)
(* loops run between any two of these statements.                          *)
(***************************************************************************)
EXTENDS IdentityOutbox

CONSTANTS Requests,   \* threads that serve employee writes, one request at a time
          Profiles,   \* documents: the directory-safe fields to_directory_entry keeps
          Absent      \* no document

VARIABLES employees,  \* the employees table: a document, or Absent
          request,    \* what each thread is doing
          content,    \* content[m]: what the change stamped m says of its employee
          clock,      \* the last changed_at given out
          raced,      \* history: two writes of e overlapped, none clean since
          dropped     \* history: a write of e was never enqueued, none clean since

syncVars == <<employees, request, content, clock, raced, dropped>>

ASSUME AbsentAssumption == Absent \notin Profiles

Idle == [stage |-> "idle"]

\* A request on emp.  clean: no other write of emp has overlapped it.
Arrived == [stage : {"replace", "patch", "remove", "patching", "removing"},
            emp : Employees, clean : BOOLEAN]
\* says: what the message will tell id-sync, Absent when it marks a removal.
Written == [stage : {"written"}, emp : Employees, clean : BOOLEAN,
            says : Profiles \union {Absent}]
Stamped == [stage : {"stamped"}, emp : Employees, clean : BOOLEAN, stamp : Stamps]

SyncTypeOK ==
    /\ TypeOK
    /\ employees \in [Employees -> Profiles \union {Absent}]
    /\ request \in [Requests -> {Idle} \union Arrived \union Written \union Stamped]
    /\ content \in [Stamps \union {0} -> Profiles \union {Absent}]
    /\ clock \in Stamps \union {0}
    /\ raced \subseteq Employees
    /\ dropped \subseteq Employees

Writing(e) == {r \in Requests : request[r] # Idle /\ request[r].emp = e}
Goto(r, stage) == request' = [request EXCEPT ![r].stage = stage]
GoIdle(r) == request' = [request EXCEPT ![r] = Idle]

\* The write of the employees table, and what is left to tell id-sync.
Write(r, says) ==
    /\ employees' = [employees EXCEPT ![request[r].emp] = says]
    /\ request' = [request EXCEPT ![r] = [stage |-> "written", emp |-> @.emp,
                                         clean |-> @.clean, says |-> says]]
    /\ UNCHANGED <<content, clock, raced, dropped>>

-----------------------------------------------------------------------------

\* A request arrives.  Whatever it overlaps on the same employee is not clean.
Arrive(r, e, kind) ==
    /\ request[r] = Idle
    /\ request' = [s \in Requests |->
         IF s = r THEN [stage |-> kind, emp |-> e, clean |-> Writing(e) = {}]
         ELSE IF s \in Writing(e) THEN [request[s] EXCEPT !.clean = FALSE]
         ELSE request[s]]
    /\ raced' = IF Writing(e) = {} THEN raced ELSE raced \union {e}
    /\ UNCHANGED <<employees, content, clock, dropped>>

\* service.get of PATCH and DELETE; 404 ends the request.
Read(r) ==
    /\ request[r].stage \in {"patch", "remove"}
    /\ IF employees[request[r].emp] = Absent
       THEN GoIdle(r)
       ELSE Goto(r, IF request[r].stage = "patch" THEN "patching" ELSE "removing")
    /\ UNCHANGED <<employees, content, clock, raced, dropped>>

\* repo.upsert of POST and PUT: the document is the body of the request.
Replace(r, doc) == request[r].stage = "replace" /\ Write(r, doc)

\* repo.upsert of PATCH: the document read before, with the fields of the body,
\* which may be all of them.  The whole document is written, and inserted again
\* if it was deleted meanwhile.
Patch(r, doc) == request[r].stage = "patching" /\ Write(r, doc)

\* repo.delete; NotFoundError when a concurrent request deleted it first.
Remove(r) ==
    /\ request[r].stage = "removing"
    /\ IF employees[request[r].emp] = Absent
       THEN GoIdle(r) /\ UNCHANGED <<employees, content, clock, raced, dropped>>
       ELSE Write(r, Absent)

\* to_push_message: changed_at is read from the clock after the write, not by it.
Stamp(r) ==
    /\ request[r].stage = "written"
    /\ clock + 1 \in Stamps
    /\ clock' = clock + 1
    /\ content' = [content EXCEPT ![clock + 1] = request[r].says]
    /\ request' = [request EXCEPT ![r] = [stage |-> "stamped", emp |-> @.emp,
                                         clean |-> @.clean, stamp |-> clock + 1]]
    /\ UNCHANGED <<employees, raced, dropped>>

\* to_push_message returns None (no email to match on), the enqueue raises and is swallowed, or the
\* process dies between the write and the enqueue.
NeverEnqueued(r) ==
    /\ request[r].stage \in {"written", "stamped"}
    /\ GoIdle(r)
    /\ dropped' = dropped \union {request[r].emp}
    /\ UNCHANGED <<employees, content, clock, raced>>

\* Mutant: an enqueue that keeps a change already waiting in the table.
EnqueueUnlessWaiting(r) ==
    /\ request[r].stage = "stamped"
    /\ LET e == request[r].emp IN
       /\ IF row[e] = NoRow THEN Enqueue(e, request[r].stamp) ELSE UNCHANGED vars
       /\ raced' = IF request[r].clean THEN raced \ {e} ELSE raced
       /\ dropped' = IF request[r].clean THEN dropped \ {e} ELSE dropped
    /\ GoIdle(r)
    /\ UNCHANGED <<employees, content, clock>>

\* outbox.enqueue.
EnqueueEmployee(r) ==
    /\ request[r].stage = "stamped"
    /\ LET e == request[r].emp IN
       /\ Enqueue(e, request[r].stamp)
       /\ raced' = IF request[r].clean THEN raced \ {e} ELSE raced
       /\ dropped' = IF request[r].clean THEN dropped \ {e} ELSE dropped
    /\ GoIdle(r)
    /\ UNCHANGED <<employees, content, clock>>

-----------------------------------------------------------------------------

SyncInit ==
    /\ Init
    /\ employees = [e \in Employees |-> Absent]
    /\ request = [r \in Requests |-> Idle]
    /\ content = [m \in Stamps \union {0} |-> Absent]
    /\ clock = 0
    /\ raced = {}
    /\ dropped = {}

RequestStep(r) ==
    \/ \E e \in Employees, kind \in {"replace", "patch", "remove"} : Arrive(r, e, kind)
    \/ Read(r)
    \/ \E doc \in Profiles : Replace(r, doc) \/ Patch(r, doc)
    \/ Remove(r)
    \/ Stamp(r)
    \/ NeverEnqueued(r)

SyncNext ==
    \/ \E r \in Requests : RequestStep(r) /\ UNCHANGED vars
    \/ \E r \in Requests : EnqueueEmployee(r)
    \/ DeliveryNext /\ UNCHANGED syncVars

SyncSpec == SyncInit /\ [][SyncNext]_<<vars, syncVars>>

-----------------------------------------------------------------------------
\* Properties.

\* What id-sync will hold of e once the queue has drained.
Pending(e) == IF row[e] # NoRow THEN content[row[e].msg] ELSE content[registry[e]]

\* Between writes, id-sync has or is about to get the document Circle stores,
\* unless the last writes of the employee overlapped or were dropped, or a claim
\* was stolen: one undisturbed write puts right all that went wrong before it.
ConvergesUnlessRaced ==
    \A e \in Employees \ (stolen \union raced \union dropped) :
        Writing(e) = {} => Pending(e) = employees[e]

-----------------------------------------------------------------------------
\* The inductive invariant behind it, beside the outbox's own.

\* A request that overlapped no other is alone on its employee; one that did has left its mark.
OverlapsAreKnown ==
    \A e \in Employees : \A r \in Writing(e) :
        IF request[r].clean THEN Writing(e) = {r} ELSE e \in raced

\* Stamps given out are behind the clock, a clean request's is ahead of all of its
\* employee, and id-sync holds none that was not enqueued.
StampsGrow ==
    /\ \A e \in Employees : registry[e] \in issued[e] \union {0} /\ \A m \in issued[e] : m <= clock
    /\ \A r \in Requests : request[r].stage = "stamped" =>
         /\ request[r].stamp <= clock
         /\ request[r].clean => \A m \in issued[request[r].emp] : m < request[r].stamp

\* Without a race the change enqueued last is the newest.
LastIsNewest == \A e \in Employees \ raced : \A m \in issued[e] : m <= last[e]

\* A clean request is about to tell id-sync what the table holds.
CleanTellsStored ==
    \A r \in Requests :
        /\ request[r].stage = "written" /\ request[r].clean => request[r].says = employees[request[r].emp]
        /\ request[r].stage = "stamped" /\ request[r].clean
             => content[request[r].stamp] = employees[request[r].emp]

\* Convergence holds until a request has written.
ConvergesUntilWritten ==
    \A e \in Employees \ (stolen \union raced \union dropped) :
        (\A r \in Writing(e) : request[r].stage \notin {"written", "stamped"})
            => Pending(e) = employees[e]

SyncIInv ==
    /\ SyncTypeOK
    /\ OverlapsAreKnown
    /\ StampsGrow
    /\ LastIsNewest
    /\ CleanTellsStored
    /\ ConvergesUntilWritten
=============================================================================
