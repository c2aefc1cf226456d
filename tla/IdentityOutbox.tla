--------------------------- MODULE IdentityOutbox ---------------------------
(***************************************************************************)
(* The durable queue of employee changes waiting to be pushed to id-sync   *)
(* (app/repositories/identity_outbox_repository.py) and the loops that     *)
(* drain it (app/services/identity_sync.py, identity_sync_worker.py).      *)
(*                                                                         *)
(* The engine runs in AUTOCOMMIT, so every SQL statement is one action and *)
(* the API processes interleave between any two of them.  A message is     *)
(* represented by its changed_at stamp.  now() is not a counter: a row is  *)
(* due ("now"), hidden by a claim ("lease") or waiting out a retry         *)
(* ("backoff"), and the passing of time is an action.                      *)
(***************************************************************************)
EXTENDS Integers, FiniteSets

CONSTANTS Employees,     \* primary keys of the outbox: employee codes
          Workers,       \* API processes, each running one IdentitySyncWorker
          Stamps,        \* changed_at values; bounds the number of changes
          BatchSize,     \* CLAIM_BATCH_SIZE
          LeaseOverruns  \* may CLAIM_LEASE_SECONDS pass while the claim is worked on?

ASSUME StampsAssumption == Stamps \subseteq Nat \ {0}
ASSUME LeaseAssumption == LeaseOverruns \in BOOLEAN

VARIABLES row,       \* the table: one row, or NoRow, per employee
          claim,     \* claim[w][e]: what worker w's running pass does with e's item
          wire,      \* requests sent to id-sync and not yet processed there
          registry,  \* id-sync: the stamp of the change it last applied, 0 if none
          issued,    \* history: the stamps already given to a change of e
          last,      \* history: the change enqueued last, 0 if none
          stolen     \* history: employees whose claim ended under a live holder

vars == <<row, claim, wire, registry, issued, last, stolen>>

-----------------------------------------------------------------------------

NoRow == [msg |-> 0, version |-> 0, inFlight |-> FALSE, when |-> "never"]
NoClaim == [stage |-> "none", msg |-> 0, version |-> 0]

Row == [msg : Stamps, version : Nat \ {0}, inFlight : BOOLEAN,
        when : {"now", "lease", "backoff"}]

\* Where a worker is with one claimed item.  The stages up to "outdated" are
\* those in which the row is still hidden on this worker's behalf.
HoldingStages == {"claimed", "sending", "delivered", "superseded", "failed", "outdated"}
Claim == [stage : HoldingStages \union {"released"}, msg : Stamps, version : Nat \ {0}]

Request == [by : Workers, emp : Employees, msg : Stamps]

TypeOK ==
    /\ row \in [Employees -> Row \union {NoRow}]
    /\ claim \in [Workers -> [Employees -> Claim \union {NoClaim}]]
    /\ wire \subseteq Request
    /\ registry \in [Employees -> Stamps \union {0}]
    /\ issued \in [Employees -> SUBSET Stamps]
    /\ last \in [Employees -> Stamps \union {0}]
    /\ stolen \subseteq Employees

Holds(w, e) == claim[w][e].stage \in HoldingStages

Larger(a, b) == IF a > b THEN a ELSE b

\* Mutant: the claim also requires in_flight = false.
DueUnlessInFlight == {e \in Employees : row[e].when = "now" /\ ~row[e].inFlight}

\* next_attempt_at <= now(): in_flight is not part of the condition.
Due == {e \in Employees : row[e].when = "now"}

Advance(w, e, stage) == claim' = [claim EXCEPT ![w][e].stage = stage]
Finish(w, e) == claim' = [claim EXCEPT ![w][e] = NoClaim]

\* SET in_flight = false, next_attempt_at = now().  The row is taken from any
\* other worker that still holds it.
ReleaseRow(w, e) ==
    /\ row' = [row EXCEPT ![e].inFlight = FALSE, ![e].when = "now"]
    /\ stolen' = IF \E v \in Workers \ {w} : Holds(v, e)
                 THEN stolen \union {e} ELSE stolen

KeepRow == UNCHANGED <<row, stolen>>

-----------------------------------------------------------------------------
\* The queue's producer side.

\* Mutant: an upsert that makes the row due at once, leased or not.
EnqueueDueAtOnce(e, m) ==
    /\ m \in Stamps \ issued[e]
    /\ row' = [row EXCEPT ![e] = [msg |-> m, version |-> @.version + 1,
                                 inFlight |-> @.inFlight, when |-> "now"]]
    /\ issued' = [issued EXCEPT ![e] = @ \union {m}]
    /\ last' = [last EXCEPT ![e] = m]
    /\ UNCHANGED <<claim, wire, registry, stolen>>

\* Mutant: an upsert that replaces the payload and keeps the version.
EnqueueKeepsVersion(e, m) ==
    /\ m \in Stamps \ issued[e]
    /\ row' = [row EXCEPT ![e] =
                 IF @ = NoRow
                 THEN [msg |-> m, version |-> 1, inFlight |-> FALSE, when |-> "now"]
                 ELSE [@ EXCEPT !.msg = m, !.when = IF row[e].inFlight THEN @ ELSE "now"]]
    /\ issued' = [issued EXCEPT ![e] = @ \union {m}]
    /\ last' = [last EXCEPT ![e] = m]
    /\ UNCHANGED <<claim, wire, registry, stolen>>

\* INSERT ... ON CONFLICT DO UPDATE: a second change replaces the payload; while
\* an older version is being sent its lease is kept.
Enqueue(e, m) ==
    /\ m \in Stamps \ issued[e]
    /\ row' = [row EXCEPT ![e] =
                 IF @ = NoRow
                 THEN [msg |-> m, version |-> 1, inFlight |-> FALSE, when |-> "now"]
                 ELSE [msg |-> m, version |-> @.version + 1, inFlight |-> @.inFlight,
                       when |-> IF @.inFlight THEN @.when ELSE "now"]]
    /\ issued' = [issued EXCEPT ![e] = @ \union {m}]
    /\ last' = [last EXCEPT ![e] = m]
    /\ UNCHANGED <<claim, wire, registry, stolen>>

-----------------------------------------------------------------------------
\* A worker's pass: claim a batch, then send and mark its items one by one.

\* One UPDATE over at most BatchSize due rows.  Rows locked by a concurrent
\* statement are skipped, so the batch may be any part of the due rows.
ClaimDue(w, batch) ==
    /\ claim[w] = [e \in Employees |-> NoClaim]
    /\ batch # {}
    /\ batch \subseteq Due
    /\ Cardinality(batch) <= BatchSize
    /\ row' = [e \in Employees |->
                 IF e \in batch THEN [row[e] EXCEPT !.inFlight = TRUE, !.when = "lease"]
                                ELSE row[e]]
    /\ claim' = [claim EXCEPT ![w] = [e \in Employees |->
                 IF e \in batch
                 THEN [stage |-> "claimed", msg |-> row[e].msg, version |-> row[e].version]
                 ELSE NoClaim]]
    /\ UNCHANGED <<wire, registry, issued, last, stolen>>

\* Items are delivered one after the other, in the order RETURNING gave them.
Send(w, e) ==
    /\ claim[w][e].stage = "claimed"
    /\ \A f \in Employees : claim[w][f].stage \in {"none", "claimed"}
    /\ Advance(w, e, "sending")
    /\ wire' = wire \union {[by |-> w, emp |-> e, msg |-> claim[w][e].msg]}
    /\ UNCHANGED <<row, registry, issued, last, stolen>>

\* Mutant: the request counts as delivered once it is on the wire.
SendSucceedsEarly(w, e) ==
    /\ claim[w][e].stage = "sending"
    /\ Advance(w, e, "delivered")
    /\ UNCHANGED <<row, wire, registry, issued, last, stolen>>

\* A 2xx answer: id-sync has processed the request.
SendSucceeds(w, e) ==
    /\ claim[w][e].stage = "sending"
    /\ [by |-> w, emp |-> e, msg |-> claim[w][e].msg] \notin wire
    /\ Advance(w, e, "delivered")
    /\ UNCHANGED <<row, wire, registry, issued, last, stolen>>

\* IdentitySyncError: an HTTP error, an unreachable server, or a timeout.  The
\* request may be lost, may have been processed, or may still arrive later.
SendFails(w, e) ==
    /\ claim[w][e].stage = "sending"
    /\ wire' \in {wire, wire \ {[by |-> w, emp |-> e, msg |-> claim[w][e].msg]}}
    /\ Advance(w, e, "failed")
    /\ UNCHANGED <<row, registry, issued, last, stolen>>

\* Mutant: DELETE by primary key alone.
MarkDeliveredAnyVersion(w, e) ==
    /\ claim[w][e].stage = "delivered"
    /\ row' = [row EXCEPT ![e] = NoRow]
    /\ Finish(w, e)
    /\ UNCHANGED <<wire, registry, issued, last, stolen>>

\* mark_delivered, first statement: DELETE ... AND version = :version.
MarkDelivered(w, e) ==
    /\ claim[w][e].stage = "delivered"
    /\ \/ /\ row[e].version = claim[w][e].version
          /\ row' = [row EXCEPT ![e] = NoRow]
          /\ Finish(w, e)
       \/ /\ row[e].version # claim[w][e].version
          /\ Advance(w, e, "superseded")
          /\ UNCHANGED row
    /\ UNCHANGED <<wire, registry, issued, last, stolen>>

\* mark_delivered, second statement, reached when no row was deleted: it names
\* the employee only, not the version.
ReleaseSuperseded(w, e) ==
    /\ claim[w][e].stage = "superseded"
    /\ IF row[e] # NoRow THEN ReleaseRow(w, e) ELSE KeepRow
    /\ Finish(w, e)
    /\ UNCHANGED <<wire, registry, issued, last>>

\* mark_failed, first statement: reschedule the version that was sent.
MarkFailed(w, e) ==
    /\ claim[w][e].stage = "failed"
    /\ \/ /\ row[e].version = claim[w][e].version
          /\ row' = [row EXCEPT ![e].inFlight = FALSE, ![e].when = "backoff"]
          /\ Advance(w, e, "released")
       \/ /\ row[e].version # claim[w][e].version
          /\ Advance(w, e, "outdated")
          /\ UNCHANGED row
    /\ UNCHANGED <<wire, registry, issued, last, stolen>>

\* mark_failed, second statement: release a newer version that is in flight,
\* whoever put it in flight.
ReleaseNewer(w, e) ==
    /\ claim[w][e].stage \in {"released", "outdated"}
    /\ IF row[e] # NoRow /\ row[e].version # claim[w][e].version /\ row[e].inFlight
       THEN ReleaseRow(w, e) ELSE KeepRow
    /\ Finish(w, e)
    /\ UNCHANGED <<wire, registry, issued, last>>

\* The process dies, or an exception other than IdentitySyncError (a database
\* error in a mark statement, a malformed answer) ends the pass: what it claimed
\* stays hidden until the lease runs out.
AbandonPass(w) ==
    /\ claim[w] # [e \in Employees |-> NoClaim]
    /\ claim' = [claim EXCEPT ![w] = [e \in Employees |-> NoClaim]]
    /\ UNCHANGED <<row, wire, registry, issued, last, stolen>>

-----------------------------------------------------------------------------
\* Time and the other side.

LeaseExpires(e) ==
    /\ row[e].when = "lease"
    /\ LeaseOverruns \/ ~\E w \in Workers : Holds(w, e)
    /\ row' = [row EXCEPT ![e].when = "now"]
    /\ stolen' = IF \E w \in Workers : Holds(w, e) THEN stolen \union {e} ELSE stolen
    /\ UNCHANGED <<claim, wire, registry, issued, last>>

BackoffEnds(e) ==
    /\ row[e].when = "backoff"
    /\ row' = [row EXCEPT ![e].when = "now"]
    /\ UNCHANGED <<claim, wire, registry, issued, last, stolen>>

\* External: id-sync processes a request and ignores a change older than the
\* one it holds (the reason changed_at is sent).
Receive(r) ==
    /\ wire' = wire \ {r}
    /\ registry' = [registry EXCEPT ![r.emp] = Larger(@, r.msg)]
    /\ UNCHANGED <<row, claim, issued, last, stolen>>

-----------------------------------------------------------------------------

Init ==
    /\ row = [e \in Employees |-> NoRow]
    /\ claim = [w \in Workers |-> [e \in Employees |-> NoClaim]]
    /\ wire = {}
    /\ registry = [e \in Employees |-> 0]
    /\ issued = [e \in Employees |-> {}]
    /\ last = [e \in Employees |-> 0]
    /\ stolen = {}

WorkerStep(w, e) ==
    \/ Send(w, e)
    \/ SendSucceeds(w, e)
    \/ SendFails(w, e)
    \/ MarkDelivered(w, e)
    \/ ReleaseSuperseded(w, e)
    \/ MarkFailed(w, e)
    \/ ReleaseNewer(w, e)

DeliveryNext ==
    \/ \E w \in Workers : \E batch \in SUBSET Due : ClaimDue(w, batch)
    \/ \E w \in Workers, e \in Employees : WorkerStep(w, e)
    \/ \E w \in Workers : AbandonPass(w)
    \/ \E e \in Employees : LeaseExpires(e) \/ BackoffEnds(e)
    \/ \E r \in wire : Receive(r)

Next ==
    \/ \E e \in Employees : \E m \in Stamps : Enqueue(e, m)
    \/ DeliveryNext

Spec == Init /\ [][Next]_vars

-----------------------------------------------------------------------------
\* Fairness.  asyncio keeps each worker loop alive (every exception of a pass is
\* caught), so a step a worker can take is taken; ORDER BY next_attempt_at claims
\* the oldest due row first; id-sync is up again and again and then answers; and
\* processes do not crash forever.
Fairness ==
    /\ \A e \in Employees :
         /\ SF_vars(\E w \in Workers : \E batch \in SUBSET Due :
                       e \in batch /\ ClaimDue(w, batch))
         /\ WF_vars(LeaseExpires(e))
         /\ WF_vars(BackoffEnds(e))
    /\ \A w \in Workers, e \in Employees :
         /\ WF_vars(WorkerStep(w, e))
         /\ SF_vars(SendSucceeds(w, e))
         /\ SF_vars(\E r \in wire : r.by = w /\ r.emp = e /\ Receive(r))
    /\ <>[][\A w \in Workers : ~AbandonPass(w)]_vars

LiveSpec == Spec /\ Fairness

-----------------------------------------------------------------------------
\* Properties.

\* "FOR UPDATE SKIP LOCKED [...] so two API workers never send the same row at
\* once", and a newer change waits while the older one is being delivered: the
\* row of an employee is worked on by one process, unless its claim was ended
\* under a live holder (a lease overrun, or the second statement of mark_failed).
OneWorkerPerRow ==
    \A e \in Employees \ stolen : \A w, v \in Workers :
        Holds(w, e) /\ Holds(v, e) => w = v

\* Whatever crashes, times out, is retried or arrives while an older version is
\* on the wire: the change enqueued last is still in the table or id-sync holds
\* it or a newer one.
LatestNeverLost ==
    \A e \in Employees \ stolen :
        IF row[e] = NoRow THEN registry[e] >= last[e] ELSE row[e].msg = last[e]

\* A worker that holds a row's version holds its payload, and the row it holds
\* stays hidden: a delivery that raced a newer change sees another version.
HeldVersionIsCurrent ==
    \A e \in Employees \ stolen : \A w \in Workers :
        Holds(w, e) =>
            /\ row[e].inFlight /\ row[e].when = "lease"
            /\ claim[w][e].version <= row[e].version
            /\ claim[w][e].version = row[e].version => claim[w][e].msg = row[e].msg
            /\ claim[w][e].stage \in {"superseded", "outdated"} =>
                   claim[w][e].version # row[e].version

\* What a worker is sending is on the wire or processed; what it was told is
\* delivered is processed.
AcknowledgedIsProcessed ==
    \A w \in Workers, e \in Employees :
        LET c == claim[w][e] IN
        /\ c.stage = "sending" =>
              [by |-> w, emp |-> e, msg |-> c.msg] \in wire \/ registry[e] >= c.msg
        /\ c.stage = "delivered" => registry[e] >= c.msg

\* Nothing circulates that was not enqueued.
OnlyIssuedCirculates ==
    /\ \A e \in Employees :
         /\ row[e] # NoRow => row[e].msg \in issued[e]
         /\ last[e] \in issued[e] \union {0}
         /\ \A w \in Workers : claim[w][e] # NoClaim => claim[w][e].msg \in issued[e]
    /\ \A r \in wire : r.msg \in issued[r.emp]

\* The inductive invariant behind the two safety properties and the refinement.
IInv ==
    /\ TypeOK
    /\ OneWorkerPerRow
    /\ HeldVersionIsCurrent
    /\ LatestNeverLost
    /\ AcknowledgedIsProcessed
    /\ OnlyIssuedCirculates

\* The abstract channel: a row is what is owed.
Channel == INSTANCE PushChannel WITH
             latest <- last,
             owed <- {e \in Employees : row[e] # NoRow},
             disturbed <- stolen

\* The outbox and its workers implement the abstract channel.
ImplementsChannel == Channel!Spec

\* Every change gets through in the end: id-sync holds it or a newer one, a later
\* change has replaced it, or a claim on its row was stolen.
LatestReachesIdSync ==
    \A e \in Employees : \A m \in Stamps :
        last[e] = m ~> (registry[e] >= m \/ last[e] # m \/ e \in stolen)

\* "a delivery that raced a newer change never deletes the newer row"
\* (identity_outbox_repository.py:6-7): a row leaves the table only after id-sync
\* has processed the payload it holds.
NeverDeletesNewer ==
    [][\A e \in Employees :
         row[e] # NoRow /\ row'[e] = NoRow => registry[e] >= row[e].msg]_vars
=============================================================================
