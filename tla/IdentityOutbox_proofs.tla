----------------------- MODULE IdentityOutbox_proofs -----------------------
(***************************************************************************)
(* Proofs about IdentityOutbox for any set of employees, API processes and *)
(* stamps, any batch size, and whether or not leases may overrun.          *)
(***************************************************************************)
EXTENDS IdentityOutbox, TLAPS

(***************************************************************************)
(* Type correctness.                                                       *)
(***************************************************************************)

LEMMA InitTypeOK == Init => TypeOK
BY DEF Init, TypeOK, NoRow, NoClaim

LEMMA AdvanceType ==
    ASSUME TypeOK, NEW w \in Workers, NEW e \in Employees,
           NEW stage \in HoldingStages \union {"released"},
           claim[w][e].stage # "none", Advance(w, e, stage)
    PROVE  claim' \in [Workers -> [Employees -> Claim \union {NoClaim}]]
<1>1. claim[w][e] \in Claim
  BY DEF TypeOK, NoClaim
<1>2. [claim[w][e] EXCEPT !.stage = stage] \in Claim
  BY <1>1 DEF Claim
<1> QED
  BY <1>2 DEF TypeOK, Advance

LEMMA FinishType ==
    ASSUME TypeOK, NEW w \in Workers, NEW e \in Employees, Finish(w, e)
    PROVE  claim' \in [Workers -> [Employees -> Claim \union {NoClaim}]]
BY DEF TypeOK, Finish

\* A row that is there keeps its type when only in_flight and next_attempt_at change.
LEMMA RescheduleType ==
    ASSUME TypeOK, NEW e \in Employees, row[e] # NoRow,
           NEW b \in BOOLEAN, NEW t \in {"now", "lease", "backoff"}
    PROVE  [row[e] EXCEPT !.inFlight = b, !.when = t] \in Row
BY DEF TypeOK, Row

LEMMA ReleaseRowType ==
    ASSUME TypeOK, NEW w \in Workers, NEW e \in Employees, row[e] # NoRow,
           ReleaseRow(w, e)
    PROVE  /\ row' \in [Employees -> Row \union {NoRow}]
           /\ stolen' \subseteq Employees
<1>1. [row[e] EXCEPT !.inFlight = FALSE, !.when = "now"] \in Row
  BY RescheduleType
<1> QED
  BY <1>1 DEF TypeOK, ReleaseRow
LEMMA EnqueueType ==
    ASSUME TypeOK, NEW e \in Employees, NEW m \in Stamps, Enqueue(e, m)
    PROVE  TypeOK'
<1>1. /\ m \in Stamps
      /\ row[e] \in Row \union {NoRow}
  BY DEF TypeOK
<1>2. row'[e] \in Row
  <2>1. CASE row[e] = NoRow
    BY <2>1 DEF Enqueue, TypeOK, Row
  <2>2. CASE row[e] # NoRow
    BY <2>2, <1>1 DEF Enqueue, TypeOK, Row
  <2> QED BY <2>1, <2>2
<1>3. \A f \in Employees : f # e => row'[f] = row[f]
  BY DEF Enqueue, TypeOK
<1>4. row' \in [Employees -> Row \union {NoRow}]
  <2>1. row' = [f \in Employees |-> row'[f]]
    BY DEF Enqueue, TypeOK
  <2> QED BY <2>1, <1>2, <1>3 DEF TypeOK
<1>5. issued' \in [Employees -> SUBSET Stamps] /\ last' \in [Employees -> Stamps \union {0}]
  BY DEF Enqueue, TypeOK
<1> QED
  BY <1>4, <1>5 DEF Enqueue, TypeOK

LEMMA ClaimDueType ==
    ASSUME TypeOK, NEW w \in Workers, NEW batch \in SUBSET Due, ClaimDue(w, batch)
    PROVE  TypeOK'
<1>1. ASSUME NEW e \in batch
      PROVE  /\ row[e] \in Row
             /\ e \in Employees
             /\ [row[e] EXCEPT !.inFlight = TRUE, !.when = "lease"] \in Row
             /\ [stage |-> "claimed", msg |-> row[e].msg, version |-> row[e].version] \in Claim
  <2>1. e \in Employees /\ row[e] # NoRow
    BY DEF Due, NoRow
  <2>2. row[e] \in Row
    BY <2>1 DEF TypeOK
  <2> QED
    BY <2>1, <2>2, RescheduleType DEF Row, Claim, HoldingStages
<1>2. row' \in [Employees -> Row \union {NoRow}]
  BY <1>1 DEF ClaimDue, TypeOK
<1>3. claim' \in [Workers -> [Employees -> Claim \union {NoClaim}]]
  BY <1>1 DEF ClaimDue, TypeOK
<1> QED
  BY <1>2, <1>3 DEF ClaimDue, TypeOK

LEMMA WorkerStepType ==
    ASSUME TypeOK, NEW w \in Workers, NEW e \in Employees, WorkerStep(w, e)
    PROVE  TypeOK'
<1> USE DEF HoldingStages
<1>0. claim[w][e].stage # "none" => claim[w][e] \in Claim
  BY DEF TypeOK, NoClaim
<1>1. CASE Send(w, e)
  <2>1. [by |-> w, emp |-> e, msg |-> claim[w][e].msg] \in Request
    BY <1>0, <1>1 DEF Send, Claim, Request
  <2> QED BY <1>1, <2>1, AdvanceType DEF Send, TypeOK
<1>2. CASE SendSucceeds(w, e)
  BY <1>2, AdvanceType DEF SendSucceeds, TypeOK
<1>3. CASE SendFails(w, e)
  BY <1>3, AdvanceType DEF SendFails, TypeOK
<1>4. CASE MarkDelivered(w, e)
  BY <1>4, AdvanceType, FinishType DEF MarkDelivered, TypeOK
<1>5. CASE ReleaseSuperseded(w, e)
  BY <1>5, FinishType, ReleaseRowType DEF ReleaseSuperseded, KeepRow, TypeOK
<1>6. CASE MarkFailed(w, e)
  <2>1. row' \in [Employees -> Row \union {NoRow}]
    <3>1. CASE UNCHANGED row
      BY <3>1 DEF TypeOK
    <3>2. CASE row[e].version = claim[w][e].version /\
               row' = [row EXCEPT ![e].inFlight = FALSE, ![e].when = "backoff"]
      <4>1. row[e] # NoRow
        BY <3>2, <1>0, <1>6 DEF MarkFailed, Claim, NoRow
      <4>2. [row[e] EXCEPT !.inFlight = FALSE, !.when = "backoff"] \in Row
        BY <4>1, RescheduleType
      <4> QED BY <3>2, <4>2 DEF TypeOK
    <3> QED BY <3>1, <3>2, <1>6 DEF MarkFailed
  <2>2. claim' \in [Workers -> [Employees -> Claim \union {NoClaim}]]
    BY <1>6, AdvanceType DEF MarkFailed
  <2> QED BY <1>6, <2>1, <2>2 DEF MarkFailed, TypeOK
<1>7. CASE ReleaseNewer(w, e)
  BY <1>7, FinishType, ReleaseRowType DEF ReleaseNewer, KeepRow, TypeOK
<1> QED
  BY <1>1, <1>2, <1>3, <1>4, <1>5, <1>6, <1>7 DEF WorkerStep

LEMMA TimeType ==
    ASSUME TypeOK, NEW e \in Employees, LeaseExpires(e) \/ BackoffEnds(e)
    PROVE  TypeOK'
<1>1. row[e] \in Row
  BY DEF LeaseExpires, BackoffEnds, TypeOK, NoRow
<1>2. [row[e] EXCEPT !.when = "now"] \in Row
  BY <1>1 DEF Row
<1>3. row' \in [Employees -> Row \union {NoRow}]
  BY <1>2 DEF LeaseExpires, BackoffEnds, TypeOK
<1> QED
  BY <1>3 DEF LeaseExpires, BackoffEnds, TypeOK

LEMMA NextTypeOK == TypeOK /\ [Next]_vars => TypeOK'
<1> SUFFICES ASSUME TypeOK, [Next]_vars
             PROVE  TypeOK'
  OBVIOUS
<1>1. CASE UNCHANGED vars
  BY <1>1 DEF vars, TypeOK
<1>2. CASE \E e \in Employees : \E m \in Stamps : Enqueue(e, m)
  BY <1>2, EnqueueType
<1>3. CASE \E w \in Workers : \E batch \in SUBSET Due : ClaimDue(w, batch)
  BY <1>3, ClaimDueType
<1>4. CASE \E w \in Workers, e \in Employees : WorkerStep(w, e)
  BY <1>4, WorkerStepType
<1>5. CASE \E w \in Workers : AbandonPass(w)
  BY <1>5 DEF AbandonPass, TypeOK
<1>6. CASE \E e \in Employees : LeaseExpires(e) \/ BackoffEnds(e)
  BY <1>6, TimeType
<1>7. CASE \E r \in wire : Receive(r)
  BY <1>7 DEF Receive, Larger, Request, TypeOK
<1> QED
  BY <1>1, <1>2, <1>3, <1>4, <1>5, <1>6, <1>7 DEF Next, DeliveryNext

\* Every reachable state has the types TypeOK states.
THEOREM TypeCorrect == Spec => []TypeOK
BY InitTypeOK, NextTypeOK, PTL DEF Spec
(***************************************************************************)
(* The inductive invariant.  One lemma per action; the facts of IInv are   *)
(* stated per employee, so the employees an action leaves alone keep them. *)
(***************************************************************************)

Facts == /\ OneWorkerPerRow
         /\ HeldVersionIsCurrent
         /\ LatestNeverLost
         /\ AcknowledgedIsProcessed
         /\ OnlyIssuedCirculates

LEMMA InitFacts == Init => Facts
BY DEF Init, Facts, OneWorkerPerRow, HeldVersionIsCurrent, LatestNeverLost,
       AcknowledgedIsProcessed, OnlyIssuedCirculates, Holds, HoldingStages,
       NoRow, NoClaim

\* A held row of an undisturbed employee is in the table.
LEMMA HeldRowExists ==
    ASSUME Facts, NEW e \in Employees \ stolen, NEW w \in Workers, Holds(w, e)
    PROVE  row[e] # NoRow /\ row[e].when = "lease" /\ row[e].inFlight
BY DEF Facts, HeldVersionIsCurrent, NoRow

LEMMA EnqueueFacts ==
    ASSUME TypeOK, Facts, NEW e \in Employees, NEW m \in Stamps, Enqueue(e, m)
    PROVE  Facts'
<1>1. /\ \A f \in Employees : f # e => row'[f] = row[f] /\ last'[f] = last[f]
                                       /\ issued'[f] = issued[f]
      /\ last'[e] = m /\ row'[e].msg = m /\ issued'[e] = issued[e] \union {m}
      /\ row'[e].version = row[e].version + 1
      /\ row'[e].version # 0
      /\ row[e].inFlight => row'[e].inFlight /\ row'[e].when = row[e].when
  BY DEF Enqueue, TypeOK, Row, NoRow
<1>2. row'[e] # NoRow
  BY <1>1 DEF NoRow
<1>3. UNCHANGED <<claim, wire, registry, stolen>>
  BY DEF Enqueue
<1>4. OneWorkerPerRow'
  BY <1>3 DEF Facts, OneWorkerPerRow, Holds
<1>5. HeldVersionIsCurrent'
  <2> SUFFICES ASSUME NEW f \in Employees \ stolen, NEW w \in Workers, Holds(w, f)
               PROVE  /\ row'[f].inFlight /\ row'[f].when = "lease"
                      /\ claim[w][f].version <= row'[f].version
                      /\ claim[w][f].version = row'[f].version => claim[w][f].msg = row'[f].msg
                      /\ claim[w][f].stage \in {"superseded", "outdated"} =>
                            claim[w][f].version # row'[f].version
    BY <1>3 DEF HeldVersionIsCurrent, Holds
  <2>1. claim[w][f].version \in Nat /\ row[f].version \in Nat
    BY DEF TypeOK, Claim, NoClaim, Row, NoRow
  <2>2. claim[w][f].version <= row[f].version /\ row[f].inFlight /\ row[f].when = "lease"
    BY DEF Facts, HeldVersionIsCurrent
  <2>3. CASE f = e
    BY <2>1, <2>2, <2>3, <1>1
  <2>4. CASE f # e
    BY <2>4, <1>1 DEF Facts, HeldVersionIsCurrent
  <2> QED BY <2>3, <2>4
<1>6. LatestNeverLost'
  BY <1>1, <1>2, <1>3 DEF Facts, LatestNeverLost
<1>7. AcknowledgedIsProcessed'
  BY <1>3 DEF Facts, AcknowledgedIsProcessed
<1>8. OnlyIssuedCirculates'
  <2>1. \A f \in Employees : issued[f] \subseteq issued'[f]
    BY <1>1
  <2>2. \A r \in wire : r.emp \in Employees
    BY DEF TypeOK, Request
  <2> QED
    BY <1>1, <1>3, <2>1, <2>2 DEF Facts, OnlyIssuedCirculates
<1> QED
  BY <1>4, <1>5, <1>6, <1>7, <1>8 DEF Facts

LEMMA ClaimDueFacts ==
    ASSUME TypeOK, Facts, NEW w \in Workers, NEW batch \in SUBSET Due, ClaimDue(w, batch)
    PROVE  Facts'
<1>1. \A e \in Employees :
         IF e \in batch
         THEN /\ row'[e].msg = row[e].msg /\ row'[e].version = row[e].version
              /\ row'[e].inFlight /\ row'[e].when = "lease"
              /\ row[e].when = "now" /\ row[e] # NoRow /\ row'[e] # NoRow
              /\ claim'[w][e].stage = "claimed" /\ claim'[w][e].msg = row[e].msg
              /\ claim'[w][e].version = row[e].version
         ELSE /\ row'[e] = row[e]
              /\ claim'[w][e] = NoClaim /\ claim'[w][e].stage = "none"
  <2>1. \A e \in batch : row[e] # NoRow /\ row[e].when = "now" /\ row[e] \in Row /\ e \in Employees
    BY DEF Due, NoRow, TypeOK
  <2> QED
    BY <2>1 DEF ClaimDue, TypeOK, Row, NoRow, NoClaim
<1>2. /\ UNCHANGED <<wire, registry, issued, last, stolen>> /\ batch \subseteq Employees
      /\ \A v \in Workers, e \in Employees : v # w => claim'[v][e] = claim[v][e]
  BY DEF ClaimDue, Due, TypeOK
<1>3. \A e \in batch \ stolen : \A v \in Workers : ~Holds(v, e)
  <2> SUFFICES ASSUME NEW e \in batch \ stolen, NEW v \in Workers, Holds(v, e)
               PROVE  FALSE
    OBVIOUS
  <2>1. e \in Employees \ stolen /\ row[e].when = "now"
    BY <1>1, <1>2
  <2> QED BY <2>1, HeldRowExists
<1>4. ASSUME NEW e \in Employees \ stolen, NEW v \in Workers, Holds(v, e)'
      PROVE  \/ e \in batch /\ v = w
             \/ e \notin batch /\ v # w /\ Holds(v, e)
  BY <1>1, <1>2, <1>3, <1>4 DEF Holds, HoldingStages, NoClaim
<1>5. OneWorkerPerRow'
  BY <1>2, <1>4 DEF Facts, OneWorkerPerRow
<1>6. HeldVersionIsCurrent'
  <2> SUFFICES ASSUME NEW e \in Employees \ stolen, NEW v \in Workers, Holds(v, e)'
               PROVE  /\ row'[e].inFlight /\ row'[e].when = "lease"
                      /\ claim'[v][e].version <= row'[e].version
                      /\ claim'[v][e].version = row'[e].version => claim'[v][e].msg = row'[e].msg
                      /\ claim'[v][e].stage \in {"superseded", "outdated"} =>
                            claim'[v][e].version # row'[e].version
    BY <1>2 DEF HeldVersionIsCurrent
  <2>1. CASE e \in batch /\ v = w
    <3>1. row[e].version \in Nat
      BY <2>1 DEF TypeOK, Row, NoRow
    <3> QED BY <2>1, <3>1, <1>1, <1>2
  <2>2. CASE e \notin batch /\ v # w /\ Holds(v, e)
    <3>1. row'[e] = row[e] /\ claim'[v][e] = claim[v][e]
      BY <2>2, <1>1, <1>2
    <3> QED BY <2>2, <3>1 DEF Facts, HeldVersionIsCurrent
  <2> QED BY <1>4, <2>1, <2>2
<1>7. LatestNeverLost'
  <2>1. ASSUME NEW e \in Employees
        PROVE  (row'[e] = NoRow <=> row[e] = NoRow) /\ row'[e].msg = row[e].msg
    BY <1>1, <1>2
  <2> QED BY <1>2, <2>1 DEF Facts, LatestNeverLost
<1>8. AcknowledgedIsProcessed'
  <2>1. ASSUME NEW v \in Workers, NEW e \in Employees,
               claim'[v][e].stage \in {"sending", "delivered"}
        PROVE  claim'[v][e] = claim[v][e]
    BY <1>1, <1>2, <2>1 DEF NoClaim
  <2> QED BY <1>2, <2>1 DEF Facts, AcknowledgedIsProcessed
<1>9. OnlyIssuedCirculates'
  <2>1. ASSUME NEW e \in Employees, row'[e] # NoRow
        PROVE  row[e] # NoRow /\ row'[e].msg = row[e].msg
    BY <1>1, <1>2, <2>1
  <2>2. ASSUME NEW v \in Workers, NEW e \in Employees, claim'[v][e] # NoClaim
        PROVE  \/ claim'[v][e] = claim[v][e]
               \/ row[e] # NoRow /\ claim'[v][e].msg = row[e].msg
    BY <1>1, <1>2, <2>2
  <2> QED BY <1>2, <2>1, <2>2 DEF Facts, OnlyIssuedCirculates
<1> QED
  BY <1>5, <1>6, <1>7, <1>8, <1>9 DEF Facts
\* What Advance and Finish do to the claims, field by field.
LEMMA AdvanceEffect ==
    ASSUME TypeOK, NEW w \in Workers, NEW e \in Employees,
           NEW stage \in HoldingStages \union {"released"},
           claim[w][e].stage # "none", Advance(w, e, stage)
    PROVE  /\ claim'[w][e].stage = stage /\ claim'[w][e] # NoClaim
           /\ claim'[w][e].msg = claim[w][e].msg /\ claim'[w][e].version = claim[w][e].version
           /\ \A v \in Workers, f \in Employees : v # w \/ f # e => claim'[v][f] = claim[v][f]
<1>1. claim[w][e] \in Claim
  BY DEF TypeOK, NoClaim
<1>2. claim'[w][e] = [claim[w][e] EXCEPT !.stage = stage]
  BY DEF Advance, TypeOK
<1>3. stage # "none"
  BY DEF HoldingStages
<1> QED
  BY <1>1, <1>2, <1>3 DEF Advance, TypeOK, Claim, NoClaim

LEMMA FinishEffect ==
    ASSUME TypeOK, NEW w \in Workers, NEW e \in Employees, Finish(w, e)
    PROVE  /\ claim'[w][e] = NoClaim /\ claim'[w][e].stage = "none"
           /\ \A v \in Workers, f \in Employees : v # w \/ f # e => claim'[v][f] = claim[v][f]
BY DEF TypeOK, Finish, NoClaim

\* A step of w on e's item that leaves the table and the requests of the other
\* items alone only has to be checked for w and e.
LEMMA SendFacts ==
    ASSUME TypeOK, Facts, NEW w \in Workers, NEW e \in Employees,
           Send(w, e) \/ SendSucceeds(w, e) \/ SendFails(w, e)
    PROVE  Facts'
<1> DEFINE req == [by |-> w, emp |-> e, msg |-> claim[w][e].msg]
<1>1. /\ UNCHANGED <<row, registry, issued, last, stolen>>
      /\ claim[w][e].stage \in {"claimed", "sending"}
      /\ claim'[w][e].stage \in {"sending", "delivered", "failed"} /\ claim'[w][e] # NoClaim
      /\ claim'[w][e].msg = claim[w][e].msg /\ claim'[w][e].version = claim[w][e].version
      /\ \A v \in Workers, f \in Employees : v # w \/ f # e => claim'[v][f] = claim[v][f]
  BY AdvanceEffect DEF Send, SendSucceeds, SendFails, HoldingStages
<1>2. \A v \in Workers, f \in Employees : Holds(v, f)' <=> Holds(v, f)
  BY <1>1 DEF Holds, HoldingStages
<1>3. OneWorkerPerRow'
  BY <1>1, <1>2 DEF Facts, OneWorkerPerRow
<1>4. HeldVersionIsCurrent'
  <2> SUFFICES ASSUME NEW f \in Employees \ stolen, NEW v \in Workers, Holds(v, f)
               PROVE  /\ row[f].inFlight /\ row[f].when = "lease"
                      /\ claim'[v][f].version <= row[f].version
                      /\ claim'[v][f].version = row[f].version => claim'[v][f].msg = row[f].msg
                      /\ claim'[v][f].stage \in {"superseded", "outdated"} =>
                            claim'[v][f].version # row[f].version
    BY <1>1, <1>2 DEF HeldVersionIsCurrent
  <2>1. /\ row[f].inFlight /\ row[f].when = "lease"
        /\ claim[v][f].version <= row[f].version
        /\ claim[v][f].version = row[f].version => claim[v][f].msg = row[f].msg
        /\ claim[v][f].stage \in {"superseded", "outdated"} => claim[v][f].version # row[f].version
    BY DEF Facts, HeldVersionIsCurrent
  <2>2. CASE v = w /\ f = e
    BY <2>1, <2>2, <1>1
  <2>3. CASE v # w \/ f # e
    BY <2>1, <2>3, <1>1
  <2> QED BY <2>2, <2>3
<1>5. LatestNeverLost'
  BY <1>1 DEF Facts, LatestNeverLost
<1>6. AcknowledgedIsProcessed'
  <2> SUFFICES ASSUME NEW v \in Workers, NEW f \in Employees
               PROVE  /\ claim'[v][f].stage = "sending" =>
                            \/ [by |-> v, emp |-> f, msg |-> claim'[v][f].msg] \in wire'
                            \/ registry[f] >= claim'[v][f].msg
                      /\ claim'[v][f].stage = "delivered" => registry[f] >= claim'[v][f].msg
    BY <1>1 DEF AcknowledgedIsProcessed
  <2>0. /\ claim[v][f].stage = "sending" =>
              \/ [by |-> v, emp |-> f, msg |-> claim[v][f].msg] \in wire
              \/ registry[f] >= claim[v][f].msg
        /\ claim[v][f].stage = "delivered" => registry[f] >= claim[v][f].msg
    BY DEF Facts, AcknowledgedIsProcessed
  <2>1. CASE v # w \/ f # e
    <3>1. [by |-> v, emp |-> f, msg |-> claim[v][f].msg] # req
      BY <2>1
    <3>2. [by |-> v, emp |-> f, msg |-> claim[v][f].msg] \in wire =>
          [by |-> v, emp |-> f, msg |-> claim[v][f].msg] \in wire'
      BY <3>1 DEF Send, SendSucceeds, SendFails
    <3> QED BY <2>0, <2>1, <3>2, <1>1
  <2>2. CASE v = w /\ f = e
    <3>1. CASE Send(w, e)
      BY <2>2, <3>1, <1>1, AdvanceEffect DEF Send, HoldingStages
    <3>2. CASE SendSucceeds(w, e)
      BY <2>0, <2>2, <3>2, <1>1, AdvanceEffect DEF SendSucceeds, HoldingStages
    <3>3. CASE SendFails(w, e)
      BY <2>2, <3>3, <1>1, AdvanceEffect DEF SendFails, HoldingStages
    <3> QED BY <3>1, <3>2, <3>3
  <2> QED BY <2>1, <2>2
<1>7. OnlyIssuedCirculates'
  <2>1. wire' \subseteq wire \union {req} /\ req.msg = claim[w][e].msg /\ req.emp = e
    BY DEF Send, SendSucceeds, SendFails
  <2>2. claim[w][e] # NoClaim
    BY <1>1 DEF NoClaim
  <2>3. claim[w][e].msg \in issued[e]
    BY <2>2 DEF Facts, OnlyIssuedCirculates
  <2>4. \A r \in wire' : r.msg \in issued[r.emp]
    BY <2>1, <2>3 DEF Facts, OnlyIssuedCirculates
  <2>5. \A v \in Workers, f \in Employees : claim'[v][f] # NoClaim => claim'[v][f].msg \in issued[f]
    BY <1>1, <2>3 DEF Facts, OnlyIssuedCirculates
  <2> QED BY <1>1, <2>4, <2>5 DEF Facts, OnlyIssuedCirculates
<1> QED
  BY <1>3, <1>4, <1>5, <1>6, <1>7 DEF Facts
\* Steps that change only e's row and w's claim on it.  What such a step must
\* keep of e's row, and where it may leave w, is all there is to check.
LEMMA MarkStepFacts ==
    ASSUME TypeOK, Facts, NEW w \in Workers, NEW e \in Employees,
           UNCHANGED <<wire, registry, issued, last>>,
           stolen \subseteq stolen',
           \A f \in Employees : f # e => row'[f] = row[f],
           \A v \in Workers, f \in Employees : v # w \/ f # e => claim'[v][f] = claim[v][f],
           claim'[w][e].stage \notin {"claimed", "sending", "delivered", "failed"},
           claim'[w][e] # NoClaim =>
               claim[w][e] # NoClaim /\ claim'[w][e].msg = claim[w][e].msg,
           row'[e] # NoRow => row[e] # NoRow /\ row'[e].msg = row[e].msg,
           e \notin stolen' /\ row'[e] = NoRow => registry[e] >= last[e],
           e \notin stolen' => \A v \in Workers \ {w} : Holds(v, e) => row'[e] = row[e],
           e \notin stolen' /\ Holds(w, e)' =>
               /\ Holds(w, e)
               /\ row'[e] = row[e] /\ claim'[w][e].version = claim[w][e].version
               /\ claim'[w][e].version # row'[e].version
    PROVE  Facts'
<1>1. \A v \in Workers, f \in Employees : f \notin stolen' /\ Holds(v, f)' => Holds(v, f)
  <2> SUFFICES ASSUME NEW v \in Workers, NEW f \in Employees, f \notin stolen', Holds(v, f)'
               PROVE  Holds(v, f)
    OBVIOUS
  <2>1. CASE v = w /\ f = e
    BY <2>1
  <2>2. CASE v # w \/ f # e
    <3>1. claim'[v][f] = claim[v][f]
      BY <2>2
    <3> QED BY <3>1 DEF Holds
  <2> QED BY <2>1, <2>2
<1>2. OneWorkerPerRow'
  BY <1>1 DEF Facts, OneWorkerPerRow
<1>3. HeldVersionIsCurrent'
  <2> SUFFICES ASSUME NEW f \in Employees \ stolen', NEW v \in Workers, Holds(v, f)'
               PROVE  /\ row'[f].inFlight /\ row'[f].when = "lease"
                      /\ claim'[v][f].version <= row'[f].version
                      /\ claim'[v][f].version = row'[f].version => claim'[v][f].msg = row'[f].msg
                      /\ claim'[v][f].stage \in {"superseded", "outdated"} =>
                            claim'[v][f].version # row'[f].version
    BY DEF HeldVersionIsCurrent
  <2>1. /\ row[f].inFlight /\ row[f].when = "lease"
        /\ claim[v][f].version <= row[f].version
        /\ claim[v][f].version = row[f].version => claim[v][f].msg = row[f].msg
        /\ claim[v][f].stage \in {"superseded", "outdated"} => claim[v][f].version # row[f].version
    BY <1>1 DEF Facts, HeldVersionIsCurrent
  <2>2. CASE v = w /\ f = e
    BY <2>1, <2>2
  <2>3. CASE v # w /\ f = e
    <3>1. Holds(v, f) /\ claim'[v][f] = claim[v][f]
      BY <1>1, <2>3
    <3> QED BY <2>1, <2>3, <3>1
  <2>4. CASE f # e
    BY <2>1, <2>4
  <2> QED BY <2>2, <2>3, <2>4
<1>4. LatestNeverLost'
  BY DEF Facts, LatestNeverLost
<1>5. AcknowledgedIsProcessed'
  <2> SUFFICES ASSUME NEW v \in Workers, NEW f \in Employees,
                      claim'[v][f].stage \in {"sending", "delivered"}
               PROVE  claim'[v][f] = claim[v][f]
    BY DEF Facts, AcknowledgedIsProcessed
  <2> QED OBVIOUS
<1>6. OnlyIssuedCirculates'
  <2>1. \A v \in Workers, f \in Employees : claim'[v][f] # NoClaim => claim'[v][f].msg \in issued[f]
    BY DEF Facts, OnlyIssuedCirculates
  <2>2. \A f \in Employees : row'[f] # NoRow => row'[f].msg \in issued[f]
    BY DEF Facts, OnlyIssuedCirculates
  <2> QED BY <2>1, <2>2 DEF Facts, OnlyIssuedCirculates
<1> QED
  BY <1>2, <1>3, <1>4, <1>5, <1>6 DEF Facts

LEMMA MarkDeliveredFacts ==
    ASSUME TypeOK, Facts, NEW w \in Workers, NEW e \in Employees, MarkDelivered(w, e)
    PROVE  Facts'
<1>1. /\ Holds(w, e) /\ claim[w][e] # NoClaim /\ claim[w][e] \in Claim
      /\ registry[e] >= claim[w][e].msg
      /\ UNCHANGED <<wire, registry, issued, last, stolen>>
  <2>1. claim[w][e].stage = "delivered" /\ UNCHANGED <<wire, registry, issued, last, stolen>>
    BY DEF MarkDelivered
  <2>2. Holds(w, e) /\ claim[w][e] # NoClaim
    BY <2>1 DEF Holds, HoldingStages, NoClaim
  <2>3. claim[w][e] \in Claim
    BY <2>2 DEF TypeOK
  <2>4. registry[e] >= claim[w][e].msg
    BY <2>1 DEF Facts, AcknowledgedIsProcessed
  <2> QED BY <2>1, <2>2, <2>3, <2>4
<1>2. CASE row[e].version = claim[w][e].version /\ row' = [row EXCEPT ![e] = NoRow] /\ Finish(w, e)
  <2>1. row'[e] = NoRow /\ \A f \in Employees : f # e => row'[f] = row[f]
    BY <1>2 DEF TypeOK
  <2>2. e \notin stolen => registry[e] >= last[e]
    <3> SUFFICES ASSUME e \notin stolen
                 PROVE  registry[e] >= last[e]
      OBVIOUS
    <3>1. row[e] # NoRow /\ claim[w][e].msg = row[e].msg
      BY <1>1, <1>2, HeldRowExists DEF Facts, HeldVersionIsCurrent
    <3> QED BY <1>1, <3>1 DEF Facts, LatestNeverLost
  <2>3. e \notin stolen => \A v \in Workers \ {w} : ~Holds(v, e)
    BY <1>1 DEF Facts, OneWorkerPerRow
  <2>4. /\ claim'[w][e] = NoClaim /\ claim'[w][e].stage = "none"
        /\ \A v \in Workers, f \in Employees : v # w \/ f # e => claim'[v][f] = claim[v][f]
    BY <1>2, FinishEffect
  <2>5. ~(Holds(w, e)')
    BY <2>4 DEF Holds, HoldingStages
  <2> QED BY <1>1, <2>1, <2>2, <2>3, <2>4, <2>5, MarkStepFacts
<1>3. CASE row[e].version # claim[w][e].version /\ Advance(w, e, "superseded") /\ UNCHANGED row
  <2>1. /\ claim'[w][e].stage = "superseded"
        /\ claim'[w][e].msg = claim[w][e].msg /\ claim'[w][e].version = claim[w][e].version
        /\ \A v \in Workers, f \in Employees : v # w \/ f # e => claim'[v][f] = claim[v][f]
    BY <1>1, <1>3, AdvanceEffect DEF MarkDelivered, HoldingStages
  <2>2. e \notin stolen => row[e] # NoRow
    BY <1>1, HeldRowExists
  <2> QED BY <1>1, <1>3, <2>1, <2>2, MarkStepFacts
<1> QED
  BY <1>2, <1>3 DEF MarkDelivered

LEMMA MarkFailedFacts ==
    ASSUME TypeOK, Facts, NEW w \in Workers, NEW e \in Employees, MarkFailed(w, e)
    PROVE  Facts'
<1>1. /\ Holds(w, e) /\ claim[w][e] # NoClaim /\ claim[w][e] \in Claim
      /\ UNCHANGED <<wire, registry, issued, last, stolen>>
  BY DEF MarkFailed, Holds, HoldingStages, NoClaim, TypeOK
<1>0. e \notin stolen => row[e] # NoRow
  BY <1>1, HeldRowExists
<1>2. CASE row[e].version = claim[w][e].version /\ Advance(w, e, "released") /\
           row' = [row EXCEPT ![e].inFlight = FALSE, ![e].when = "backoff"]
  <2>1. row[e] \in Row
    BY <1>1, <1>2 DEF TypeOK, NoRow, Claim
  <2>2. /\ row'[e].msg = row[e].msg /\ row'[e].when = "backoff" /\ row[e] # NoRow
        /\ \A f \in Employees : f # e => row'[f] = row[f]
    BY <1>2, <2>1 DEF TypeOK, Row, NoRow
  <2>3. row'[e] # NoRow
    BY <2>2 DEF NoRow
  <2>4. e \notin stolen => \A v \in Workers \ {w} : ~Holds(v, e)
    BY <1>1 DEF Facts, OneWorkerPerRow
  <2>5. /\ claim'[w][e].stage = "released"
        /\ claim'[w][e].msg = claim[w][e].msg
        /\ \A v \in Workers, f \in Employees : v # w \/ f # e => claim'[v][f] = claim[v][f]
    BY <1>1, <1>2, AdvanceEffect DEF MarkFailed
  <2>6. ~(Holds(w, e)')
    BY <2>5 DEF Holds, HoldingStages
  <2> QED BY <1>1, <2>2, <2>3, <2>4, <2>5, <2>6, MarkStepFacts
<1>3. CASE row[e].version # claim[w][e].version /\ Advance(w, e, "outdated") /\ UNCHANGED row
  <2>1. /\ claim'[w][e].stage = "outdated"
        /\ claim'[w][e].msg = claim[w][e].msg /\ claim'[w][e].version = claim[w][e].version
        /\ \A v \in Workers, f \in Employees : v # w \/ f # e => claim'[v][f] = claim[v][f]
    BY <1>1, <1>3, AdvanceEffect DEF MarkFailed, HoldingStages
  <2> QED BY <1>0, <1>1, <1>3, <2>1, MarkStepFacts
<1> QED
  BY <1>2, <1>3 DEF MarkFailed

\* Both release statements: the row becomes due, and unless it was stolen from
\* another worker nobody else held it.
LEMMA ReleaseFacts ==
    ASSUME TypeOK, Facts, NEW w \in Workers, NEW e \in Employees,
           ReleaseSuperseded(w, e) \/ ReleaseNewer(w, e)
    PROVE  Facts'
<1>1. /\ UNCHANGED <<wire, registry, issued, last>>
      /\ claim'[w][e] = NoClaim /\ claim'[w][e].stage = "none"
      /\ \A v \in Workers, f \in Employees : v # w \/ f # e => claim'[v][f] = claim[v][f]
  BY FinishEffect DEF ReleaseSuperseded, ReleaseNewer
<1>2. ~(Holds(w, e)')
  BY <1>1 DEF Holds, HoldingStages
<1>3. CASE KeepRow
  <2>1. e \notin stolen /\ row[e] = NoRow => registry[e] >= last[e]
    BY DEF Facts, LatestNeverLost
  <2> QED BY <1>1, <1>2, <1>3, <2>1, MarkStepFacts DEF KeepRow
<1>4. CASE row[e] # NoRow /\ ReleaseRow(w, e)
  <2>1. row[e] \in Row
    BY <1>4 DEF TypeOK
  <2>2. /\ row'[e].msg = row[e].msg /\ row'[e].when = "now"
        /\ \A f \in Employees : f # e => row'[f] = row[f]
    BY <1>4, <2>1 DEF ReleaseRow, TypeOK, Row
  <2>3. row'[e] # NoRow
    BY <2>2 DEF NoRow
  <2>4. /\ stolen \subseteq stolen'
        /\ e \notin stolen' => \A v \in Workers \ {w} : ~Holds(v, e)
    BY <1>4 DEF ReleaseRow
  <2> QED BY <1>1, <1>2, <1>4, <2>2, <2>3, <2>4, MarkStepFacts
<1> QED
  BY <1>3, <1>4 DEF ReleaseSuperseded, ReleaseNewer
LEMMA AbandonFacts ==
    ASSUME TypeOK, Facts, NEW w \in Workers, AbandonPass(w)
    PROVE  Facts'
<1>1. /\ UNCHANGED <<row, wire, registry, issued, last, stolen>>
      /\ \A v \in Workers, f \in Employees :
           \/ claim'[v][f] = claim[v][f]
           \/ claim'[v][f] = NoClaim /\ claim'[v][f].stage = "none"
  BY DEF AbandonPass, TypeOK, NoClaim
<1>2. \A v \in Workers, f \in Employees : Holds(v, f)' => Holds(v, f) /\ claim'[v][f] = claim[v][f]
  BY <1>1 DEF Holds, HoldingStages
<1>3. OneWorkerPerRow' /\ LatestNeverLost'
  BY <1>1, <1>2 DEF Facts, OneWorkerPerRow, LatestNeverLost
<1>4. HeldVersionIsCurrent'
  BY <1>1, <1>2 DEF Facts, HeldVersionIsCurrent
<1>5. AcknowledgedIsProcessed'
  BY <1>1 DEF Facts, AcknowledgedIsProcessed
<1>6. OnlyIssuedCirculates'
  BY <1>1 DEF Facts, OnlyIssuedCirculates
<1> QED
  BY <1>3, <1>4, <1>5, <1>6 DEF Facts

LEMMA TimeFacts ==
    ASSUME TypeOK, Facts, NEW e \in Employees, LeaseExpires(e) \/ BackoffEnds(e)
    PROVE  Facts'
<1>1. row[e] \in Row /\ row[e] # NoRow
  BY DEF LeaseExpires, BackoffEnds, TypeOK, NoRow
<1>2. /\ UNCHANGED <<claim, wire, registry, issued, last>> /\ stolen \subseteq stolen'
      /\ row'[e].msg = row[e].msg /\ row'[e].when = "now"
      /\ \A f \in Employees : f # e => row'[f] = row[f]
  BY <1>1 DEF LeaseExpires, BackoffEnds, TypeOK, Row
<1>3. row'[e] # NoRow
  BY <1>2 DEF NoRow
<1>4. e \notin stolen' => \A w \in Workers : ~Holds(w, e)
  <2>1. CASE LeaseExpires(e)
    BY <2>1 DEF LeaseExpires
  <2>2. CASE BackoffEnds(e)
    BY <2>2, HeldRowExists DEF BackoffEnds
  <2> QED BY <2>1, <2>2
<1>5. \A w \in Workers, f \in Employees : Holds(w, f)' <=> Holds(w, f)
  BY <1>2 DEF Holds
<1>6. OneWorkerPerRow' /\ AcknowledgedIsProcessed'
  BY <1>2, <1>5 DEF Facts, OneWorkerPerRow, AcknowledgedIsProcessed
<1>7. HeldVersionIsCurrent'
  BY <1>2, <1>4, <1>5 DEF Facts, HeldVersionIsCurrent
<1>8. LatestNeverLost'
  BY <1>1, <1>2, <1>3 DEF Facts, LatestNeverLost
<1>9. OnlyIssuedCirculates'
  BY <1>1, <1>2 DEF Facts, OnlyIssuedCirculates
<1> QED
  BY <1>6, <1>7, <1>8, <1>9 DEF Facts

LEMMA ReceiveFacts ==
    ASSUME TypeOK, Facts, NEW r \in wire, Receive(r)
    PROVE  Facts'
<1>1. /\ UNCHANGED <<row, claim, issued, last, stolen>>
      /\ wire' = wire \ {r} /\ r \in Request
      /\ registry' = [registry EXCEPT ![r.emp] = Larger(@, r.msg)]
  BY DEF Receive, TypeOK
<1>2. \A e \in Employees : registry[e] \in Nat /\ last[e] \in Nat
  <2>1. \A e \in Employees : registry[e] \in Stamps \union {0} /\ last[e] \in Stamps \union {0}
    BY DEF TypeOK
  <2>2. Stamps \union {0} \subseteq Nat
    BY StampsAssumption
  <2> QED BY <2>1, <2>2
<1>3. r.emp \in Employees /\ r.msg \in Nat
  BY <1>1, StampsAssumption DEF Request
<1>4. /\ \A e \in Employees : registry'[e] \in Nat /\ registry'[e] >= registry[e]
      /\ registry'[r.emp] >= r.msg
  BY <1>1, <1>2, <1>3 DEF Larger, TypeOK
<1>5. OneWorkerPerRow' /\ HeldVersionIsCurrent'
  BY <1>1 DEF Facts, OneWorkerPerRow, HeldVersionIsCurrent, Holds
<1>6. LatestNeverLost'
  BY <1>1, <1>2, <1>4 DEF Facts, LatestNeverLost
<1>7. AcknowledgedIsProcessed'
  <2> SUFFICES ASSUME NEW w \in Workers, NEW e \in Employees,
                      claim[w][e].stage \in {"sending", "delivered"}
               PROVE  /\ claim[w][e].stage = "sending" =>
                            \/ [by |-> w, emp |-> e, msg |-> claim[w][e].msg] \in wire'
                            \/ registry'[e] >= claim[w][e].msg
                      /\ claim[w][e].stage = "delivered" => registry'[e] >= claim[w][e].msg
    BY <1>1 DEF AcknowledgedIsProcessed
  <2>1. claim[w][e].msg \in Nat
    <3>1. claim[w][e] \in Claim \union {NoClaim} /\ claim[w][e] # NoClaim
      BY DEF TypeOK, NoClaim
    <3>2. claim[w][e].msg \in Stamps
      BY <3>1 DEF Claim
    <3> QED BY <3>2, StampsAssumption
  <2>2. registry[e] >= claim[w][e].msg => registry'[e] >= claim[w][e].msg
    BY <2>1, <1>2, <1>4
  <2>3. r = [by |-> w, emp |-> e, msg |-> claim[w][e].msg] => registry'[e] >= claim[w][e].msg
    BY <1>4
  <2> QED
    BY <1>1, <2>2, <2>3 DEF Facts, AcknowledgedIsProcessed
<1>8. OnlyIssuedCirculates'
  BY <1>1 DEF Facts, OnlyIssuedCirculates
<1> QED
  BY <1>5, <1>6, <1>7, <1>8 DEF Facts

LEMMA NextFacts == TypeOK /\ Facts /\ [Next]_vars => Facts'
<1> SUFFICES ASSUME TypeOK, Facts, [Next]_vars
             PROVE  Facts'
  OBVIOUS
<1>1. CASE UNCHANGED vars
  BY <1>1 DEF vars, Facts, OneWorkerPerRow, HeldVersionIsCurrent, LatestNeverLost,
              AcknowledgedIsProcessed, OnlyIssuedCirculates, Holds
<1>2. CASE \E e \in Employees : \E m \in Stamps : Enqueue(e, m)
  BY <1>2, EnqueueFacts
<1>3. CASE \E w \in Workers : \E batch \in SUBSET Due : ClaimDue(w, batch)
  BY <1>3, ClaimDueFacts
<1>4. CASE \E w \in Workers, e \in Employees : WorkerStep(w, e)
  BY <1>4, SendFacts, MarkDeliveredFacts, MarkFailedFacts, ReleaseFacts DEF WorkerStep
<1>5. CASE \E w \in Workers : AbandonPass(w)
  BY <1>5, AbandonFacts
<1>6. CASE \E e \in Employees : LeaseExpires(e) \/ BackoffEnds(e)
  BY <1>6, TimeFacts
<1>7. CASE \E r \in wire : Receive(r)
  BY <1>7, ReceiveFacts
<1> QED
  BY <1>1, <1>2, <1>3, <1>4, <1>5, <1>6, <1>7 DEF Next, DeliveryNext

LEMMA NextIInv == IInv /\ [Next]_vars => IInv'
<1>1. IInv <=> TypeOK /\ Facts
  BY DEF IInv, Facts
<1> SUFFICES ASSUME IInv, [Next]_vars
             PROVE  IInv'
  OBVIOUS
<1>2. TypeOK' /\ Facts'
  BY <1>1, NextTypeOK, NextFacts
<1> QED BY <1>2 DEF IInv, Facts

\* IInv holds initially, every step preserves it, and so it always holds.
THEOREM Invariance == Spec => []IInv
<1>1. Init => IInv
  BY InitTypeOK, InitFacts DEF IInv, Facts
<1> QED
  BY <1>1, NextIInv, PTL DEF Spec

\* Two API processes never work on one row, whatever fails, unless a claim was
\* ended under its holder.
THEOREM Exclusion == Spec => []OneWorkerPerRow
<1>1. IInv => OneWorkerPerRow
  BY DEF IInv
<1> QED
  BY <1>1, Invariance, PTL

\* A queued change is never dropped before id-sync holds it or a newer one, unless
\* a claim on its row was ended under its holder.
THEOREM NothingLost == Spec => []LatestNeverLost
<1>1. IInv => LatestNeverLost
  BY DEF IInv
<1> QED
  BY <1>1, Invariance, PTL
(***************************************************************************)
(* The outbox implements the abstract channel: every step is one abstract  *)
(* step or leaves the abstract variables alone.                            *)
(***************************************************************************)

Owed == {e \in Employees : row[e] # NoRow}
channelVars == <<issued, last, Owed, registry, stolen>>

LEMMA InitChannel == Init => Channel!Init
BY DEF Init, Channel!Init

LEMMA EnqueueSubmits ==
    ASSUME TypeOK, NEW e \in Employees, NEW m \in Stamps, Enqueue(e, m)
    PROVE  Channel!Submit(e, m)
<1>1. row'[e].msg = m /\ \A f \in Employees : f # e => row'[f] = row[f]
  BY DEF Enqueue, TypeOK, Row, NoRow
<1>2. row'[e] # NoRow
  <2>1. 0 \notin Stamps
    BY StampsAssumption
  <2> QED BY <1>1, <2>1 DEF NoRow
<1>3. {f \in Employees : row'[f] # NoRow} = {f \in Employees : row[f] # NoRow} \union {e}
  BY <1>1, <1>2
<1> QED
  BY <1>3 DEF Enqueue, Channel!Submit

\* The rows that a marking step keeps in the table.
LEMMA RescheduleKeepsRows ==
    ASSUME TypeOK, NEW e \in Employees, row[e] # NoRow, NEW b \in BOOLEAN,
           NEW t \in {"now", "lease", "backoff"},
           row' = [row EXCEPT ![e].inFlight = b, ![e].when = t]
    PROVE  Owed' = Owed
<1>1. row[e] \in Row
  BY DEF TypeOK
<1>2. row'[e].when = t /\ \A f \in Employees : f # e => row'[f] = row[f]
  BY <1>1 DEF TypeOK, Row
<1>3. row'[e] # NoRow
  <2>1. t # "never"
    OBVIOUS
  <2>2. NoRow.when = "never"
    BY DEF NoRow
  <2> QED BY <1>2, <2>1, <2>2
<1> QED
  BY <1>2, <1>3 DEF Owed

LEMMA MarkSettles ==
    ASSUME TypeOK, Facts, NEW w \in Workers, NEW e \in Employees, MarkDelivered(w, e)
    PROVE  Channel!Settle(e) \/ UNCHANGED channelVars
<1>1. claim[w][e].stage = "delivered" /\ UNCHANGED <<registry, issued, last, stolen>>
  BY DEF MarkDelivered
<1>2. CASE UNCHANGED row
  BY <1>1, <1>2 DEF channelVars, Owed
<1>3. CASE row[e].version = claim[w][e].version /\ row' = [row EXCEPT ![e] = NoRow]
  <2>1. Holds(w, e) /\ claim[w][e] # NoClaim
    BY <1>1 DEF Holds, HoldingStages, NoClaim
  <2>2. claim[w][e] \in Claim
    BY <2>1 DEF TypeOK
  <2>3. row[e] # NoRow
    BY <1>3, <2>2 DEF Claim, NoRow
  <2>4. {f \in Employees : row'[f] # NoRow} = {f \in Employees : row[f] # NoRow} \ {e}
    BY <1>3 DEF TypeOK
  <2>5. registry[e] >= last[e] \/ e \in stolen
    <3> SUFFICES ASSUME e \notin stolen
                 PROVE  registry[e] >= last[e]
      OBVIOUS
    <3>1. claim[w][e].msg = row[e].msg
      BY <1>3, <2>1 DEF Facts, HeldVersionIsCurrent
    <3>2. registry[e] >= claim[w][e].msg
      BY <1>1 DEF Facts, AcknowledgedIsProcessed
    <3> QED BY <2>3, <3>1, <3>2 DEF Facts, LatestNeverLost
  <2> QED BY <1>1, <2>3, <2>4, <2>5 DEF Channel!Settle
<1> QED
  BY <1>2, <1>3 DEF MarkDelivered

LEMMA ReleaseDisturbs ==
    ASSUME TypeOK, NEW w \in Workers, NEW e \in Employees,
           ReleaseSuperseded(w, e) \/ ReleaseNewer(w, e)
    PROVE  Channel!Disturb(e) \/ UNCHANGED channelVars
<1>1. UNCHANGED <<registry, issued, last>>
  BY DEF ReleaseSuperseded, ReleaseNewer
<1>2. CASE KeepRow
  BY <1>1, <1>2 DEF KeepRow, channelVars, Owed
<1>3. CASE row[e] # NoRow /\ ReleaseRow(w, e)
  <2>1. Owed' = Owed
    BY <1>3, RescheduleKeepsRows DEF ReleaseRow
  <2>2. stolen' = stolen \/ stolen' = stolen \union {e}
    BY <1>3 DEF ReleaseRow
  <2> QED BY <1>1, <2>1, <2>2 DEF Channel!Disturb, channelVars, Owed
<1> QED
  BY <1>2, <1>3 DEF ReleaseSuperseded, ReleaseNewer

LEMMA StepChannel ==
    ASSUME IInv, [Next]_vars
    PROVE  [Channel!Next]_channelVars
<1> TypeOK /\ Facts
  BY DEF IInv, Facts
<1>1. CASE UNCHANGED vars
  BY <1>1 DEF vars, channelVars, Owed
<1>2. CASE \E e \in Employees : \E m \in Stamps : Enqueue(e, m)
  BY <1>2, EnqueueSubmits DEF Channel!Next
<1>3. ASSUME NEW w \in Workers, NEW batch \in SUBSET Due, ClaimDue(w, batch)
      PROVE  UNCHANGED channelVars
  <2>1. ASSUME NEW e \in Employees
        PROVE  row'[e] # NoRow <=> row[e] # NoRow
    <3>1. CASE e \in batch
      <4>1. row[e] # NoRow /\ row[e] \in Row
        BY <3>1 DEF Due, NoRow, TypeOK
      <4>2. row'[e].when = "lease"
        BY <1>3, <3>1, <4>1 DEF ClaimDue, Row
      <4> QED BY <4>1, <4>2 DEF NoRow
    <3>2. CASE e \notin batch
      BY <1>3, <3>2 DEF ClaimDue
    <3> QED BY <3>1, <3>2
  <2>2. Owed' = Owed
    BY <2>1 DEF Owed
  <2> QED BY <1>3, <2>2 DEF ClaimDue, channelVars
<1>4. ASSUME NEW w \in Workers, NEW e \in Employees, WorkerStep(w, e)
      PROVE  Channel!Next \/ UNCHANGED channelVars
  <2>1. CASE Send(w, e) \/ SendSucceeds(w, e) \/ SendFails(w, e)
    BY <2>1 DEF Send, SendSucceeds, SendFails, channelVars, Owed
  <2>2. CASE MarkDelivered(w, e)
    BY <2>2, MarkSettles DEF Channel!Next
  <2>3. CASE ReleaseSuperseded(w, e) \/ ReleaseNewer(w, e)
    BY <2>3, ReleaseDisturbs DEF Channel!Next
  <2>4. CASE MarkFailed(w, e)
    <3>1. claim[w][e] \in Claim
      BY <2>4 DEF MarkFailed, TypeOK, NoClaim
    <3>2. row[e].version = claim[w][e].version => row[e] # NoRow
      BY <3>1 DEF Claim, NoRow
    <3>3. Owed' = Owed
      <4>1. CASE UNCHANGED row
        BY <4>1 DEF Owed
      <4>2. CASE row[e].version = claim[w][e].version /\
                 row' = [row EXCEPT ![e].inFlight = FALSE, ![e].when = "backoff"]
        BY <4>2, <3>2, RescheduleKeepsRows
      <4> QED BY <2>4, <4>1, <4>2 DEF MarkFailed
    <3> QED BY <2>4, <3>3 DEF MarkFailed, channelVars
  <2> QED BY <1>4, <2>1, <2>2, <2>3, <2>4 DEF WorkerStep
<1>5. CASE \E w \in Workers : AbandonPass(w)
  BY <1>5 DEF AbandonPass, channelVars, Owed
<1>6. ASSUME NEW e \in Employees, LeaseExpires(e) \/ BackoffEnds(e)
      PROVE  Channel!Next \/ UNCHANGED channelVars
  <2>1. row[e] \in Row /\ row[e] # NoRow
    BY <1>6 DEF LeaseExpires, BackoffEnds, TypeOK, NoRow
  <2>2. row'[e].when = "now" /\ \A f \in Employees : f # e => row'[f] = row[f]
    BY <1>6, <2>1 DEF LeaseExpires, BackoffEnds, TypeOK, Row
  <2>3. Owed' = Owed
    BY <2>1, <2>2 DEF Owed, NoRow
  <2>4. /\ UNCHANGED <<registry, issued, last>>
        /\ stolen' = stolen \/ stolen' = stolen \union {e}
    BY <1>6 DEF LeaseExpires, BackoffEnds
  <2> QED BY <2>3, <2>4 DEF Channel!Next, Channel!Disturb, channelVars, Owed
<1>7. ASSUME NEW r \in wire, Receive(r)
      PROVE  Channel!Next \/ UNCHANGED channelVars
  <2>1. r.emp \in Employees /\ r.msg \in Stamps /\ r.msg \in issued[r.emp]
    BY DEF TypeOK, Request, Facts, OnlyIssuedCirculates
  <2>2. UNCHANGED <<row, issued, last, stolen>>
    BY <1>7 DEF Receive
  <2>3. r.msg \in Nat /\ registry[r.emp] \in Nat
    <3>1. registry[r.emp] \in Stamps \union {0}
      BY <2>1 DEF TypeOK
    <3>2. Stamps \union {0} \subseteq Nat
      BY StampsAssumption
    <3> QED BY <2>1, <3>1, <3>2
  <2>4. CASE r.msg > registry[r.emp]
    <3>1. Larger(registry[r.emp], r.msg) = r.msg
      BY <2>3, <2>4 DEF Larger
    <3>2. registry' = [registry EXCEPT ![r.emp] = r.msg]
      BY <1>7, <3>1 DEF Receive
    <3>3. Owed' = Owed
      BY <2>2 DEF Owed
    <3>4. Channel!Apply(r.emp, r.msg)
      BY <2>1, <2>2, <2>4, <3>2, <3>3 DEF Channel!Apply, Owed
    <3> QED BY <2>1, <3>4 DEF Channel!Next
  <2>5. CASE ~(r.msg > registry[r.emp])
    <3>1. Larger(registry[r.emp], r.msg) = registry[r.emp]
      BY <2>3, <2>5 DEF Larger
    <3>2. registry' = registry
      BY <1>7, <3>1 DEF Receive, TypeOK
    <3> QED BY <2>2, <3>2 DEF channelVars, Owed
  <2> QED BY <2>4, <2>5
<1> QED
  BY <1>1, <1>2, <1>3, <1>4, <1>5, <1>6, <1>7 DEF Next, DeliveryNext

\* The workers, with their claims, versions, leases and retries, implement the
\* abstract channel to id-sync.
THEOREM Refinement == Spec => ImplementsChannel
<1>1. IInv /\ [Next]_vars => [Channel!Next]_channelVars
  BY StepChannel
<1> QED
  BY <1>1, InitChannel, Invariance, PTL
     DEF Spec, ImplementsChannel, Channel!Spec, channelVars, Owed
=============================================================================
