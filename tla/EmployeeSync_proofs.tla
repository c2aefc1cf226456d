------------------------ MODULE EmployeeSync_proofs ------------------------
(***************************************************************************)
(* Proofs about EmployeeSync: employee requests on top of the whole outbox *)
(* for any employees, documents, threads, workers and stamps.  The outbox  *)
(* enters through what is proved of it: its invariant IInv, and that its   *)
(* steps are steps of the abstract channel.                                *)
(***************************************************************************)
EXTENDS EmployeeSync, IdentityOutbox_proofs

RequestState == {Idle} \union Arrived \union Written \union Stamped

LEMMA StampIsNat == Stamps \subseteq Nat /\ 0 \notin Stamps
BY StampsAssumption

(***************************************************************************)
(* Type correctness, and the outbox inside the composition.                *)
(***************************************************************************)

LEMMA SyncInitType == SyncInit => SyncTypeOK
BY InitTypeOK DEF SyncInit, SyncTypeOK

LEMMA WriteType ==
    ASSUME SyncTypeOK, NEW r \in Requests, request[r] \in Arrived,
           NEW says \in Profiles \union {Absent}, Write(r, says), UNCHANGED vars
    PROVE  SyncTypeOK'
<1>1. TypeOK'
  BY DEF SyncTypeOK, TypeOK, vars
<1>2. request' \in [Requests -> RequestState]
  <2>1. [stage |-> "written", emp |-> request[r].emp, clean |-> request[r].clean,
         says |-> says] \in Written
    BY DEF Arrived, Written
  <2> QED
    BY <2>1 DEF SyncTypeOK, Write, RequestState
<1>3. employees' \in [Employees -> Profiles \union {Absent}]
  BY DEF SyncTypeOK, Write
<1> QED
  BY <1>1, <1>2, <1>3 DEF SyncTypeOK, Write, RequestState

\* A request before its write has the shape of one that arrived.
LEMMA StageOfArrived ==
    ASSUME SyncTypeOK, NEW r \in Requests,
           request[r].stage \in {"replace", "patch", "remove", "patching", "removing"}
    PROVE  request[r] \in Arrived
BY DEF SyncTypeOK, Idle, Arrived, Written, Stamped

LEMMA ArriveType ==
    ASSUME SyncTypeOK, NEW r \in Requests, NEW e \in Employees,
           NEW kind \in {"replace", "patch", "remove"}, Arrive(r, e, kind), UNCHANGED vars
    PROVE  SyncTypeOK'
<1>1. TypeOK'
  BY DEF SyncTypeOK, TypeOK, vars
<1>2. ASSUME NEW s \in Requests
      PROVE  request'[s] \in RequestState
  <2>1. CASE s = r
    BY <2>1 DEF Arrive, RequestState, Arrived
  <2>2. CASE s # r /\ s \in Writing(e)
    <3>1. request[s] \in RequestState /\ request[s] # Idle
      BY <2>2 DEF SyncTypeOK, RequestState, Writing
    <3>2. [request[s] EXCEPT !.clean = FALSE] \in RequestState
      BY <3>1 DEF RequestState, Arrived, Written, Stamped
    <3> QED
      BY <2>2, <3>2 DEF Arrive
  <2>3. CASE s # r /\ s \notin Writing(e)
    BY <2>3 DEF Arrive, SyncTypeOK, RequestState
  <2> QED
    BY <2>1, <2>2, <2>3
<1>3. request' \in [Requests -> RequestState]
  BY <1>2 DEF Arrive
<1> QED
  BY <1>1, <1>3 DEF SyncTypeOK, Arrive, RequestState

LEMMA ReadType ==
    ASSUME SyncTypeOK, NEW r \in Requests, Read(r), UNCHANGED vars
    PROVE  SyncTypeOK'
<1>1. TypeOK'
  BY DEF SyncTypeOK, TypeOK, vars
<1>2. request[r] \in Arrived
  BY StageOfArrived DEF Read
<1>3. \A stage \in {"patching", "removing"} : [request[r] EXCEPT !.stage = stage] \in Arrived
  BY <1>2 DEF Arrived
<1>4. request' \in [Requests -> RequestState]
  <2>1. CASE GoIdle(r)
    BY <2>1 DEF SyncTypeOK, GoIdle, RequestState
  <2>2. ASSUME NEW stage \in {"patching", "removing"}, Goto(r, stage)
        PROVE  request' \in [Requests -> RequestState]
    BY <1>3, <2>2 DEF SyncTypeOK, Goto, RequestState
  <2> QED
    BY <2>1, <2>2 DEF Read
<1> QED
  BY <1>1, <1>4 DEF SyncTypeOK, Read, RequestState

LEMMA StampType ==
    ASSUME SyncTypeOK, NEW r \in Requests, Stamp(r), UNCHANGED vars
    PROVE  SyncTypeOK'
<1>1. TypeOK'
  BY DEF SyncTypeOK, TypeOK, vars
<1>2. request[r] \in Written
  BY DEF Stamp, SyncTypeOK, Idle, Arrived, Written, Stamped
<1>3. clock + 1 \in Stamps
  BY DEF Stamp
<1>4. request' \in [Requests -> RequestState]
  BY <1>2, <1>3 DEF Stamp, SyncTypeOK, RequestState, Written, Stamped
<1>5. content' \in [Stamps \union {0} -> Profiles \union {Absent}]
  BY <1>2, <1>3 DEF Stamp, SyncTypeOK, Written
<1> QED
  BY <1>1, <1>3, <1>4, <1>5 DEF SyncTypeOK, Stamp, RequestState

LEMMA NeverEnqueuedType ==
    ASSUME SyncTypeOK, NEW r \in Requests, NeverEnqueued(r), UNCHANGED vars
    PROVE  SyncTypeOK'
<1>1. TypeOK'
  BY DEF SyncTypeOK, TypeOK, vars
<1>2. request[r].emp \in Employees
  BY DEF NeverEnqueued, SyncTypeOK, Idle, Arrived, Written, Stamped
<1> QED
  BY <1>1, <1>2 DEF NeverEnqueued, GoIdle, SyncTypeOK

\* The enqueue of an employee request is an enqueue of the outbox.
LEMMA EnqueueIsOutbox ==
    ASSUME SyncTypeOK, NEW r \in Requests, EnqueueEmployee(r)
    PROVE  /\ request[r] \in Stamped /\ request[r].emp \in Employees
           /\ request[r].stamp \in Stamps
           /\ Enqueue(request[r].emp, request[r].stamp)
<1>1. request[r] \in Stamped
  BY DEF EnqueueEmployee, SyncTypeOK, Idle, Arrived, Written, Stamped
<1> QED
  BY <1>1 DEF EnqueueEmployee, Stamped

LEMMA EnqueueEmployeeType ==
    ASSUME SyncTypeOK, NEW r \in Requests, EnqueueEmployee(r)
    PROVE  SyncTypeOK'
<1>1. TypeOK'
  BY EnqueueIsOutbox, EnqueueType DEF SyncTypeOK
<1> QED
  BY <1>1 DEF EnqueueEmployee, GoIdle, SyncTypeOK

LEMMA SyncNextType == SyncTypeOK /\ [SyncNext]_<<vars, syncVars>> => SyncTypeOK'
<1> SUFFICES ASSUME SyncTypeOK, [SyncNext]_<<vars, syncVars>>
             PROVE  SyncTypeOK'
  OBVIOUS
<1>1. ASSUME NEW r \in Requests, RequestStep(r), UNCHANGED vars
      PROVE  SyncTypeOK'
  <2>1. CASE \E e \in Employees, kind \in {"replace", "patch", "remove"} : Arrive(r, e, kind)
    BY <1>1, <2>1, ArriveType
  <2>2. CASE Read(r)
    BY <1>1, <2>2, ReadType
  <2>3. CASE \E doc \in Profiles : Replace(r, doc) \/ Patch(r, doc)
    BY <1>1, <2>3, StageOfArrived, WriteType DEF Replace, Patch
  <2>4. CASE Remove(r)
    <3>1. request[r] \in Arrived
      BY <2>4, StageOfArrived DEF Remove
    <3>2. CASE Write(r, Absent)
      BY <1>1, <3>1, <3>2, WriteType
    <3>3. CASE GoIdle(r) /\ UNCHANGED <<employees, content, clock, raced, dropped>>
      BY <1>1, <3>3 DEF GoIdle, SyncTypeOK, TypeOK, vars
    <3> QED
      BY <2>4, <3>2, <3>3 DEF Remove
  <2>5. CASE Stamp(r)
    BY <1>1, <2>5, StampType
  <2>6. CASE NeverEnqueued(r)
    BY <1>1, <2>6, NeverEnqueuedType
  <2> QED
    BY <1>1, <2>1, <2>2, <2>3, <2>4, <2>5, <2>6 DEF RequestStep
<1>2. ASSUME NEW r \in Requests, EnqueueEmployee(r)
      PROVE  SyncTypeOK'
  BY <1>2, EnqueueEmployeeType
<1>3. CASE DeliveryNext /\ UNCHANGED syncVars
  <2>1. TypeOK'
    BY <1>3, NextTypeOK DEF Next, SyncTypeOK
  <2> QED
    BY <1>3, <2>1 DEF SyncTypeOK, syncVars
<1>4. CASE UNCHANGED <<vars, syncVars>>
  BY <1>4 DEF SyncTypeOK, TypeOK, vars, syncVars
<1> QED
  BY <1>1, <1>2, <1>3, <1>4 DEF SyncNext

\* Every variable of the composition has its type.
THEOREM SyncTypesCorrect == SyncSpec => []SyncTypeOK
<1> QED
  BY SyncInitType, SyncNextType, PTL DEF SyncSpec

LEMMA SyncStepIsOutboxStep ==
    SyncTypeOK /\ [SyncNext]_<<vars, syncVars>> => [Next]_vars
<1> SUFFICES ASSUME SyncTypeOK, [SyncNext]_<<vars, syncVars>>
             PROVE  [Next]_vars
  OBVIOUS
<1>1. ASSUME NEW r \in Requests, EnqueueEmployee(r)
      PROVE  Next
  BY <1>1, EnqueueIsOutbox DEF Next
<1> QED
  BY <1>1 DEF SyncNext, Next

\* The composition is a behaviour of the outbox: whatever the requests do, all that is proved
\* of the outbox holds.
THEOREM RequestsFeedTheOutbox == SyncSpec => Spec
<1>1. SyncInit => Init
  BY DEF SyncInit
<1> QED
  BY <1>1, SyncStepIsOutboxStep, SyncTypesCorrect, PTL DEF SyncSpec, Spec

(***************************************************************************)
(* What a step of the delivery loops can do to an employee: through the    *)
(* abstract channel, it applies an issued change, settles one, or disturbs.*)
(***************************************************************************)

LEMMA DeliveryIssuesNothing ==
    ASSUME DeliveryNext
    PROVE  UNCHANGED <<issued, last>>
BY DEF DeliveryNext, ClaimDue, WorkerStep, Send, SendSucceeds, SendFails, MarkDelivered,
       ReleaseSuperseded, MarkFailed, ReleaseNewer, AbandonPass, LeaseExpires, BackoffEnds,
       Receive

LEMMA DeliveryOnChannel ==
    ASSUME IInv, DeliveryNext
    PROVE  \/ UNCHANGED channelVars
           \/ \E e \in Employees :
                \/ \E m \in Stamps : Channel!Apply(e, m)
                \/ Channel!Settle(e)
                \/ Channel!Disturb(e)
<1>1. [Channel!Next]_channelVars
  BY StepChannel DEF Next
<1>2. ASSUME NEW e \in Employees, NEW m \in Stamps, Channel!Submit(e, m)
      PROVE  FALSE
  <2>1. issued \in [Employees -> SUBSET Stamps] /\ issued' = issued
    BY DeliveryIssuesNothing DEF IInv, TypeOK
  <2>2. m \notin issued[e] /\ issued' = [issued EXCEPT ![e] = @ \union {m}]
    BY <1>2 DEF Channel!Submit
  <2> QED
    BY <2>1, <2>2
<1> QED
  BY <1>1, <1>2 DEF Channel!Next

\* The change that id-sync will hold once the queue has drained.
Message(e) == IF row[e] # NoRow THEN row[e].msg ELSE registry[e]

LEMMA PendingIsMessage == \A e \in Employees : Pending(e) = content[Message(e)]
BY DEF Pending, Message

LEMMA NumbersOf ==
    ASSUME TypeOK, NEW e \in Employees
    PROVE  registry[e] \in Nat /\ last[e] \in Nat /\ issued[e] \subseteq Nat
<1>1. /\ registry[e] \in Stamps \union {0} /\ last[e] \in Stamps \union {0}
      /\ issued[e] \subseteq Stamps
  BY DEF TypeOK
<1>2. Stamps \union {0} \subseteq Nat
  BY StampsAssumption
<1> QED
  BY <1>1, <1>2

LEMMA MessageIsKnown ==
    ASSUME IInv, NEW e \in Employees, registry[e] \in issued[e] \union {0}
    PROVE  Message(e) \in issued[e] \union {0}
BY DEF IInv, OnlyIssuedCirculates, Message

LEMMA MessageOfUndisturbed ==
    ASSUME IInv, NEW e \in Employees \ stolen
    PROVE  Message(e) = IF e \in Owed THEN last[e] ELSE registry[e]
BY DEF IInv, LatestNeverLost, Message, Owed

LEMMA DeliveryKeepsRegistryIssued ==
    ASSUME IInv, DeliveryNext, NEW e \in Employees, registry[e] \in issued[e] \union {0}
    PROVE  registry'[e] \in issued'[e] \union {0}
<1>1. registry \in [Employees -> Stamps \union {0}] /\ issued' = issued
  BY DeliveryIssuesNothing DEF IInv, TypeOK
<1>2. registry'[e] = registry[e] \/ registry'[e] \in issued[e]
  BY <1>1, DeliveryOnChannel DEF Channel!Apply, Channel!Settle, Channel!Disturb, channelVars
<1> QED
  BY <1>1, <1>2

LEMMA DeliveryKeepsMessage ==
    ASSUME IInv, IInv', DeliveryNext, NEW e \in Employees \ stolen',
           registry[e] \in issued[e] \union {0}, \A m \in issued[e] : m <= last[e]
    PROVE  e \notin stolen /\ Message(e)' = Message(e)
<1>1. /\ registry \in [Employees -> Stamps \union {0}]
      /\ issued \in [Employees -> SUBSET Stamps] /\ last \in [Employees -> Stamps \union {0}]
      /\ UNCHANGED <<issued, last>>
  BY DeliveryIssuesNothing DEF IInv, TypeOK
<1>2. registry[e] \in Nat /\ last[e] \in Nat /\ issued[e] \subseteq Nat
  BY NumbersOf DEF IInv
<1>3. e \notin stolen
  BY DeliveryOnChannel DEF Channel!Apply, Channel!Settle, Channel!Disturb, channelVars
<1>4. /\ Message(e) = IF e \in Owed THEN last[e] ELSE registry[e]
      /\ Message(e)' = IF e \in Owed' THEN last[e] ELSE registry'[e]
  <2>1. Message(e) = IF e \in Owed THEN last[e] ELSE registry[e]
    BY <1>3, MessageOfUndisturbed
  <2>2. Message(e)' = IF e \in Owed' THEN last'[e] ELSE registry'[e]
    BY DEF IInv, LatestNeverLost, Message, Owed
  <2> QED
    BY <1>1, <2>1, <2>2
<1>5. e \notin Owed => registry[e] >= last[e]
  BY <1>3 DEF IInv, LatestNeverLost, Owed
<1>6. CASE UNCHANGED channelVars
  BY <1>4, <1>6 DEF channelVars
<1>7. ASSUME NEW f \in Employees, NEW m \in Stamps, Channel!Apply(f, m)
      PROVE  Message(e)' = Message(e)
  <2>1. Owed' = Owed /\ m \in issued[f] /\ m > registry[f]
        /\ registry' = [registry EXCEPT ![f] = m]
    BY <1>7 DEF Channel!Apply, Owed
  <2>2. CASE e \in Owed
    BY <1>4, <2>1, <2>2
  <2>3. CASE e \notin Owed
    <3>1. f # e
      BY <1>2, <1>5, <2>1, <2>3
    <3> QED
      BY <1>1, <1>4, <2>1, <2>3, <3>1
  <2> QED
    BY <2>2, <2>3
<1>8. ASSUME NEW f \in Employees, Channel!Settle(f)
      PROVE  Message(e)' = Message(e)
  <2>1. /\ Owed' = Owed \ {f} /\ registry' = registry
        /\ registry[f] >= last[f] \/ f \in stolen
    BY <1>8 DEF Channel!Settle, Owed
  <2>2. CASE f = e
    <3>1. registry[e] = last[e]
      BY <1>2, <1>3, <2>1, <2>2
    <3> QED
      BY <1>4, <2>1, <3>1
  <2>3. CASE f # e
    BY <1>4, <2>1, <2>3
  <2> QED
    BY <2>2, <2>3
<1>9. ASSUME NEW f \in Employees, Channel!Disturb(f)
      PROVE  Message(e)' = Message(e)
  <2>1. Owed' = Owed /\ registry' = registry
    BY <1>9 DEF Channel!Disturb, Owed
  <2> QED
    BY <1>4, <2>1
<1> QED
  BY <1>3, <1>6, <1>7, <1>8, <1>9, DeliveryOnChannel

(***************************************************************************)
(* The requests: who is writing which employee.                            *)
(***************************************************************************)

\* A request that is not idle names an employee.
LEMMA Shape ==
    ASSUME SyncTypeOK, NEW r \in Requests
    PROVE  /\ request[r] = Idle <=> request[r].stage = "idle"
           /\ request[r] # Idle => request[r].emp \in Employees /\ request[r].clean \in BOOLEAN
BY DEF SyncTypeOK, Idle, Arrived, Written, Stamped

\* A clean request is the only one on its employee.
LEMMA CleanIsAlone ==
    ASSUME SyncTypeOK, OverlapsAreKnown, NEW r \in Requests, NEW s \in Requests,
           request[r] # Idle, request[s] # Idle, request[r].emp = request[s].emp,
           request[r].clean
    PROVE  s = r
<1>1. request[r].emp \in Employees
  BY Shape
<1>2. r \in Writing(request[r].emp) /\ s \in Writing(request[r].emp)
  BY DEF Writing
<1> QED
  BY <1>1, <1>2 DEF OverlapsAreKnown

\* A request that goes on, with its employee and its overlaps as they were.
LEMMA GoingOn ==
    ASSUME OverlapsAreKnown, NEW r \in Requests, request[r] # Idle,
           request'[r] # Idle, request'[r].emp = request[r].emp,
           request'[r].clean = request[r].clean,
           \A s \in Requests \ {r} : request'[s] = request[s], raced' = raced
    PROVE  OverlapsAreKnown' /\ \A e \in Employees : Writing(e)' = Writing(e)
<1>1. \A e \in Employees : Writing(e)' = Writing(e)
  BY DEF Writing
<1>2. ASSUME NEW e \in Employees, NEW s \in Writing(e)
      PROVE  IF request'[s].clean THEN Writing(e) = {s} ELSE e \in raced
  <2>1. s \in Requests /\ request'[s].clean = request[s].clean
    BY DEF Writing
  <2> QED
    BY <2>1 DEF OverlapsAreKnown
<1> QED
  BY <1>1, <1>2 DEF OverlapsAreKnown

\* A request that ends.
LEMMA Ending ==
    ASSUME SyncTypeOK, OverlapsAreKnown, NEW r \in Requests, request[r] # Idle,
           GoIdle(r), raced' = raced \/ (request[r].clean /\ raced' = raced \ {request[r].emp})
    PROVE  /\ OverlapsAreKnown'
           /\ request'[r] = Idle /\ \A s \in Requests \ {r} : request'[s] = request[s]
           /\ \A e \in Employees : Writing(e)' = Writing(e) \ {r}
<1>1. request'[r] = Idle /\ \A s \in Requests \ {r} : request'[s] = request[s]
  BY DEF GoIdle, SyncTypeOK
<1>2. \A e \in Employees : Writing(e)' = Writing(e) \ {r}
  BY <1>1 DEF Writing
<1>3. ASSUME NEW e \in Employees, NEW s \in Writing(e) \ {r}
      PROVE  IF request'[s].clean THEN Writing(e) \ {r} = {s} ELSE e \in raced'
  <2>1. s \in Requests /\ request'[s] = request[s] /\ request[s] # Idle /\ request[s].emp = e
    BY <1>1 DEF Writing
  <2>2. CASE request[s].clean
    <3>1. Writing(e) = {s}
      BY <2>2 DEF OverlapsAreKnown
    <3> QED
      BY <2>1, <2>2, <3>1
  <2>3. CASE ~request[s].clean
    <3>1. e \in raced
      BY <2>3 DEF OverlapsAreKnown
    <3>2. request[r].clean => e # request[r].emp
      BY <2>1, CleanIsAlone
    <3> QED
      BY <2>1, <2>3, <3>1, <3>2
  <2> QED
    BY <2>2, <2>3
<1>4. OverlapsAreKnown'
  BY <1>2, <1>3 DEF OverlapsAreKnown
<1> QED
  BY <1>1, <1>2, <1>4

\* What a request that arrives does to the others.
Arrival(r, e, kind) ==
    /\ request'[r] = [stage |-> kind, emp |-> e, clean |-> Writing(e) = {}]
    /\ \A s \in Writing(e) : /\ s # r /\ request'[s] # Idle
                             /\ request'[s].stage = request[s].stage
                             /\ request'[s].emp = e
                             /\ request'[s].clean = FALSE
                             /\ request[s].stage = "stamped" => request'[s].stamp = request[s].stamp
    /\ \A s \in Requests \ (Writing(e) \union {r}) : request'[s] = request[s]
    /\ \A f \in Employees : Writing(f)' = IF f = e THEN Writing(e) \union {r} ELSE Writing(f)

LEMMA Arriving ==
    ASSUME SyncTypeOK, NEW r \in Requests, NEW e \in Employees,
           NEW kind \in {"replace", "patch", "remove"}, Arrive(r, e, kind)
    PROVE  Arrival(r, e, kind)
<1>1. request'[r] = [stage |-> kind, emp |-> e, clean |-> Writing(e) = {}]
  BY DEF Arrive
<1>2. request'[r] # Idle
  BY <1>1 DEF Idle
<1>3. ASSUME NEW s \in Writing(e)
      PROVE  /\ s # r /\ request'[s] # Idle
             /\ request'[s].stage = request[s].stage
             /\ request'[s].emp = e
             /\ request'[s].clean = FALSE
             /\ request[s].stage = "stamped" => request'[s].stamp = request[s].stamp
  <2>1. s \in Requests /\ request[s] # Idle /\ request[s].emp = e /\ s # r
    BY DEF Writing, Arrive
  <2>2. request'[s] = [request[s] EXCEPT !.clean = FALSE]
    BY <2>1 DEF Arrive
  <2>3. request[s] \in Arrived \union Written \union Stamped
    BY <2>1 DEF SyncTypeOK
  <2> QED
    BY <2>1, <2>2, <2>3 DEF Arrived, Written, Stamped, Idle
<1>4. \A s \in Requests \ (Writing(e) \union {r}) : request'[s] = request[s]
  BY DEF Arrive
<1>5. \A f \in Employees : Writing(f)' = IF f = e THEN Writing(e) \union {r} ELSE Writing(f)
  <2>1. request[r] = Idle
    BY DEF Arrive
  <2>2. request'[r].emp = e
    BY <1>1
  <2>3. \A s \in Writing(e) : s \in Requests /\ request[s] # Idle /\ request[s].emp = e
    BY DEF Writing
  <2>4. ASSUME NEW f \in Employees, NEW s \in Requests
        PROVE  s \in Writing(f)' <=> (s \in Writing(f) \/ (f = e /\ s = r))
    <3>1. s \in Writing(f)' <=> request'[s] # Idle /\ request'[s].emp = f
      BY DEF Writing
    <3>2. s \in Writing(f) <=> request[s] # Idle /\ request[s].emp = f
      BY DEF Writing
    <3>3. CASE s = r
      BY <1>2, <2>1, <2>2, <3>1, <3>2, <3>3
    <3>4. CASE s \in Writing(e)
      BY <1>3, <2>3, <3>1, <3>2, <3>4
    <3>5. CASE s \notin Writing(e) \union {r}
      BY <1>4, <3>1, <3>2, <3>5
    <3> QED
      BY <3>3, <3>4, <3>5
  <2>5. \A f \in Employees : Writing(f) \subseteq Requests /\ Writing(f)' \subseteq Requests
    BY DEF Writing
  <2> QED
    BY <2>4, <2>5
<1> QED
  BY <1>1, <1>3, <1>4, <1>5 DEF Arrival

(***************************************************************************)
(* Every step of a request keeps the invariant.                            *)
(***************************************************************************)

SyncFacts == /\ OverlapsAreKnown
             /\ StampsGrow
             /\ LastIsNewest
             /\ CleanTellsStored
             /\ ConvergesUntilWritten

LEMMA PendingStands ==
    ASSUME UNCHANGED vars, content' = content
    PROVE  \A e \in Employees : Pending(e)' = Pending(e)
BY DEF Pending, vars

LEMMA ArriveFacts ==
    ASSUME SyncTypeOK, SyncFacts, NEW r \in Requests, NEW e \in Employees,
           NEW kind \in {"replace", "patch", "remove"}, Arrive(r, e, kind), UNCHANGED vars
    PROVE  SyncFacts'
<1>1. /\ request[r] = Idle
      /\ raced' = IF Writing(e) = {} THEN raced ELSE raced \union {e}
      /\ UNCHANGED <<employees, content, clock, dropped>>
  BY DEF Arrive
<1>2. /\ request'[r].stage = kind /\ request'[r].clean = (Writing(e) = {})
      /\ \A s \in Writing(e) : /\ s # r
                               /\ request'[s].stage = request[s].stage
                               /\ request'[s].clean = FALSE
                               /\ request[s].stage = "stamped" => request'[s].stamp = request[s].stamp
      /\ \A s \in Requests : s \in Writing(e) \/ s = r \/ request'[s] = request[s]
      /\ \A f \in Employees : Writing(f)' = IF f = e THEN Writing(e) \union {r} ELSE Writing(f)
  <2>1. Arrival(r, e, kind)
    BY Arriving
  <2> QED
    BY <2>1 DEF Arrival
<1>3. OverlapsAreKnown'
  <2>1. ASSUME NEW f \in Employees, NEW s \in Writing(f)'
        PROVE  IF request'[s].clean THEN Writing(f)' = {s} ELSE f \in raced'
    <3>1. CASE f # e
      <4>1. Writing(f)' = Writing(f) /\ s \in Writing(f)
        BY <3>1, <1>2
      <4>2. request'[s] = request[s]
        BY <1>1, <1>2, <3>1, <4>1 DEF Writing
      <4> QED
        BY <1>1, <4>1, <4>2 DEF SyncFacts, OverlapsAreKnown
    <3>2. CASE f = e /\ s = r
      BY <1>1, <3>2, <1>2
    <3>3. CASE f = e /\ s # r
      <4>1. s \in Writing(e) /\ request'[s].clean = FALSE
        BY <3>3, <1>2
      <4> QED
        BY <1>1, <3>3, <4>1
    <3> QED
      BY <3>1, <3>2, <3>3
  <2> QED
    BY <2>1 DEF OverlapsAreKnown
<1>4. StampsGrow'
  <2>1. ASSUME NEW s \in Requests, request'[s].stage = "stamped"
        PROVE  /\ request'[s].stamp <= clock
               /\ request'[s].clean => \A m \in issued[request'[s].emp] : m < request'[s].stamp
    <3>1. CASE s = r
      BY <2>1, <3>1, <1>2
    <3>2. CASE s \in Writing(e)
      <4>1. request[s].stage = "stamped" /\ request'[s].stamp = request[s].stamp
            /\ request'[s].clean = FALSE
        BY <2>1, <3>2, <1>2
      <4> QED
        BY <4>1 DEF SyncFacts, StampsGrow
    <3>3. CASE request'[s] = request[s]
      BY <2>1, <3>3 DEF SyncFacts, StampsGrow
    <3> QED
      BY <1>2, <3>1, <3>2, <3>3
  <2> QED
    BY <1>1, <2>1 DEF SyncFacts, StampsGrow, vars
<1>5. LastIsNewest'
  BY <1>1 DEF SyncFacts, LastIsNewest, vars
<1>6. CleanTellsStored'
  <2>1. ASSUME NEW s \in Requests
        PROVE  /\ request'[s].stage = "written" /\ request'[s].clean
                    => request'[s].says = employees[request'[s].emp]
               /\ request'[s].stage = "stamped" /\ request'[s].clean
                    => content[request'[s].stamp] = employees[request'[s].emp]
    <3>1. CASE s = r
      BY <3>1, <1>2
    <3>2. CASE s \in Writing(e)
      BY <3>2, <1>2
    <3>3. CASE request'[s] = request[s]
      BY <3>3 DEF SyncFacts, CleanTellsStored
    <3> QED
      BY <1>2, <3>1, <3>2, <3>3
  <2> QED
    BY <1>1, <2>1 DEF CleanTellsStored
<1>7. ConvergesUntilWritten'
  <2>1. ASSUME NEW f \in Employees \ (stolen \union raced' \union dropped),
               \A s \in Writing(f)' : request'[s].stage \notin {"written", "stamped"}
        PROVE  Pending(f) = employees[f]
    <3>1. f \in Employees \ (stolen \union raced \union dropped)
      BY <1>1
    <3>2. \A s \in Writing(f) : request[s].stage \notin {"written", "stamped"}
      <4>1. CASE f = e
        BY <1>1, <4>1
      <4>2. CASE f # e
        <5>1. Writing(f)' = Writing(f)
          BY <4>2, <1>2
        <5>2. \A s \in Writing(f) : request'[s] = request[s]
          BY <1>1, <1>2, <4>2 DEF Writing
        <5> QED
          BY <2>1, <5>1, <5>2
      <4> QED
        BY <4>1, <4>2
    <3> QED
      BY <3>1, <3>2 DEF SyncFacts, ConvergesUntilWritten
  <2>2. \A f \in Employees : Pending(f)' = Pending(f)
    BY <1>1, PendingStands
  <2> QED
    BY <1>1, <2>1, <2>2 DEF ConvergesUntilWritten, vars
<1> QED
  BY <1>3, <1>4, <1>5, <1>6, <1>7 DEF SyncFacts

\* A request that ends without an enqueue: it had written nothing, or the employee is marked.
LEMMA EndFacts ==
    ASSUME SyncTypeOK, SyncFacts, NEW r \in Requests, request[r] # Idle, GoIdle(r),
           UNCHANGED <<employees, content, clock, raced>>, UNCHANGED vars,
           \/ request[r].stage \notin {"written", "stamped"} /\ dropped' = dropped
           \/ dropped' = dropped \union {request[r].emp}
    PROVE  SyncFacts'
<1>1. /\ OverlapsAreKnown'
      /\ request'[r] = Idle /\ \A s \in Requests \ {r} : request'[s] = request[s]
      /\ \A e \in Employees : Writing(e)' = Writing(e) \ {r}
  BY Ending DEF SyncFacts
<1>2. StampsGrow'
  BY <1>1 DEF SyncFacts, StampsGrow, Idle, vars
<1>3. LastIsNewest'
  BY DEF SyncFacts, LastIsNewest, vars
<1>4. CleanTellsStored'
  BY <1>1 DEF SyncFacts, CleanTellsStored, Idle
<1>5. ConvergesUntilWritten'
  <2>1. ASSUME NEW f \in Employees \ (stolen \union raced \union dropped'),
               \A s \in Writing(f)' : request'[s].stage \notin {"written", "stamped"}
        PROVE  Pending(f) = employees[f]
    <3>1. f \in Employees \ (stolen \union raced \union dropped)
      OBVIOUS
    <3>2. ASSUME NEW s \in Writing(f)
          PROVE  request[s].stage \notin {"written", "stamped"}
      <4>1. s \in Requests /\ request[s].emp = f
        BY DEF Writing
      <4>2. CASE s = r
        BY <4>1, <4>2
      <4>3. CASE s # r
        BY <1>1, <2>1, <4>1, <4>3
      <4> QED
        BY <4>2, <4>3
    <3> QED
      BY <3>1, <3>2 DEF SyncFacts, ConvergesUntilWritten
  <2>2. \A f \in Employees : Pending(f)' = Pending(f)
    BY PendingStands
  <2> QED
    BY <2>1, <2>2 DEF ConvergesUntilWritten, vars
<1> QED
  BY <1>1, <1>2, <1>3, <1>4, <1>5 DEF SyncFacts

\* A request that reads the employee before it writes.
LEMMA GotoFacts ==
    ASSUME SyncTypeOK, SyncFacts, NEW r \in Requests, NEW stage \in {"patching", "removing"},
           request[r] \in Arrived, Goto(r, stage),
           UNCHANGED <<employees, content, clock, raced, dropped>>, UNCHANGED vars
    PROVE  SyncFacts'
<1>1. /\ request[r] # Idle /\ request[r].stage \notin {"written", "stamped"}
      /\ request'[r] # Idle /\ request'[r].stage = stage
      /\ request'[r].emp = request[r].emp /\ request'[r].clean = request[r].clean
      /\ \A s \in Requests \ {r} : request'[s] = request[s]
  BY DEF Goto, SyncTypeOK, Arrived, Idle
<1>2. OverlapsAreKnown' /\ \A e \in Employees : Writing(e)' = Writing(e)
  BY <1>1, GoingOn DEF SyncFacts
<1>3. StampsGrow'
  <2>1. ASSUME NEW s \in Requests, request'[s].stage = "stamped"
        PROVE  request'[s] = request[s]
    BY <1>1, <2>1
  <2> QED
    BY <2>1 DEF SyncFacts, StampsGrow, vars
<1>4. LastIsNewest'
  BY DEF SyncFacts, LastIsNewest, vars
<1>5. CleanTellsStored'
  <2>1. ASSUME NEW s \in Requests, request'[s].stage \in {"written", "stamped"}
        PROVE  request'[s] = request[s]
    BY <1>1, <2>1
  <2> QED
    BY <2>1 DEF SyncFacts, CleanTellsStored
<1>6. ConvergesUntilWritten'
  <2>1. ASSUME NEW f \in Employees \ (stolen \union raced \union dropped),
               \A s \in Writing(f) : request'[s].stage \notin {"written", "stamped"}
        PROVE  Pending(f) = employees[f]
    <3>1. \A s \in Writing(f) : request[s].stage \notin {"written", "stamped"}
      BY <1>1, <2>1 DEF Writing
    <3> QED
      BY <3>1 DEF SyncFacts, ConvergesUntilWritten
  <2>2. \A f \in Employees : Pending(f)' = Pending(f)
    BY PendingStands
  <2> QED
    BY <1>2, <2>1, <2>2 DEF ConvergesUntilWritten, vars
<1> QED
  BY <1>2, <1>3, <1>4, <1>5, <1>6 DEF SyncFacts

LEMMA WriteFacts ==
    ASSUME SyncTypeOK, SyncFacts, NEW r \in Requests, NEW says, request[r] \in Arrived,
           Write(r, says), UNCHANGED vars
    PROVE  SyncFacts'
<1> DEFINE e == request[r].emp
<1>1. /\ request[r] # Idle /\ e \in Employees
      /\ request'[r] = [stage |-> "written", emp |-> e, clean |-> request[r].clean, says |-> says]
      /\ \A s \in Requests \ {r} : request'[s] = request[s]
      /\ employees'[e] = says /\ \A f \in Employees \ {e} : employees'[f] = employees[f]
      /\ UNCHANGED <<content, clock, raced, dropped>>
  BY DEF Write, SyncTypeOK, Arrived, Idle
<1>2. /\ request'[r] # Idle /\ request'[r].stage = "written"
      /\ request'[r].emp = e /\ request'[r].clean = request[r].clean
  BY <1>1 DEF Idle
<1>3. OverlapsAreKnown' /\ \A f \in Employees : Writing(f)' = Writing(f)
  BY <1>1, <1>2, GoingOn DEF SyncFacts
<1>4. StampsGrow'
  <2>1. ASSUME NEW s \in Requests, request'[s].stage = "stamped"
        PROVE  request'[s] = request[s]
    BY <1>1, <1>2, <2>1
  <2> QED
    BY <1>1, <2>1 DEF SyncFacts, StampsGrow, vars
<1>5. LastIsNewest'
  BY <1>1 DEF SyncFacts, LastIsNewest, vars
<1>6. CleanTellsStored'
  <2>1. ASSUME NEW s \in Requests, request'[s].stage \in {"written", "stamped"}, request'[s].clean
        PROVE  /\ request'[s].stage = "written" => request'[s].says = employees'[request'[s].emp]
               /\ request'[s].stage = "stamped"
                    => content'[request'[s].stamp] = employees'[request'[s].emp]
    <3>1. CASE s = r
      BY <1>1, <3>1
    <3>2. CASE s # r
      <4>1. request'[s] = request[s] /\ request[s] # Idle
        BY <1>1, <2>1, <3>2 DEF Idle
      <4>2. request[s].emp # e
        BY <1>1, <2>1, <3>2, <4>1, CleanIsAlone DEF SyncFacts
      <4>3. employees'[request[s].emp] = employees[request[s].emp]
        BY <1>1, <4>1, <4>2, Shape
      <4> QED
        BY <1>1, <2>1, <4>1, <4>3 DEF SyncFacts, CleanTellsStored
    <3> QED
      BY <3>1, <3>2
  <2> QED
    BY <2>1 DEF CleanTellsStored
<1>7. ConvergesUntilWritten'
  <2>1. ASSUME NEW f \in Employees \ (stolen \union raced \union dropped),
               \A s \in Writing(f) : request'[s].stage \notin {"written", "stamped"}
        PROVE  Pending(f) = employees'[f]
    <3>1. f # e
      BY <1>1, <1>2, <2>1 DEF Writing
    <3>2. \A s \in Writing(f) : request[s].stage \notin {"written", "stamped"}
      BY <1>1, <2>1, <3>1 DEF Writing
    <3> QED
      BY <1>1, <3>1, <3>2 DEF SyncFacts, ConvergesUntilWritten
  <2>2. \A f \in Employees : Pending(f)' = Pending(f)
    BY <1>1, PendingStands
  <2> QED
    BY <1>1, <1>3, <2>1, <2>2 DEF ConvergesUntilWritten, vars
<1> QED
  BY <1>3, <1>4, <1>5, <1>6, <1>7 DEF SyncFacts

LEMMA StampFacts ==
    ASSUME IInv, SyncTypeOK, SyncFacts, NEW r \in Requests, Stamp(r), UNCHANGED vars
    PROVE  SyncFacts'
<1> DEFINE e == request[r].emp
           now == clock + 1
<1>1. request[r] \in Written
  BY DEF Stamp, SyncTypeOK, Idle, Arrived, Written, Stamped
<1>2. /\ request[r] # Idle /\ e \in Employees /\ request[r].stage = "written"
      /\ request'[r] = [stage |-> "stamped", emp |-> e, clean |-> request[r].clean, stamp |-> now]
      /\ \A s \in Requests \ {r} : request'[s] = request[s]
      /\ clock' = now /\ UNCHANGED <<employees, raced, dropped>>
  BY <1>1 DEF Stamp, SyncTypeOK, Written, Idle
<1>3. /\ request'[r] # Idle /\ request'[r].stage = "stamped"
      /\ request'[r].emp = e /\ request'[r].clean = request[r].clean /\ request'[r].stamp = now
  BY <1>2 DEF Idle
<1>4. clock \in Nat
  BY StampIsNat DEF SyncTypeOK
<1>5. /\ content'[now] = request[r].says
      /\ \A m \in Stamps \union {0} : m <= clock => content'[m] = content[m]
  BY <1>4, StampIsNat DEF Stamp, SyncTypeOK
<1>6. OverlapsAreKnown' /\ \A f \in Employees : Writing(f)' = Writing(f)
  BY <1>2, <1>3, GoingOn DEF SyncFacts
<1>7. \A f \in Employees : \A m \in issued[f] : m \in Nat /\ m <= clock /\ m <= now /\ m < now
  <2>1. \A f \in Employees : \A m \in issued[f] : m \in Nat /\ m <= clock
    BY NumbersOf DEF SyncTypeOK, SyncFacts, StampsGrow
  <2> QED
    BY <1>4, <2>1
<1>8. ASSUME NEW s \in Requests, s # r, request[s].stage = "stamped"
      PROVE  /\ request[s].stamp \in Stamps /\ request[s].stamp <= clock /\ request[s].stamp <= now
             /\ content'[request[s].stamp] = content[request[s].stamp]
  <2>1. request[s].stamp \in Stamps /\ request[s].stamp <= clock
    BY <1>8 DEF SyncTypeOK, Idle, Arrived, Written, Stamped, SyncFacts, StampsGrow
  <2>2. request[s].stamp \in Nat
    BY <2>1, StampIsNat
  <2> QED
    BY <1>4, <1>5, <2>1, <2>2
<1>9. StampsGrow'
  <2>1. ASSUME NEW s \in Requests, request'[s].stage = "stamped"
        PROVE  /\ request'[s].stamp <= now
               /\ request'[s].clean => \A m \in issued[request'[s].emp] : m < request'[s].stamp
    <3>1. CASE s = r
      BY <1>2, <1>3, <1>4, <1>7, <3>1
    <3>2. CASE s # r
      BY <1>2, <1>8, <2>1, <3>2 DEF SyncFacts, StampsGrow
    <3> QED
      BY <3>1, <3>2
  <2> QED
    BY <1>2, <1>7, <2>1 DEF SyncFacts, StampsGrow, vars
<1>10. LastIsNewest'
  BY <1>2 DEF SyncFacts, LastIsNewest, vars
<1>11. CleanTellsStored'
  <2>1. ASSUME NEW s \in Requests, request'[s].stage \in {"written", "stamped"}, request'[s].clean
        PROVE  /\ request'[s].stage = "written" => request'[s].says = employees[request'[s].emp]
               /\ request'[s].stage = "stamped"
                    => content'[request'[s].stamp] = employees[request'[s].emp]
    <3>1. CASE s = r
      BY <1>2, <1>3, <1>5, <2>1, <3>1 DEF SyncFacts, CleanTellsStored
    <3>2. CASE s # r
      BY <1>2, <1>8, <2>1, <3>2 DEF SyncFacts, CleanTellsStored
    <3> QED
      BY <3>1, <3>2
  <2> QED
    BY <1>2, <2>1 DEF CleanTellsStored
<1>12. ASSUME NEW f \in Employees
       PROVE  Pending(f)' = Pending(f)
  <2>1. Message(f) \in issued[f] \union {0}
    BY MessageIsKnown DEF SyncFacts, StampsGrow
  <2>2. Message(f) \in Stamps \union {0} /\ Message(f) <= clock
    <3>1. issued[f] \subseteq Stamps
      BY DEF SyncTypeOK, TypeOK
    <3>2. CASE Message(f) \in issued[f]
      BY <1>7, <3>1, <3>2
    <3>3. CASE Message(f) = 0
      BY <1>4, <3>3
    <3> QED
      BY <2>1, <3>2, <3>3
  <2>3. content'[Message(f)] = content[Message(f)]
    BY <1>5, <2>2
  <2> QED
    BY <2>3 DEF Pending, Message, vars
<1>13. ConvergesUntilWritten'
  <2>1. ASSUME NEW f \in Employees \ (stolen \union raced \union dropped),
               \A s \in Writing(f) : request'[s].stage \notin {"written", "stamped"}
        PROVE  Pending(f) = employees[f]
    <3>1. f # e
      BY <1>2, <1>3, <2>1 DEF Writing
    <3>2. \A s \in Writing(f) : request[s].stage \notin {"written", "stamped"}
      BY <1>2, <2>1, <3>1 DEF Writing
    <3> QED
      BY <3>2 DEF SyncFacts, ConvergesUntilWritten
  <2> QED
    BY <1>2, <1>6, <1>12, <2>1 DEF ConvergesUntilWritten, vars
<1> QED
  BY <1>6, <1>9, <1>10, <1>11, <1>13 DEF SyncFacts

\* A clean request's enqueue ends what went wrong before it; an unclean one's employee stays marked.
LEMMA EnqueueEmployeeFacts ==
    ASSUME SyncTypeOK, SyncFacts, NEW r \in Requests, EnqueueEmployee(r)
    PROVE  SyncFacts'
<1> DEFINE e == request[r].emp
           m == request[r].stamp
<1>1. /\ request[r] \in Stamped /\ e \in Employees /\ m \in Stamps /\ m \in Nat
      /\ request[r] # Idle /\ r \in Writing(e)
      /\ Enqueue(e, m) /\ GoIdle(r) /\ UNCHANGED <<employees, content, clock>>
      /\ raced' = IF request[r].clean THEN raced \ {e} ELSE raced
      /\ dropped' = IF request[r].clean THEN dropped \ {e} ELSE dropped
  <2>1. request[r] \in Stamped /\ e \in Employees /\ m \in Stamps /\ Enqueue(e, m)
    BY EnqueueIsOutbox
  <2>2. m \in Nat
    BY <2>1, StampIsNat
  <2>3. request[r] # Idle
    BY <2>1 DEF Stamped, Idle
  <2> QED
    BY <2>1, <2>2, <2>3 DEF EnqueueEmployee, Writing
<1>2. /\ OverlapsAreKnown'
      /\ request'[r] = Idle /\ \A s \in Requests \ {r} : request'[s] = request[s]
      /\ \A f \in Employees : Writing(f)' = Writing(f) \ {r}
  BY <1>1, Ending DEF SyncFacts
<1>3. /\ row'[e].msg = m /\ row'[e] # NoRow
      /\ \A f \in Employees \ {e} : row'[f] = row[f]
      /\ issued'[e] = issued[e] \union {m} /\ last'[e] = m
      /\ \A f \in Employees \ {e} : issued'[f] = issued[f] /\ last'[f] = last[f]
      /\ UNCHANGED <<registry, stolen>>
  <2>1. row'[e].msg = m /\ \A f \in Employees \ {e} : row'[f] = row[f]
    BY <1>1 DEF Enqueue, SyncTypeOK, TypeOK
  <2>2. row'[e] # NoRow
    BY <1>1, <2>1, StampIsNat DEF NoRow
  <2> QED
    BY <1>1, <2>1, <2>2 DEF Enqueue, SyncTypeOK, TypeOK
<1>4. request[r].clean => Writing(e) = {r} /\ (\A n \in issued[e] : n < m)
  BY <1>1 DEF SyncFacts, OverlapsAreKnown, StampsGrow, Stamped
<1>5. ~request[r].clean => e \in raced /\ e \in raced'
  BY <1>1 DEF SyncFacts, OverlapsAreKnown
<1>6. \A f \in Employees : issued[f] \subseteq Nat
  BY NumbersOf DEF SyncTypeOK
<1>7. StampsGrow'
  <2>1. m <= clock
    BY <1>1 DEF SyncFacts, StampsGrow, Stamped
  <2>2. ASSUME NEW f \in Employees
        PROVE  registry[f] \in issued'[f] \union {0} /\ \A n \in issued'[f] : n <= clock
    BY <1>3, <2>1 DEF SyncFacts, StampsGrow
  <2>3. ASSUME NEW s \in Requests, request'[s].stage = "stamped"
        PROVE  /\ request'[s].stamp <= clock
               /\ request'[s].clean => \A n \in issued'[request'[s].emp] : n < request'[s].stamp
    <3>1. s # r /\ request'[s] = request[s] /\ request[s] # Idle /\ request[s].emp \in Employees
      BY <1>2, <2>3, Shape DEF Idle
    <3>2. request[s].clean => request[s].emp # e
      BY <1>1, <3>1, CleanIsAlone DEF SyncFacts
    <3> QED
      BY <1>3, <2>3, <3>1, <3>2 DEF SyncFacts, StampsGrow
  <2> QED
    BY <1>1, <1>3, <2>2, <2>3 DEF StampsGrow
<1>8. LastIsNewest'
  <2>1. ASSUME NEW f \in Employees \ raced', NEW n \in issued'[f]
        PROVE  n <= last'[f]
    <3>1. CASE f = e
      <4>1. request[r].clean /\ last'[f] = m
        BY <1>3, <1>5, <2>1, <3>1
      <4>2. n = m \/ (n \in Nat /\ n < m)
        BY <1>3, <1>4, <1>6, <3>1, <4>1
      <4> QED
        BY <1>1, <4>1, <4>2
    <3>2. CASE f # e
      BY <1>1, <1>3, <2>1, <3>2 DEF SyncFacts, LastIsNewest
    <3> QED
      BY <3>1, <3>2
  <2> QED
    BY <2>1 DEF LastIsNewest
<1>9. CleanTellsStored'
  <2>1. ASSUME NEW s \in Requests, request'[s].stage \in {"written", "stamped"}
        PROVE  request'[s] = request[s]
    BY <1>2, <2>1 DEF Idle
  <2> QED
    BY <1>1, <2>1 DEF SyncFacts, CleanTellsStored
<1>10. ConvergesUntilWritten'
  <2>1. ASSUME NEW f \in Employees \ (stolen \union raced' \union dropped'),
               \A s \in Writing(f)' : request'[s].stage \notin {"written", "stamped"}
        PROVE  Pending(f)' = employees[f]
    <3>1. CASE f = e
      <4>1. request[r].clean
        BY <1>5, <2>1, <3>1
      <4>2. content[m] = employees[e]
        BY <1>1, <4>1 DEF SyncFacts, CleanTellsStored, Stamped
      <4>3. Pending(f)' = content'[row'[e].msg]
        BY <1>3, <3>1 DEF Pending
      <4> QED
        BY <1>1, <1>3, <3>1, <4>2, <4>3
    <3>2. CASE f # e
      <4>1. f \in Employees \ (stolen \union raced \union dropped)
        BY <1>1, <2>1, <3>2
      <4>2. r \notin Writing(f)
        BY <3>2 DEF Writing
      <4>3. \A s \in Writing(f) : request[s].stage \notin {"written", "stamped"}
        BY <1>2, <2>1, <4>2 DEF Writing
      <4>4. Pending(f) = employees[f]
        BY <4>1, <4>3 DEF SyncFacts, ConvergesUntilWritten
      <4> QED
        BY <1>1, <1>3, <3>2, <4>4 DEF Pending
    <3> QED
      BY <3>1, <3>2
  <2> QED
    BY <1>1, <1>3, <2>1 DEF ConvergesUntilWritten
<1> QED
  BY <1>2, <1>7, <1>8, <1>9, <1>10 DEF SyncFacts

\* The delivery loops leave the requests alone, and what is pending for an undisturbed employee.
LEMMA DeliveryFacts ==
    ASSUME IInv, IInv', SyncTypeOK, SyncFacts, DeliveryNext, UNCHANGED syncVars
    PROVE  SyncFacts'
<1>1. /\ UNCHANGED <<issued, last, employees, request, content, clock, raced, dropped>>
  BY DeliveryIssuesNothing DEF syncVars
<1>2. OverlapsAreKnown'
  BY <1>1 DEF SyncFacts, OverlapsAreKnown, Writing
<1>3. StampsGrow'
  <2>1. \A e \in Employees : registry'[e] \in issued'[e] \union {0}
    BY DeliveryKeepsRegistryIssued DEF SyncFacts, StampsGrow
  <2> QED
    BY <1>1, <2>1 DEF SyncFacts, StampsGrow
<1>4. LastIsNewest'
  BY <1>1 DEF SyncFacts, LastIsNewest
<1>5. CleanTellsStored'
  BY <1>1 DEF SyncFacts, CleanTellsStored
<1>6. ConvergesUntilWritten'
  <2>1. ASSUME NEW e \in Employees \ (stolen' \union raced \union dropped),
               \A s \in Writing(e) : request[s].stage \notin {"written", "stamped"}
        PROVE  Pending(e)' = employees[e]
    <3>1. registry[e] \in issued[e] \union {0} /\ \A n \in issued[e] : n <= last[e]
      BY DEF SyncFacts, StampsGrow, LastIsNewest
    <3>2. e \notin stolen /\ Message(e)' = Message(e)
      BY <3>1, DeliveryKeepsMessage
    <3>3. Pending(e) = employees[e]
      BY <2>1, <3>2 DEF SyncFacts, ConvergesUntilWritten
    <3> QED
      BY <1>1, <3>2, <3>3 DEF Pending, Message
  <2>2. \A e \in Employees : Writing(e)' = Writing(e)
    BY <1>1 DEF Writing
  <2> QED
    BY <1>1, <2>1, <2>2 DEF ConvergesUntilWritten
<1> QED
  BY <1>2, <1>3, <1>4, <1>5, <1>6 DEF SyncFacts

(***************************************************************************)
(* Convergence.                                                            *)
(***************************************************************************)

LEMMA SyncInitFacts == SyncInit => SyncFacts
<1> SUFFICES ASSUME SyncInit
             PROVE  SyncFacts
  OBVIOUS
<1>1. \A e \in Employees : Writing(e) = {}
  BY DEF SyncInit, Writing
<1>2. \A r \in Requests : request[r].stage \notin {"written", "stamped"}
  BY DEF SyncInit, Idle
<1>3. \A e \in Employees : issued[e] = {} /\ registry[e] = 0 /\ row[e] = NoRow
  BY DEF SyncInit, Init
<1> QED
  BY <1>1, <1>2, <1>3 DEF SyncFacts, OverlapsAreKnown, StampsGrow, LastIsNewest, CleanTellsStored,
                         ConvergesUntilWritten, Pending, SyncInit

LEMMA RequestFacts ==
    ASSUME IInv, SyncTypeOK, SyncFacts, NEW r \in Requests, RequestStep(r), UNCHANGED vars
    PROVE  SyncFacts'
<1>1. CASE \E e \in Employees, kind \in {"replace", "patch", "remove"} : Arrive(r, e, kind)
  BY <1>1, ArriveFacts
<1>2. ASSUME request[r].stage \in {"replace", "patch", "remove", "patching", "removing"}
      PROVE  request[r] \in Arrived /\ request[r] # Idle
             /\ request[r].stage \notin {"written", "stamped"}
  BY <1>2, StageOfArrived DEF Idle
<1>3. CASE Read(r)
  <2>1. CASE GoIdle(r)
    BY <1>2, <1>3, <2>1, EndFacts DEF Read
  <2>2. ASSUME NEW stage \in {"patching", "removing"}, Goto(r, stage)
        PROVE  SyncFacts'
    BY <1>2, <1>3, <2>2, GotoFacts DEF Read
  <2> QED
    BY <1>3, <2>1, <2>2 DEF Read
<1>4. CASE \E doc \in Profiles : Replace(r, doc) \/ Patch(r, doc)
  BY <1>2, <1>4, WriteFacts DEF Replace, Patch
<1>5. CASE Remove(r)
  <2>1. request[r] \in Arrived /\ request[r] # Idle
        /\ request[r].stage \notin {"written", "stamped"}
    BY <1>2, <1>5 DEF Remove
  <2>2. CASE Write(r, Absent)
    BY <2>1, <2>2, WriteFacts
  <2>3. CASE GoIdle(r) /\ UNCHANGED <<employees, content, clock, raced, dropped>>
    BY <2>1, <2>3, EndFacts
  <2> QED
    BY <1>5, <2>2, <2>3 DEF Remove
<1>6. CASE Stamp(r)
  BY <1>6, StampFacts
<1>7. CASE NeverEnqueued(r)
  <2>1. request[r] # Idle
    BY <1>7 DEF NeverEnqueued, Idle
  <2> QED
    BY <1>7, <2>1, EndFacts DEF NeverEnqueued
<1> QED
  BY <1>1, <1>3, <1>4, <1>5, <1>6, <1>7 DEF RequestStep

LEMMA SyncNextFacts ==
    ASSUME IInv, IInv', SyncTypeOK, SyncFacts, [SyncNext]_<<vars, syncVars>>
    PROVE  SyncFacts'
<1>1. ASSUME NEW r \in Requests, RequestStep(r), UNCHANGED vars
      PROVE  SyncFacts'
  BY <1>1, RequestFacts
<1>2. ASSUME NEW r \in Requests, EnqueueEmployee(r)
      PROVE  SyncFacts'
  BY <1>2, EnqueueEmployeeFacts
<1>3. CASE DeliveryNext /\ UNCHANGED syncVars
  BY <1>3, DeliveryFacts
<1>4. CASE UNCHANGED <<vars, syncVars>>
  BY <1>4 DEF SyncFacts, OverlapsAreKnown, StampsGrow, LastIsNewest, CleanTellsStored,
              ConvergesUntilWritten, Pending, Writing, vars, syncVars
<1> QED
  BY <1>1, <1>2, <1>3, <1>4 DEF SyncNext

\* However requests overlap, die or are swallowed: a clean request tells id-sync what the
\* table holds, with a stamp newer than any before it.
THEOREM SyncInvariance == SyncSpec => []SyncIInv
<1>1. SyncInit => SyncFacts
  BY SyncInitFacts
<1>2. IInv /\ IInv' /\ SyncTypeOK /\ SyncFacts /\ [SyncNext]_<<vars, syncVars>> => SyncFacts'
  BY SyncNextFacts
<1>3. SyncSpec => []IInv
  BY RequestsFeedTheOutbox, Invariance, PTL
<1>4. SyncTypeOK /\ SyncFacts => SyncIInv
  BY DEF SyncIInv, SyncFacts
<1> QED
  BY <1>1, <1>2, <1>3, <1>4, SyncTypesCorrect, PTL DEF SyncSpec

\* Between writes id-sync has, or is about to get, what Circle stores of an employee, unless
\* the last writes overlapped, one was never enqueued, or a claim was stolen.
THEOREM Convergence == SyncSpec => []ConvergesUnlessRaced
<1>1. SyncIInv => ConvergesUnlessRaced
  BY DEF SyncIInv, ConvergesUntilWritten, ConvergesUnlessRaced
<1> QED
  BY <1>1, SyncInvariance, PTL
=============================================================================
