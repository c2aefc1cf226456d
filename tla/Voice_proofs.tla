---------------------------- MODULE Voice_proofs ----------------------------
(*************************************************************************)
(* Proofs about ScreeningCalls for any calls, any number of threads that *)
(* start calls and handle webhooks, any reported statuses and outcomes; and *)
(* about VoiceBridge for any number of frames, transcripts and waiting   *)
(* messages and any size of a chunk.                                     *)
(*************************************************************************)
EXTENDS ScreeningCalls, VoiceBridge, FiniteSetTheorems, SequenceTheorems, TLAPS

(*************************************************************************)
(* A screening call.                                                     *)
(*************************************************************************)

(***************************************************************************)
(* What the records of a thread hold.                                      *)
(***************************************************************************)

\* What a thread that starts a call knows.
LEMMA StarterFields ==
    ASSUME CallTypeOK, NEW s \in Starters
    PROVE  /\ Bound(s) => starter[s].call \in Calls
           /\ starter[s].stage = "binding" => starter[s].copy \in Row
           /\ starter[s].stage \in {"inserted", "placed", "rejected"} =>
                starter[s] = [stage |-> starter[s].stage, call |-> starter[s].call]
<1>1. starter[s] \in Starting
  BY DEF CallTypeOK
<1> QED
  BY <1>1 DEF Starting, Free, Bound

\* What a webhook handler that goes on with a call holds.
LEMMA HookFields ==
    ASSUME CallTypeOK, NEW h \in Hooks, hook[h] # Free
    PROVE  /\ hook[h].stage = "holding"
           /\ hook[h].event \in Event /\ hook[h].event.call \in Calls
           /\ hook[h].event.says \in Reported \union Outcomes
           /\ hook[h].copy \in Row
<1>1. hook[h] \in Handling
  BY DEF CallTypeOK
<1> QED
  BY <1>1 DEF Handling, Free, Event

\* An idle thread is at no stage that a step starts from.
LEMMA IdleStage ==
    /\ Free.stage = "idle"
    /\ \A c \in Calls : [stage |-> "inserted", call |-> c] # Free
BY DEF Free

\* No call has a status that it should not, and none is over and under way at once.
LEMMA Statuses ==
    /\ QUEUED \in ACTIVE_STATUSES /\ FAILED \in TERMINAL_STATUSES
    /\ ACTIVE_STATUSES \intersect TERMINAL_STATUSES = {}
    /\ NoCall.status \notin ACTIVE_STATUSES /\ NoCall.status \notin TERMINAL_STATUSES
    /\ NoCall \notin Row
    /\ \A ev \in Event : ev.says \in ACTIVE_STATUSES \union TERMINAL_STATUSES
    /\ \A ev \in Event : ev.says \in Outcomes <=> ev.says \in TERMINAL_STATUSES
BY ReportedAssumption, OutcomesAssumption
   DEF QUEUED, FAILED, ACTIVE_STATUSES, TERMINAL_STATUSES, NoCall, Row, Event

(***************************************************************************)
(* Type correctness.                                                       *)
(***************************************************************************)

LEMMA InitTypes == CallInit => CallTypeOK
BY DEF CallInit, CallTypeOK, Starting, Handling

\* Rows, and the states of a thread, as a step makes them.
LEMMA RowsMade ==
    /\ \A status \in ACTIVE_STATUSES \union TERMINAL_STATUSES, b \in BOOLEAN :
         [status |-> status, bound |-> b] \in Row
    /\ \A r \in Row : [r EXCEPT !.bound = TRUE] \in Row
    /\ \A r \in Row, status \in ACTIVE_STATUSES \union TERMINAL_STATUSES :
         [r EXCEPT !.status = status] \in Row
    /\ \A c \in Calls : \A stage \in {"inserted", "placed", "rejected"} :
         [stage |-> stage, call |-> c] \in Starting
    /\ \A c \in Calls, r \in Row :
         [stage |-> "binding", call |-> c, copy |-> r] \in Starting
    /\ Free \in Starting /\ [stage |-> "cleared"] \in Starting /\ Free \in Handling
    /\ \A ev \in Event, r \in Row :
         [stage |-> "holding", event |-> ev, copy |-> r] \in Handling
BY DEF Row, Starting, Handling

\* A thread that goes on with its call keeps it.
LEMMA NextStage ==
    ASSUME CallTypeOK, NEW s \in Starters, starter[s].stage = "inserted",
           NEW stage \in {"placed", "rejected"}
    PROVE  /\ starter[s].call \in Calls
           /\ [stage |-> stage, call |-> starter[s].call] \in Starting
           /\ [starter EXCEPT ![s].stage = stage] =
                [starter EXCEPT ![s] = [stage |-> stage, call |-> starter[s].call]]
<1>1. starter[s].call \in Calls
  BY StarterFields DEF Bound
<1>2. starter[s] = [stage |-> "inserted", call |-> starter[s].call]
  BY StarterFields
<1>3. [starter[s] EXCEPT !.stage = stage] = [stage |-> stage, call |-> starter[s].call]
  BY <1>2
<1> QED
  BY <1>1, <1>3, RowsMade

\* A step of one thread that starts a call.
LEMMA StarterTypes ==
    ASSUME CallTypeOK, KnownCallsExist, NEW s \in Starters,
           \/ EnsureNoActiveCall(s) \/ \E c \in Calls : Insert(s, c)
           \/ PlaceCall(s) \/ PlaceFails(s) \/ RecordRejection(s)
           \/ BindRead(s) \/ BindWrite(s)
    PROVE  CallTypeOK'
<1>1. CASE EnsureNoActiveCall(s)
  BY <1>1, RowsMade DEF EnsureNoActiveCall, CallTypeOK
<1>2. ASSUME NEW c \in Calls, Insert(s, c)
      PROVE  CallTypeOK'
  <2>1. /\ [stage |-> "inserted", call |-> c] \in Starting
        /\ [status |-> QUEUED, bound |-> FALSE] \in Row
    BY RowsMade, Statuses
  <2> QED
    BY <1>2, <2>1 DEF Insert, CallTypeOK, history
<1>3. CASE PlaceCall(s)
  BY <1>3, NextStage DEF PlaceCall, CallTypeOK, history
<1>4. CASE PlaceFails(s)
  BY <1>4, NextStage DEF PlaceFails, CallTypeOK, history
<1>5. CASE RecordRejection(s)
  BY <1>5, StarterFields, RowsMade, Statuses DEF RecordRejection, CallTypeOK, Opened, Bound
<1>6. CASE BindRead(s)
  <2>1. starter[s].call \in Calls /\ calls[starter[s].call] \in Row
    BY <1>6, StarterFields DEF BindRead, Bound, KnownCallsExist, CallTypeOK
  <2> QED
    BY <1>6, <2>1, RowsMade DEF BindRead, CallTypeOK, Opened
<1>7. CASE BindWrite(s)
  BY <1>7, StarterFields, RowsMade DEF BindWrite, CallTypeOK, Written, Bound
<1> QED
  BY <1>1, <1>2, <1>3, <1>4, <1>5, <1>6, <1>7

\* A delivery of an event.
LEMMA HookTypes ==
    ASSUME CallTypeOK, KnownCallsExist,
           \/ \E ev \in events : IgnoreEvent(ev)
           \/ \E h \in Hooks : \/ ApplyStatus(h) \/ ApplyReport(h) \/ ApplySarvamEvent(h)
                               \/ \E ev \in events : FindCall(h, ev)
    PROVE  CallTypeOK'
<1> USE RowsMade, Statuses
<1>1. ASSUME NEW ev \in events, IgnoreEvent(ev)
      PROVE  CallTypeOK'
  BY <1>1 DEF IgnoreEvent, CallTypeOK, Event
<1>2. ASSUME NEW h \in Hooks, StoreCopy(h), hook[h] # Free,
             answered' \subseteq Calls, UNCHANGED provider
      PROVE  CallTypeOK'
  BY <1>2, HookFields DEF StoreCopy, CallTypeOK, Written
<1>3. ASSUME NEW h \in Hooks, ApplyStatus(h) \/ ApplyReport(h) \/ ApplySarvamEvent(h)
      PROVE  CallTypeOK'
  <2>1. hook[h] # Free
    BY <1>3, IdleStage DEF ApplyStatus, ApplyReport, ApplySarvamEvent
  <2>2. StoreCopy(h) /\ answered' \subseteq Calls /\ UNCHANGED provider
    BY <1>3, <2>1, HookFields DEF ApplyStatus, ApplyReport, ApplySarvamEvent, StoreCopy, CallTypeOK
  <2> QED
    BY <2>1, <2>2, <1>2
<1>4. ASSUME NEW h \in Hooks, NEW ev \in events, FindCall(h, ev)
      PROVE  CallTypeOK'
  <2>1. ev \in Event /\ ev.call \in Calls /\ calls[ev.call] \in Row
    BY <1>4 DEF KnownCallsExist, CallTypeOK, Event
  <2> QED
    BY <1>4, <2>1 DEF FindCall, CallTypeOK, Opened
<1> QED
  BY <1>1, <1>3, <1>4

\* A step of the provider or of time, or a crash.
LEMMA OutsideTypes ==
    ASSUME CallTypeOK,
           \/ Crash
           \/ \E c \in Calls : \/ ProviderCreates(c)
                               \/ \E status \in Reported : ProviderProgresses(c, status)
                               \/ \E outcome \in Outcomes : ProviderEnds(c, outcome)
                               \/ GrowOld(c)
    PROVE  CallTypeOK'
<1>1. CASE Crash
  BY <1>1, RowsMade DEF Crash, CallTypeOK, history
<1>2. ASSUME NEW c \in Calls, ProviderCreates(c) \/ GrowOld(c)
      PROVE  CallTypeOK'
  BY <1>2 DEF ProviderCreates, GrowOld, CallTypeOK, history
<1>3. ASSUME NEW c \in Calls, NEW says \in Reported \union Outcomes,
             ProviderProgresses(c, says) \/ ProviderEnds(c, says)
      PROVE  CallTypeOK'
  BY <1>3 DEF ProviderProgresses, ProviderEnds, Post, Event, CallTypeOK, history
<1> QED
  BY <1>1, <1>2, <1>3

LEMMA NextTypes ==
    ASSUME CallTypeOK, KnownCallsExist, [CallNext]_callVars
    PROVE  CallTypeOK'
<1>1. CASE UNCHANGED callVars
  BY <1>1 DEF callVars, CallTypeOK
<1> QED
  BY <1>1, StarterTypes, HookTypes, OutsideTypes DEF CallNext


(***************************************************************************)
(* Who knows of a call, and which thread started it.                       *)
(***************************************************************************)

\* A row is never deleted.
LEMMA CallsRemain ==
    ASSUME CallTypeOK, CallNext
    PROVE  \A c \in Calls : calls[c] # NoCall => calls'[c] # NoCall
<1> DEFINE Remain == \A c \in Calls : calls[c] # NoCall => calls'[c] # NoCall
<1>1. ASSUME NEW s \in Starters, NEW c \in Calls, Insert(s, c)
      PROVE  Remain
  BY <1>1 DEF Insert, CallTypeOK, NoCall, QUEUED
<1>2. ASSUME NEW s \in Starters, RecordRejection(s)
      PROVE  Remain
  BY <1>2 DEF RecordRejection, CallTypeOK, NoCall, FAILED
<1>3. ASSUME NEW s \in Starters, BindWrite(s)
      PROVE  Remain
  <2>1. [starter[s].copy EXCEPT !.bound = TRUE] # NoCall
    BY <1>3, StarterFields, RowsMade, Statuses DEF BindWrite
  <2> QED
    BY <1>3, <2>1 DEF BindWrite, CallTypeOK
<1>4. ASSUME NEW h \in Hooks, ApplyStatus(h) \/ ApplyReport(h) \/ ApplySarvamEvent(h)
      PROVE  Remain
  <2>1. hook[h] # Free /\ StoreCopy(h)
    BY <1>4, IdleStage DEF ApplyStatus, ApplyReport, ApplySarvamEvent
  <2>2. [hook[h].copy EXCEPT !.status = hook[h].event.says] # NoCall
    BY <2>1, HookFields, RowsMade, Statuses
  <2> QED
    BY <2>1, <2>2 DEF StoreCopy, CallTypeOK
<1>5. ASSUME UNCHANGED calls
      PROVE  Remain
  BY <1>5
<1> QED
  BY <1>1, <1>2, <1>3, <1>4, <1>5
     DEF CallNext, EnsureNoActiveCall, PlaceCall, PlaceFails, BindRead, IgnoreEvent, FindCall,
         Crash, ProviderCreates, ProviderProgresses, ProviderEnds, GrowOld

\* What a step may do to the threads that start calls.
LEMMA StarterSteps ==
    ASSUME CallTypeOK, CallNext, NEW s \in Starters, starter'[s] # starter[s]
    PROVE  \/ starter'[s] = Free
           \/ /\ EnsureNoActiveCall(s)
              /\ starter'[s] = [stage |-> "cleared"]
           \/ \E c \in Calls : /\ Insert(s, c)
                               /\ starter'[s] = [stage |-> "inserted", call |-> c]
           \/ /\ Bound(s) /\ starter'[s].stage \in {"placed", "rejected", "binding"}
              /\ starter'[s].call = starter[s].call
<1> DEFINE Allowed == \/ starter'[s] = Free
                      \/ /\ EnsureNoActiveCall(s)
                         /\ starter'[s] = [stage |-> "cleared"]
                      \/ \E c \in Calls : /\ Insert(s, c)
                                          /\ starter'[s] = [stage |-> "inserted", call |-> c]
                      \/ /\ Bound(s) /\ starter'[s].stage \in {"placed", "rejected", "binding"}
                         /\ starter'[s].call = starter[s].call
<1>1. ASSUME NEW t \in Starters,
             \/ EnsureNoActiveCall(t) \/ \E c \in Calls : Insert(t, c)
             \/ RecordRejection(t) \/ BindRead(t) \/ BindWrite(t)
      PROVE  Allowed
  BY <1>1 DEF EnsureNoActiveCall, Insert, RecordRejection, BindRead, BindWrite, CallTypeOK, Bound
<1>2. ASSUME NEW t \in Starters, PlaceCall(t) \/ PlaceFails(t)
      PROVE  Allowed
  <2>1. PICK stage \in {"placed", "rejected"} :
          starter' = [starter EXCEPT ![t] = [stage |-> stage, call |-> starter[t].call]]
    BY <1>2, NextStage DEF PlaceCall, PlaceFails
  <2>2. Bound(t)
    BY <1>2 DEF PlaceCall, PlaceFails, Bound
  <2> QED
    BY <2>1, <2>2 DEF CallTypeOK
<1>3. CASE Crash
  BY <1>3 DEF Crash, CallTypeOK
<1> QED
  BY <1>1, <1>2, <1>3
     DEF CallNext, IgnoreEvent, FindCall, ApplyStatus, ApplyReport, ApplySarvamEvent, StoreCopy,
         ProviderCreates, ProviderProgresses, ProviderEnds, GrowOld

LEMMA StagesApart ==
    /\ Free.stage = "idle" /\ [stage |-> "cleared"].stage = "cleared"
    /\ \A c : [stage |-> "inserted", call |-> c].stage = "inserted"
    /\ \A c : [stage |-> "inserted", call |-> c].call = c
BY DEF Free

\* A fresh call is bound to nobody, and whoever is bound to a call was.
LEMMA BoundBefore ==
    ASSUME CallTypeOK, CallNext, NEW s \in Starters, Bound(s)'
    PROVE  \/ Bound(s) /\ starter'[s].call = starter[s].call
           \/ Insert(s, starter'[s].call) /\ starter'[s].call \in Calls
<1>1. CASE starter'[s] = starter[s]
  BY <1>1 DEF Bound
<1>2. CASE starter'[s] # starter[s]
  <2>1. starter'[s].stage \in {"inserted", "placed", "rejected", "binding"}
    BY DEF Bound
  <2>2. starter'[s] # Free /\ starter'[s] # [stage |-> "cleared"]
    BY <2>1, StagesApart
  <2>3. CASE Bound(s) /\ starter'[s].call = starter[s].call
    BY <2>3
  <2>4. ASSUME NEW c \in Calls, Insert(s, c), starter'[s] = [stage |-> "inserted", call |-> c]
        PROVE  Insert(s, starter'[s].call) /\ starter'[s].call \in Calls
    <3>1. starter'[s].call = c
      BY <2>4, StagesApart
    <3> QED
      BY <2>4, <3>1
  <2> QED
    BY <1>2, <2>2, <2>3, <2>4, StarterSteps
<1> QED
  BY <1>1, <1>2

LEMMA KnownCallsNext ==
    ASSUME CallTypeOK, KnownCallsExist, CallNext
    PROVE  KnownCallsExist'
<1>1. \A c \in Calls : calls[c] # NoCall => calls'[c] # NoCall
  BY CallsRemain
<1>2. ASSUME NEW s \in Starters, Bound(s)'
      PROVE  calls'[starter'[s].call] # NoCall
  <2>1. CASE Bound(s) /\ starter'[s].call = starter[s].call
    BY <1>1, <2>1, StarterFields DEF KnownCallsExist
  <2>2. CASE Insert(s, starter'[s].call) /\ starter'[s].call \in Calls
    BY <2>2 DEF Insert, CallTypeOK, NoCall, QUEUED
  <2> QED
    BY <1>2, <2>1, <2>2, BoundBefore
<1> DEFINE Outside == /\ \A c \in Calls : line'[c] # "none" => calls[c] # NoCall
                      /\ \A ev \in events' : ev.call \in Calls /\ calls[ev.call] # NoCall
<1>3. Outside
  <2>1. ASSUME NEW c \in Calls, ProviderCreates(c)
        PROVE  Outside
    BY <2>1 DEF ProviderCreates, KnownCallsExist, CallTypeOK, Bound, Event
  <2>2. ASSUME NEW c \in Calls, NEW says, ProviderProgresses(c, says) \/ ProviderEnds(c, says)
        PROVE  Outside
    BY <2>2 DEF ProviderProgresses, ProviderEnds, Post, KnownCallsExist, CallTypeOK, Event
  <2>3. ASSUME UNCHANGED <<line, events>>
        PROVE  Outside
    BY <2>3 DEF KnownCallsExist, CallTypeOK, Event
  <2> QED
    BY <2>1, <2>2, <2>3
       DEF CallNext, EnsureNoActiveCall, Insert, PlaceCall, PlaceFails, RecordRejection, BindRead,
           BindWrite, IgnoreEvent, FindCall, ApplyStatus, ApplyReport, ApplySarvamEvent,
           StoreCopy, Crash, GrowOld
<1> QED
  BY <1>1, <1>2, <1>3 DEF KnownCallsExist

LEMMA StartedOnceNext ==
    ASSUME CallTypeOK, KnownCallsExist, StartedOnce, CallNext
    PROVE  StartedOnce'
<1> SUFFICES ASSUME NEW s \in Starters, NEW t \in Starters, Bound(s)', Bound(t)',
                    starter'[s].call = starter'[t].call
             PROVE  s = t
  BY DEF StartedOnce
<1>1. CASE Bound(s) /\ Bound(t) /\ starter'[s].call = starter[s].call
                                /\ starter'[t].call = starter[t].call
  BY <1>1 DEF StartedOnce
<1>2. ASSUME NEW u \in Starters, NEW v \in Starters, Insert(u, starter'[u].call), u # v,
             Bound(v)', starter'[u].call = starter'[v].call, starter'[u].call \in Calls
      PROVE  FALSE
  <2>1. starter'[v] = starter[v] /\ Bound(v) /\ calls[starter'[u].call] = NoCall
    BY <1>2 DEF Insert, CallTypeOK, Bound
  <2> QED
    BY <1>2, <2>1 DEF KnownCallsExist
<1> QED
  BY <1>1, <1>2, BoundBefore


LEMMA SarvamNext ==
    ASSUME CallTypeOK, SarvamPostsResults, CallNext
    PROVE  SarvamPostsResults'
<1>1. ASSUME NEW c \in Calls, NEW says \in Reported, ProviderProgresses(c, says)
      PROVE  SarvamPostsResults'
  BY <1>1 DEF ProviderProgresses, SarvamPostsResults, CallTypeOK
<1>2. ASSUME NEW c \in Calls, NEW says \in Outcomes, ProviderEnds(c, says)
      PROVE  SarvamPostsResults'
  BY <1>2 DEF ProviderEnds, Post, SarvamPostsResults, CallTypeOK
<1>3. ASSUME NEW h \in Hooks, NEW ev \in events, FindCall(h, ev)
      PROVE  SarvamPostsResults'
  BY <1>3 DEF FindCall, SarvamPostsResults, CallTypeOK
<1>4. ASSUME UNCHANGED <<provider, events>>,
             \A h \in Hooks : hook'[h] \in {Free, hook[h]}
      PROVE  SarvamPostsResults'
  BY <1>4 DEF SarvamPostsResults
<1>5. ASSUME NEW h \in Hooks, ApplyStatus(h) \/ ApplyReport(h) \/ ApplySarvamEvent(h)
      PROVE  SarvamPostsResults'
  <2>1. UNCHANGED <<provider, events>> /\ \A g \in Hooks : hook'[g] \in {Free, hook[g]}
    BY <1>5 DEF ApplyStatus, ApplyReport, ApplySarvamEvent, StoreCopy, CallTypeOK
  <2> QED
    BY <2>1, <1>4
<1>6. CASE Crash
  <2>1. UNCHANGED <<provider, events>> /\ \A g \in Hooks : hook'[g] \in {Free, hook[g]}
    BY <1>6 DEF Crash, CallTypeOK
  <2> QED
    BY <2>1, <1>4
<1>7. ASSUME UNCHANGED <<provider, events, hook>>
      PROVE  SarvamPostsResults'
  BY <1>7, <1>4
<1> QED
  BY <1>1, <1>2, <1>3, <1>5, <1>6, <1>7
     DEF CallNext, EnsureNoActiveCall, Insert, PlaceCall, PlaceFails, RecordRejection, BindRead,
         BindWrite, IgnoreEvent, ProviderCreates, GrowOld

(***************************************************************************)
(* Copies of rows.                                                         *)
(***************************************************************************)

\* Who holds a copy of c's row.
Binds(s, c) == starter[s].stage = "binding" /\ starter[s].call = c
Holds(h, c) == hook[h] # Free /\ hook[h].event.call = c

\* CopiesAreCurrent, one call at a time.
Current(c) ==
    /\ \A s \in Starters : Binds(s, c) => /\ starter[s].copy = calls[c]
                                          /\ \A h \in Hooks : ~Holds(h, c)
    /\ \A h \in Hooks : Holds(h, c) => /\ hook[h].copy = calls[c]
                                       /\ ~Terminal(c)
                                       /\ \A g \in Hooks : Holds(g, c) => g = h

LEMMA ByCall ==
    ASSUME CallTypeOK
    PROVE  CopiesAreCurrent <=> \A c \in Calls \ torn : Current(c)
<1>1. \A s \in Starters : starter[s].stage = "binding" => starter[s].call \in Calls
  BY StarterFields DEF Bound
<1>2. \A h \in Hooks : hook[h] # Free => hook[h].event.call \in Calls
  BY HookFields
<1> QED
  BY <1>1, <1>2 DEF CopiesAreCurrent, Current, Binds, Holds

\* Nothing changes for a call whose row stays and of which no new copy is taken.
LEMMA SameCopies ==
    ASSUME NEW c \in Calls, Current(c), calls'[c] = calls[c],
           \A s \in Starters : Binds(s, c)' => Binds(s, c) /\ starter'[s].copy = starter[s].copy,
           \A h \in Hooks : Holds(h, c)' => Holds(h, c) /\ hook'[h].copy = hook[h].copy
    PROVE  Current(c)'
BY DEF Current, Terminal

\* Nor for one of which the only copy has just been taken.
LEMMA OpenNone ==
    ASSUME NEW c, OpenCopies(c) = {}
    PROVE  (\A s \in Starters : ~Binds(s, c)) /\ (\A h \in Hooks : ~Holds(h, c))
BY DEF OpenCopies, Binds, Holds

\* What a step may do to the copies of one call.
LEMMA CopiesOfOne ==
    ASSUME CallTypeOK, KnownCallsExist, StartedOnce, CallNext,
           NEW c \in Calls, c \notin torn', Current(c)
    PROVE  Current(c)'
<1> DEFINE Kept == /\ calls'[c] = calls[c]
                   /\ \A s \in Starters :
                        Binds(s, c)' => Binds(s, c) /\ starter'[s].copy = starter[s].copy
                   /\ \A h \in Hooks : Holds(h, c)' => Holds(h, c) /\ hook'[h].copy = hook[h].copy
           Closed == (\A s \in Starters : ~Binds(s, c)') /\ (\A h \in Hooks : ~Holds(h, c)')
<1>1. Kept => Current(c)'
  BY SameCopies
<1>2. Closed => Current(c)'
  BY DEF Current
<1>3. ASSUME NEW s \in Starters, EnsureNoActiveCall(s)
      PROVE  Kept
  BY <1>3 DEF EnsureNoActiveCall, CallTypeOK, Binds, Holds
<1>4. ASSUME NEW s \in Starters, NEW d \in Calls, Insert(s, d)
      PROVE  Current(c)'
  <2>1. CASE d = c
    <3>1. \A t \in Starters : ~Binds(t, c)
      BY <1>4, <2>1 DEF Insert, KnownCallsExist, Binds, Bound
    <3>2. \A h \in Hooks : ~Holds(h, c)
      BY <1>4, <2>1, HookFields, Statuses DEF Insert, Current, Holds
    <3>3. Closed
      BY <1>4, <3>1, <3>2 DEF Insert, CallTypeOK, Binds, Holds
    <3> QED
      BY <3>3, <1>2
  <2>2. CASE d # c
    <3>1. Kept
      BY <1>4, <2>2 DEF Insert, CallTypeOK, Binds, Holds
    <3> QED
      BY <3>1, <1>1
  <2> QED
    BY <2>1, <2>2
<1>5. ASSUME NEW s \in Starters, PlaceCall(s) \/ PlaceFails(s)
      PROVE  Kept
  <2>1. PICK stage \in {"placed", "rejected"} :
          starter' = [starter EXCEPT ![s] = [stage |-> stage, call |-> starter[s].call]]
    BY <1>5, NextStage DEF PlaceCall, PlaceFails
  <2> QED
    BY <1>5, <2>1 DEF PlaceCall, PlaceFails, CallTypeOK, Binds, Holds
<1>6. ASSUME NEW s \in Starters, RecordRejection(s)
      PROVE  Current(c)'
  <2>1. CASE starter[s].call = c
    <3>1. OpenCopies(c) = {}
      BY <1>6, <2>1 DEF RecordRejection, Opened
    <3>2. Closed
      BY <1>6, <3>1, OpenNone, IdleStage DEF RecordRejection, CallTypeOK, Binds, Holds
    <3> QED
      BY <3>2, <1>2
  <2>2. CASE starter[s].call # c
    <3>1. Kept
      BY <1>6, <2>2, IdleStage DEF RecordRejection, CallTypeOK, Binds, Holds
    <3> QED
      BY <3>1, <1>1
  <2> QED
    BY <2>1, <2>2
<1>7. ASSUME NEW s \in Starters, BindRead(s)
      PROVE  Current(c)'
  <2>1. CASE starter[s].call = c
    <3>1. OpenCopies(c) = {}
      BY <1>7, <2>1 DEF BindRead, Opened
    <3>2. /\ \A t \in Starters : Binds(t, c)' => starter'[t].copy = calls'[c]
          /\ \A h \in Hooks : ~Holds(h, c)'
      BY <1>7, <3>1, OpenNone DEF BindRead, CallTypeOK, Binds, Holds
    <3> QED
      BY <3>2 DEF Current
  <2>2. CASE starter[s].call # c
    <3>1. Kept
      BY <1>7, <2>2 DEF BindRead, CallTypeOK, Binds, Holds
    <3> QED
      BY <3>1, <1>1
  <2> QED
    BY <2>1, <2>2
<1>8. ASSUME NEW s \in Starters, BindWrite(s)
      PROVE  Current(c)'
  <2>1. CASE starter[s].call = c
    <3>1. Binds(s, c) /\ \A t \in Starters : Binds(t, c) => t = s
      BY <1>8, <2>1 DEF BindWrite, Binds, StartedOnce, Bound
    <3>2. \A h \in Hooks : ~Holds(h, c)
      BY <3>1 DEF Current
    <3>3. Closed
      BY <1>8, <3>1, <3>2, IdleStage DEF BindWrite, CallTypeOK, Binds, Holds
    <3> QED
      BY <3>3, <1>2
  <2>2. CASE starter[s].call # c
    <3>1. Kept
      BY <1>8, <2>2, IdleStage DEF BindWrite, CallTypeOK, Binds, Holds
    <3> QED
      BY <3>1, <1>1
  <2> QED
    BY <2>1, <2>2
<1>9. ASSUME NEW h \in Hooks, NEW ev \in events, FindCall(h, ev)
      PROVE  Current(c)'
  <2>1. CASE ev.call = c
    <3>1. OpenCopies(c) = {}
      BY <1>9, <2>1 DEF FindCall, Opened
    <3>2. /\ \A t \in Starters : ~Binds(t, c)'
          /\ \A g \in Hooks : Holds(g, c)' => g = h /\ hook'[g].copy = calls'[c]
          /\ ~Terminal(c)'
      BY <1>9, <2>1, <3>1, OpenNone DEF FindCall, CallTypeOK, Binds, Holds, Terminal
    <3> QED
      BY <3>2 DEF Current
  <2>2. CASE ev.call # c
    <3>1. Kept
      BY <1>9, <2>2 DEF FindCall, CallTypeOK, Binds, Holds
    <3> QED
      BY <3>1, <1>1
  <2> QED
    BY <2>1, <2>2
<1>10. ASSUME NEW h \in Hooks, ApplyStatus(h) \/ ApplyReport(h) \/ ApplySarvamEvent(h)
       PROVE  Current(c)'
  <2>1. StoreCopy(h) /\ hook[h] # Free
    BY <1>10, IdleStage DEF ApplyStatus, ApplyReport, ApplySarvamEvent
  <2>2. CASE hook[h].event.call = c
    <3>1. /\ \A t \in Starters : ~Binds(t, c)
          /\ \A g \in Hooks : Holds(g, c) => g = h
      BY <2>1, <2>2 DEF Current, Holds
    <3>2. Closed
      BY <2>1, <3>1 DEF StoreCopy, CallTypeOK, Binds, Holds
    <3> QED
      BY <3>2, <1>2
  <2>3. CASE hook[h].event.call # c
    <3>1. Kept
      BY <2>1, <2>3 DEF StoreCopy, CallTypeOK, Binds, Holds
    <3> QED
      BY <3>1, <1>1
  <2> QED
    BY <2>2, <2>3
<1>11. CASE Crash
  <2>1. Kept
    BY <1>11, IdleStage DEF Crash, CallTypeOK, Binds, Holds
  <2> QED
    BY <2>1, <1>1
<1>12. ASSUME UNCHANGED <<calls, starter, hook>>
       PROVE  Kept
  BY <1>12 DEF Binds, Holds
<1> QED
  BY <1>1, <1>3, <1>4, <1>5, <1>6, <1>7, <1>8, <1>9, <1>10, <1>11, <1>12
     DEF CallNext, IgnoreEvent, ProviderCreates, ProviderProgresses, ProviderEnds, GrowOld

\* A row once torn stays torn.
LEMMA TornGrows ==
    ASSUME CallNext
    PROVE  torn \subseteq torn'
BY DEF CallNext, EnsureNoActiveCall, Insert, PlaceCall, PlaceFails, RecordRejection, BindRead,
       BindWrite, IgnoreEvent, FindCall, ApplyStatus, ApplyReport, ApplySarvamEvent, StoreCopy,
       Crash, ProviderCreates, ProviderProgresses, ProviderEnds, GrowOld, Opened, history

LEMMA CopiesNext ==
    ASSUME CallTypeOK, CallTypeOK', KnownCallsExist, StartedOnce, CopiesAreCurrent, CallNext
    PROVE  CopiesAreCurrent'
<1>1. \A c \in Calls : c \notin torn' => Current(c)'
  BY ByCall, TornGrows, CopiesOfOne
<1>2. \A s \in Starters : starter'[s].stage = "binding" => starter'[s].call \in Calls
  BY DEF CallTypeOK, Starting, Free
<1>3. \A h \in Hooks : hook'[h] # Free => hook'[h].event.call \in Calls
  BY DEF CallTypeOK, Handling, Free, Event
<1> QED
  BY <1>1, <1>2, <1>3 DEF CopiesAreCurrent, Current, Binds, Holds


(***************************************************************************)
(* Verdicts and reports.                                                   *)
(***************************************************************************)

\* A verdict is written over by nothing but a thread that records its own rejection.
LEMMA VerdictStays ==
    ASSUME CallTypeOK, CopiesAreCurrent, CallNext, NEW c \in Calls, c \notin torn', Terminal(c)
    PROVE  /\ Terminal(c)'
           /\ \/ calls'[c].status = calls[c].status
              \/ \E s \in Starters : RecordRejection(s) /\ starter[s].call = c
<1> DEFINE Stays == /\ Terminal(c)'
                    /\ \/ calls'[c].status = calls[c].status
                       \/ \E s \in Starters : RecordRejection(s) /\ starter[s].call = c
<1>1. Current(c)
  BY ByCall, TornGrows
<1>2. calls'[c].status = calls[c].status => Stays
  BY DEF Terminal
<1>3. ASSUME NEW s \in Starters, NEW d \in Calls, Insert(s, d)
      PROVE  Stays
  <2>1. d # c
    BY <1>3, Statuses DEF Insert, Terminal
  <2> QED
    BY <1>2, <1>3, <2>1 DEF Insert, CallTypeOK
<1>4. ASSUME NEW s \in Starters, RecordRejection(s)
      PROVE  Stays
  <2>1. CASE starter[s].call = c
    BY <1>4, <2>1, Statuses DEF RecordRejection, Terminal, CallTypeOK
  <2>2. CASE starter[s].call # c
    BY <1>2, <1>4, <2>2 DEF RecordRejection, CallTypeOK
  <2> QED
    BY <2>1, <2>2
<1>5. ASSUME NEW s \in Starters, BindWrite(s)
      PROVE  Stays
  <2>1. CASE starter[s].call = c
    <3>1. starter[s].copy = calls[c] /\ starter[s].copy \in Row
      BY <1>1, <1>5, <2>1, StarterFields DEF BindWrite, Current, Binds
    <3> QED
      BY <1>2, <1>5, <2>1, <3>1 DEF BindWrite, CallTypeOK, Row
  <2>2. CASE starter[s].call # c
    BY <1>2, <1>5, <2>2 DEF BindWrite, CallTypeOK
  <2> QED
    BY <2>1, <2>2
<1>6. ASSUME NEW h \in Hooks, ApplyStatus(h) \/ ApplyReport(h) \/ ApplySarvamEvent(h)
      PROVE  Stays
  <2>1. StoreCopy(h) /\ hook[h] # Free
    BY <1>6, IdleStage DEF ApplyStatus, ApplyReport, ApplySarvamEvent
  <2>2. hook[h].event.call # c
    BY <1>1, <2>1 DEF Current, Holds
  <2> QED
    BY <1>2, <2>1, <2>2 DEF StoreCopy, CallTypeOK
<1>7. ASSUME UNCHANGED calls
      PROVE  Stays
  BY <1>2, <1>7
<1> QED
  BY <1>3, <1>4, <1>5, <1>6, <1>7
     DEF CallNext, EnsureNoActiveCall, PlaceCall, PlaceFails, BindRead, IgnoreEvent, FindCall,
         Crash, ProviderCreates, ProviderProgresses, ProviderEnds, GrowOld

\* The history of answers only grows.
LEMMA AnswersGrow ==
    ASSUME CallTypeOK, CallNext
    PROVE  missed \subseteq missed' /\ provider' = provider
BY DEF CallNext, EnsureNoActiveCall, Insert, PlaceCall, PlaceFails, RecordRejection, BindRead,
       BindWrite, IgnoreEvent, FindCall, ApplyStatus, ApplyReport, ApplySarvamEvent, StoreCopy,
       Crash, ProviderCreates, ProviderProgresses, ProviderEnds, GrowOld, history

\* A report is answered 200 once it is written, or where there is nothing to write.
LEMMA NewlyAnswered ==
    ASSUME CallTypeOK, KnownCallsExist, SarvamPostsResults, CallNext,
           NEW c \in answered', c \notin answered
    PROVE  Terminal(c)' \/ (provider' = "sarvam" /\ c \in missed')
<1> DEFINE Recorded == Terminal(c)' \/ (provider' = "sarvam" /\ c \in missed')
<1>1. ASSUME NEW ev \in events, IgnoreEvent(ev)
      PROVE  Recorded
  <2>1. ev.call = c /\ ev.says \in Outcomes /\ UNCHANGED <<provider, calls>>
    BY <1>1 DEF IgnoreEvent
  <2>2. CASE Found(c)
    BY <1>1, <2>1, <2>2 DEF IgnoreEvent, Terminal
  <2>3. CASE ~Found(c)
    <3>1. calls[c] # NoCall
      BY <2>1 DEF KnownCallsExist
    <3>2. provider = "sarvam" /\ c \in missed'
      BY <1>1, <2>1, <2>3, <3>1 DEF IgnoreEvent, Found, CallTypeOK
    <3> QED
      BY <2>1, <3>2
  <2> QED
    BY <2>2, <2>3
<1>2. ASSUME NEW h \in Hooks, ApplyStatus(h) \/ ApplyReport(h) \/ ApplySarvamEvent(h)
      PROVE  Recorded
  <2>1. StoreCopy(h) /\ hook[h] # Free
    BY <1>2, IdleStage DEF ApplyStatus, ApplyReport, ApplySarvamEvent
  <2>2. hook[h].event.call = c /\ hook[h].event.says \in Outcomes
    BY <1>2, <2>1 DEF ApplyStatus, ApplyReport, ApplySarvamEvent, SarvamPostsResults
  <2>3. hook[h].event \in Event /\ c \in Calls /\ hook[h].copy \in Row
    BY <2>1, <2>2, HookFields
  <2>4. calls'[c].status = hook[h].event.says
    BY <2>1, <2>2, <2>3 DEF StoreCopy, CallTypeOK, Row
  <2> QED
    BY <2>2, <2>3, <2>4, Statuses DEF Terminal
<1>3. answered' # answered
  OBVIOUS
<1> QED
  BY <1>1, <1>2, <1>3
     DEF CallNext, EnsureNoActiveCall, Insert, PlaceCall, PlaceFails, RecordRejection, BindRead,
         BindWrite, FindCall, Crash, ProviderCreates, ProviderProgresses, ProviderEnds, GrowOld,
         history

LEMMA ReportNext ==
    ASSUME CallTypeOK, CallTypeOK', KnownCallsExist, SarvamPostsResults, CopiesAreCurrent,
           ReportIsRecorded, CallNext
    PROVE  ReportIsRecorded'
<1> SUFFICES ASSUME NEW c \in answered', c \notin torn'
             PROVE  Terminal(c)' \/ (provider' = "sarvam" /\ c \in missed')
  BY DEF ReportIsRecorded
<1>1. CASE c \notin answered
  BY <1>1, NewlyAnswered
<1>2. CASE c \in answered
  <2>1. Terminal(c) \/ (provider = "sarvam" /\ c \in missed)
    BY <1>2, TornGrows DEF ReportIsRecorded
  <2>2. c \in Calls
    BY DEF CallTypeOK
  <2> QED
    BY <2>1, <2>2, VerdictStays, AnswersGrow
<1> QED
  BY <1>1, <1>2

(***************************************************************************)
(* One call at a time.                                                     *)
(***************************************************************************)

\* Growing old only stops a call from blocking.
LEMMA AgeOnlyFrees ==
    ASSUME NEW status, NEW a \in {"new", "old", "stale"}, NEW b,
           b = IF a = "new" THEN "old" ELSE "stale", Blocks(status, b)
    PROVE  Blocks(status, a)
BY DEF Blocks

\* A call begins to block when it is inserted, or it is known to have been revived.
LEMMA NewlyBlocking ==
    ASSUME CallTypeOK, CallNext, NEW c \in Calls, c \notin revived', Blocking(c)'
    PROVE  \/ Blocking(c) /\ c \notin revived
           \/ c \notin revived /\ \E s \in Starters : Insert(s, c)
<1> DEFINE Known == \/ Blocking(c) /\ c \notin revived
                    \/ c \notin revived /\ \E s \in Starters : Insert(s, c)
<1>1. ASSUME NEW s \in Starters, NEW d \in Calls, Insert(s, d)
      PROVE  Known
  BY <1>1 DEF Insert, CallTypeOK, Blocking, history
<1>2. ASSUME NEW s \in Starters, RecordRejection(s)
      PROVE  Known
  <2>1. starter[s].call # c
    BY <1>2, Statuses DEF RecordRejection, Blocking, Blocks, CallTypeOK
  <2> QED
    BY <1>2, <2>1 DEF RecordRejection, Blocking, CallTypeOK
<1>3. ASSUME NEW s \in Starters, BindWrite(s)
      PROVE  Known
  <2>1. CASE starter[s].call = c
    <3>1. starter[s].copy \in Row
      BY <1>3, StarterFields DEF BindWrite
    <3>2. calls'[c].status = starter[s].copy.status
      BY <1>3, <2>1, <3>1 DEF BindWrite, CallTypeOK, Row
    <3> QED
      BY <1>3, <2>1, <3>2 DEF BindWrite, Written, Blocking
  <2>2. CASE starter[s].call # c
    BY <1>3, <2>2 DEF BindWrite, Written, Blocking, CallTypeOK
  <2> QED
    BY <2>1, <2>2
<1>4. ASSUME NEW h \in Hooks, ApplyStatus(h) \/ ApplyReport(h) \/ ApplySarvamEvent(h)
      PROVE  Known
  <2>1. StoreCopy(h) /\ hook[h].copy \in Row
    BY <1>4, IdleStage, HookFields DEF ApplyStatus, ApplyReport, ApplySarvamEvent
  <2>2. CASE hook[h].event.call = c
    <3>1. calls'[c].status = hook[h].event.says
      BY <2>1, <2>2 DEF StoreCopy, CallTypeOK, Row
    <3> QED
      BY <2>1, <2>2, <3>1 DEF StoreCopy, Written, Blocking
  <2>3. CASE hook[h].event.call # c
    BY <2>1, <2>3 DEF StoreCopy, Written, Blocking, CallTypeOK
  <2> QED
    BY <2>2, <2>3
<1>5. ASSUME NEW d \in Calls, GrowOld(d)
      PROVE  Known
  <2>1. CASE d = c
    BY <1>5, <2>1, AgeOnlyFrees DEF GrowOld, Blocking, CallTypeOK, history
  <2>2. CASE d # c
    BY <1>5, <2>2 DEF GrowOld, Blocking, CallTypeOK, history
  <2> QED
    BY <2>1, <2>2
<1>6. ASSUME UNCHANGED <<calls, since, revived>>
      PROVE  Known
  BY <1>6 DEF Blocking
<1> QED
  BY <1>1, <1>2, <1>3, <1>4, <1>5, <1>6
     DEF CallNext, EnsureNoActiveCall, PlaceCall, PlaceFails, BindRead, IgnoreEvent, FindCall,
         Crash, ProviderCreates, ProviderProgresses, ProviderEnds, history

LEMMA AloneNext ==
    ASSUME CallTypeOK, StartsAreAlone, CallNext
    PROVE  StartsAreAlone'
<1> SUFFICES ASSUME ~rushed'
             PROVE  StartsAreAlone'
  BY DEF StartsAreAlone
<1>1. ~rushed
  BY DEF CallNext, EnsureNoActiveCall, Insert, PlaceCall, PlaceFails, RecordRejection, BindRead,
         BindWrite, IgnoreEvent, FindCall, ApplyStatus, ApplyReport, ApplySarvamEvent,
         StoreCopy, Crash, ProviderCreates, ProviderProgresses, ProviderEnds, GrowOld, history
<1>2. ASSUME NEW s \in Starters, starter'[s].stage = "cleared"
      PROVE  \/ starter[s].stage = "cleared" /\ starter'[s] = starter[s]
             \/ EnsureNoActiveCall(s)
  BY <1>2, StarterSteps, StagesApart DEF Bound
<1>3. ASSUME NEW s \in Starters, NEW c \in Calls, Insert(s, c)
      PROVE  StartsAreAlone'
  <2>1. \A t \in Starters : starter'[t].stage # "cleared"
    BY <1>1, <1>3 DEF Insert, StartsAreAlone, CallTypeOK
  <2>2. \A d \in Calls : d \notin revived' /\ Blocking(d)' => d = c
    BY <1>1, <1>3 DEF Insert, StartsAreAlone, CallTypeOK, Blocking, history
  <2> QED
    BY <2>1, <2>2 DEF StartsAreAlone
<1>4. ASSUME NEW s \in Starters, EnsureNoActiveCall(s)
      PROVE  StartsAreAlone'
  BY <1>4 DEF EnsureNoActiveCall, StartsAreAlone, CallTypeOK, Blocking
<1>5. ASSUME \A s \in Starters : ~EnsureNoActiveCall(s) /\ \A c \in Calls : ~Insert(s, c)
      PROVE  StartsAreAlone'
  <2>1. \A c \in Calls : c \notin revived' /\ Blocking(c)' => Blocking(c) /\ c \notin revived
    BY <1>5, NewlyBlocking
  <2>2. \A s \in Starters : starter'[s].stage = "cleared" => starter[s].stage = "cleared"
    BY <1>2, <1>5
  <2> QED
    BY <1>1, <2>1, <2>2 DEF StartsAreAlone
<1> QED
  BY <1>3, <1>4, <1>5

(***************************************************************************)
(* The invariant and what it gives.                                        *)
(***************************************************************************)

LEMMA InitInvariant == CallInit => CallIInv
<1> SUFFICES ASSUME CallInit
             PROVE  CallIInv
  OBVIOUS
<1>1. CallTypeOK
  BY InitTypes
<1> QED
  BY <1>1, IdleStage, Statuses
     DEF CallInit, CallIInv, KnownCallsExist, StartedOnce, SarvamPostsResults, CopiesAreCurrent,
         StartsAreAlone, ReportIsRecorded, Bound, Blocking, Blocks

LEMMA NextInvariant == CallIInv /\ [CallNext]_callVars => CallIInv'
<1> SUFFICES ASSUME CallIInv, [CallNext]_callVars
             PROVE  CallIInv'
  OBVIOUS
<1>1. CASE CallNext
  <2>1. CallTypeOK'
    BY NextTypes DEF CallIInv
  <2> QED
    BY <1>1, <2>1, KnownCallsNext, StartedOnceNext, SarvamNext, CopiesNext, AloneNext, ReportNext
       DEF CallIInv
<1>2. CASE UNCHANGED callVars
  BY <1>2 DEF callVars, CallIInv, CallTypeOK, KnownCallsExist, StartedOnce, SarvamPostsResults,
              CopiesAreCurrent, StartsAreAlone, ReportIsRecorded, Bound, Blocking, Terminal
<1> QED
  BY <1>1, <1>2

\* The inductive invariant of screening calls (screening_calls.py), and with it the types,
\* holds for any number of calls, of threads and of webhook handlers.
THEOREM CallsInvariance == CallSpec => []CallIInv
BY InitInvariant, NextInvariant, PTL DEF CallSpec

\* A report that was answered 200 is on the call's row, whatever is repeated, reordered or early.
THEOREM ReportsAreKept == CallSpec => []ReportIsRecorded
<1>1. CallIInv => ReportIsRecorded
  BY DEF CallIInv
<1> QED
  BY <1>1, CallsInvariance, PTL

\* At most one call of a candidate blocks, unless two starts rushed or a call was revived.
THEOREM OneCall == CallSpec => []OneCallAtATime
<1>1. CallIInv => OneCallAtATime
  <2> SUFFICES ASSUME CallIInv, ~rushed
               PROVE  Cardinality({c \in Calls \ revived : Blocking(c)}) <= 1
    BY DEF OneCallAtATime
  <2> DEFINE B == {c \in Calls \ revived : Blocking(c)}
  <2>1. \A c, d \in B : c = d
    BY DEF CallIInv, StartsAreAlone
  <2>2. B = {} \/ \E c : B = {c}
    BY <2>1
  <2> HIDE DEF B
  <2>3. Cardinality(B) = 0 \/ Cardinality(B) = 1
    BY <2>2, FS_EmptySet, FS_Singleton
  <2>4. Cardinality(B) <= 1
    BY <2>3
  <2> QED
    BY <2>4 DEF B
<1> QED
  BY <1>1, CallsInvariance, PTL

\* A verdict stays what it is, but for two open copies of the row and start_call's own
\* rejection (webhook_auth.py:134).
THEOREM VerdictsAreFinal == CallSpec => VerdictIsFinal
<1>1. CallIInv /\ [CallNext]_callVars =>
        [\A c \in Calls \ torn' :
           Terminal(c) =>
             \/ calls'[c].status = calls[c].status
             \/ \E s \in Starters : RecordRejection(s) /\ starter[s].call = c]_callVars
  BY VerdictStays DEF CallIInv
<1> QED
  BY <1>1, CallsInvariance, PTL DEF CallSpec, VerdictIsFinal

(*************************************************************************)
(* A session of the voice bridge.                                        *)
(*************************************************************************)

(***************************************************************************)
(* Queues of numbered messages.                                            *)
(***************************************************************************)

\* The first message of a queue, and the others.
LEMMA Shifted ==
    ASSUME NEW S, NEW q \in Seq(S), q # <<>>
    PROVE  /\ Len(q) \in Nat \ {0} /\ Head(q) \in S /\ Head(q) = q[1]
           /\ Tail(q) \in Seq(S) /\ Len(Tail(q)) = Len(q) - 1
           /\ \A i \in 1..(Len(q) - 1) : Tail(q)[i] = q[i + 1]
OBVIOUS

\* A message more.
LEMMA Queued ==
    ASSUME NEW S, NEW q \in Seq(S), NEW m \in S
    PROVE  /\ Append(q, m) \in Seq(S) /\ Len(Append(q, m)) = Len(q) + 1 /\ Len(q) \in Nat
           /\ Append(q, m) # <<>>
           /\ \A i \in 1..Len(q) : Append(q, m)[i] = q[i]
           /\ Append(q, m)[Len(q) + 1] = m
OBVIOUS

\* The first number of a queue is taken, and something else than a number is.
LEMMA WaitingTail ==
    ASSUME NEW S, NEW q \in Seq(S), q # <<>>, NEW kind, NEW first \in Nat, NEW last \in Nat,
           Waiting(q, kind, first, last)
    PROVE  /\ Head(q).type = kind =>
                Head(q).n = first /\ first <= last /\ Waiting(Tail(q), kind, first + 1, last)
           /\ Head(q).type # kind => Waiting(Tail(q), kind, first, last)
<1> DEFINE t == Tail(q)
           of == {i \in 1..Len(q) : q[i].type = kind}
           left == {i \in 1..Len(t) : t[i].type = kind}
<1>1. /\ Len(q) \in Nat \ {0} /\ Head(q) = q[1] /\ Len(t) = Len(q) - 1
      /\ \A i \in 1..(Len(q) - 1) : t[i] = q[i + 1]
  BY Shifted
<1>2. /\ {q[i].n : i \in of} = first..last
      /\ \A i, j \in of : i < j => q[i].n < q[j].n
  BY DEF Waiting
<1> HIDE DEF t
<1>3. \A i \in left : i \in Nat \ {0} /\ i + 1 \in of /\ t[i] = q[i + 1]
  BY <1>1
<1>4. \A i \in of : i # 1 => i - 1 \in left /\ t[i - 1] = q[i]
  <2>1. \A i \in 1..Len(q) : i # 1 => i - 1 \in 1..Len(t) /\ i - 1 \in 1..(Len(q) - 1) /\ (i - 1) + 1 = i
    BY <1>1
  <2> QED
    BY <1>1, <2>1
<1>5. \A i, j \in left : i < j => t[i].n < t[j].n
  <2>1. \A i, j \in left : i < j => i + 1 < j + 1
    BY <1>3
  <2> QED
    BY <1>2, <1>3, <2>1
<1>6. 1 \in of <=> q[1].type = kind
  BY <1>1
<1>7. \A i \in of : i \in Nat /\ (i # 1 => 1 < i)
  BY <1>1
<1> HIDE DEF of, left
<1>8. CASE q[1].type # kind
  <2>1. \A i \in left : t[i].n \in first..last
    BY <1>2, <1>3
  <2>2. \A i \in of : i # 1
    BY <1>6, <1>8
  <2>3. \A x \in first..last : \E i \in of : q[i].n = x
    BY <1>2
  <2>4. \A x \in first..last : \E j \in left : t[j].n = x
    <3>1. TAKE x \in first..last
    <3>2. PICK i \in of : q[i].n = x
      BY <2>3
    <3>3. i - 1 \in left /\ t[i - 1].n = x
      BY <1>4, <2>2, <3>2
    <3> QED
      BY <3>3
  <2>5. {t[i].n : i \in left} = first..last
    BY <2>1, <2>4
  <2> QED
    BY <1>1, <1>5, <1>8, <2>5 DEF Waiting, left, t
<1>9. CASE q[1].type = kind
  <2>1. \A i \in of : q[i].n \in first..last
    BY <1>2
  <2>2. q[1].n \in first..last
    BY <1>6, <1>9, <2>1
  <2>3. \A i \in of : i # 1 => q[1].n < q[i].n
    BY <1>2, <1>6, <1>7, <1>9
  <2>4. PICK i \in of : q[i].n = first
    <3>1. first \in first..last
      BY <2>2
    <3> QED
      BY <1>2, <3>1
  <2>5. q[1].n = first /\ first <= last
    BY <2>2, <2>3, <2>4
  <2>6. \A x \in (first + 1)..last : \E j \in left : t[j].n = x
    <3>1. ASSUME NEW x \in (first + 1)..last PROVE \E j \in left : t[j].n = x
      <4>1. PICK j \in of : q[j].n = x
        <5>1. x \in first..last
          OBVIOUS
        <5> QED
          BY <1>2, <5>1
      <4>2. j # 1
        BY <2>5, <4>1
      <4> QED
        BY <1>4, <4>1, <4>2
    <3> QED
      BY <3>1
  <2>7. \A j \in left : t[j].n \in (first + 1)..last
    <3>1. \A j \in left : j + 1 # 1 /\ q[j + 1].n \in first..last /\ q[1].n < q[j + 1].n
      BY <1>3, <2>1, <2>3
    <3> QED
      BY <1>3, <2>5, <3>1
  <2>8. {t[j].n : j \in left} = (first + 1)..last
    BY <2>6, <2>7
  <2> QED
    BY <1>1, <1>5, <1>9, <2>5, <2>8 DEF Waiting, left, t
<1> QED
  BY <1>8, <1>9

\* The next number is queued, and something else than a number is.
LEMMA WaitingAppend ==
    ASSUME NEW S, NEW q \in Seq(S), NEW m \in S, NEW kind, NEW first \in Nat, NEW last \in Nat,
           first <= last + 1, Waiting(q, kind, first, last)
    PROVE  /\ m.type # kind => Waiting(Append(q, m), kind, first, last)
           /\ m.type = kind /\ m.n = last + 1 => Waiting(Append(q, m), kind, first, last + 1)
<1> DEFINE a == Append(q, m)
           of == {i \in 1..Len(q) : q[i].type = kind}
           all == {i \in 1..Len(a) : a[i].type = kind}
<1>1. /\ Len(a) = Len(q) + 1 /\ Len(q) \in Nat
      /\ (\A i \in 1..Len(q) : a[i] = q[i]) /\ a[Len(q) + 1] = m
  BY Queued
<1>2. /\ {q[i].n : i \in of} = first..last
      /\ \A i, j \in of : i < j => q[i].n < q[j].n
  BY DEF Waiting
<1> HIDE DEF a
<1>3. \A i \in of : i \in all /\ a[i] = q[i] /\ i \in Nat /\ i < Len(q) + 1
  BY <1>1
<1>4. \A i \in all : i # Len(q) + 1 => i \in of
  BY <1>1
<1>5. Len(q) + 1 \in all <=> m.type = kind
  BY <1>1
<1> HIDE DEF of, all
<1>6. CASE m.type # kind
  <2>1. all = of
    BY <1>3, <1>4, <1>5, <1>6
  <2>2. {a[i].n : i \in all} = first..last
    BY <1>2, <1>3, <2>1
  <2>3. \A i, j \in all : i < j => a[i].n < a[j].n
    BY <1>2, <1>3, <2>1
  <2> QED
    BY <1>6, <2>2, <2>3 DEF Waiting, all, a
<1>7. CASE m.type = kind /\ m.n = last + 1
  <2>1. \A i \in of : q[i].n \in first..last
    BY <1>2
  <2>2. \A i \in all : a[i].n \in first..(last + 1)
    BY <1>1, <1>3, <1>4, <1>7, <2>1
  <2>3. \A x \in first..(last + 1) : \E i \in all : a[i].n = x
    <3>1. ASSUME NEW x \in first..(last + 1) PROVE \E i \in all : a[i].n = x
      <4>1. CASE x = last + 1
        BY <1>1, <1>5, <1>7, <4>1
      <4>2. CASE x # last + 1
        <5>1. x \in first..last
          BY <4>2
        <5>2. PICK i \in of : q[i].n = x
          BY <1>2, <5>1
        <5> QED
          BY <1>3, <5>2
      <4> QED
        BY <4>1, <4>2
    <3> QED
      BY <3>1
  <2>4. {a[i].n : i \in all} = first..(last + 1)
    BY <2>2, <2>3
  <2>5. \A i, j \in all : i < j => a[i].n < a[j].n
    <3>1. ASSUME NEW i \in all, NEW j \in all, i < j PROVE a[i].n < a[j].n
      <4>1. i \in of
        <5>1. i # Len(q) + 1
          BY <1>1, <1>3, <1>4, <3>1
        <5> QED
          BY <1>4, <5>1
      <4>2. CASE j \in of
        BY <1>2, <1>3, <3>1, <4>1, <4>2
      <4>3. CASE j = Len(q) + 1
        BY <1>1, <1>3, <1>7, <2>1, <4>1, <4>3
      <4> QED
        BY <1>4, <4>2, <4>3
    <3> QED
      BY <3>1
  <2> QED
    BY <1>7, <2>4, <2>5 DEF Waiting, all, a
<1> QED
  BY <1>6, <1>7

\* No number waits in an empty queue.
LEMMA NothingWaits ==
    ASSUME NEW kind
    PROVE  Waiting(<<>>, kind, 1, 0)
BY DEF Waiting

\* The numbers one after the other.
LEMMA NumbersGrow ==
    ASSUME NEW n \in Nat
    PROVE  /\ Numbers(n) \in Seq(Nat) /\ Len(Numbers(n)) = n
           /\ Append(Numbers(n), n + 1) = Numbers(n + 1)
           /\ \A k \in 0..n : IsPrefix(Numbers(k), Numbers(n))
<1>1. Numbers(n) \in Seq(Nat) /\ Len(Numbers(n)) = n
  BY DEF Numbers
<1>2. Append(Numbers(n), n + 1) = Numbers(n + 1)
  BY DEF Numbers
<1>3. ASSUME NEW k \in 0..n PROVE IsPrefix(Numbers(k), Numbers(n))
  <2>1. Len(Numbers(k)) = k
    BY DEF Numbers
  <2>2. SubSeq(Numbers(k), 1, k) = SubSeq(Numbers(n), 1, k)
    BY DEF Numbers
  <2> QED
    BY <1>1, <2>1, <2>2 DEF IsPrefix
<1> QED
  BY <1>1, <1>2, <1>3

\* What is a prefix of the numbers is the numbers so far.
LEMMA PrefixOfNumbers ==
    ASSUME NEW S, NEW s \in Seq(S), NEW n \in Nat, IsPrefix(s, Numbers(n))
    PROVE  Len(s) \in 0..n /\ s = Numbers(Len(s))
<1>1. Len(s) \in Nat /\ Len(s) <= n
  BY NumbersGrow DEF IsPrefix
<1>2. SubSeq(s, 1, Len(s)) = SubSeq(Numbers(n), 1, Len(s))
  BY DEF IsPrefix
<1>3. SubSeq(s, 1, Len(s)) = s
  OBVIOUS
<1>4. SubSeq(Numbers(n), 1, Len(s)) = Numbers(Len(s))
  BY <1>1 DEF Numbers
<1> QED
  BY <1>1, <1>2, <1>3, <1>4

\* A prefix of the numbers stays one when there is a number more, and is one with the number
\* that comes next.
LEMMA PrefixGrows ==
    ASSUME NEW S, NEW s \in Seq(S), NEW n \in Nat, IsPrefix(s, Numbers(n))
    PROVE  /\ Len(s) \in 0..n
           /\ IsPrefix(s, Numbers(n + 1))
           /\ Len(s) + 1 <= n => IsPrefix(Append(s, Len(s) + 1), Numbers(n))
<1>1. Len(s) \in 0..n /\ s = Numbers(Len(s))
  BY PrefixOfNumbers
<1> DEFINE k == Len(s)
<1>2. k \in Nat /\ k \in 0..(n + 1) /\ n + 1 \in Nat
  BY <1>1
<1>3. IsPrefix(Numbers(k), Numbers(n + 1))
  BY <1>2, NumbersGrow
<1>4. Append(s, k + 1) = Numbers(k + 1)
  BY <1>1, <1>2, NumbersGrow
<1>5. ASSUME k + 1 <= n PROVE IsPrefix(Numbers(k + 1), Numbers(n))
  <2>1. k + 1 \in 0..n
    BY <1>1, <1>5
  <2> QED
    BY <2>1, NumbersGrow
<1> HIDE DEF k
<1>6. s = Numbers(k)
  BY <1>1 DEF k
<1> QED
  BY <1>1, <1>3, <1>4, <1>5, <1>6 DEF k

\* What a queue holds of a kind when its first message is taken or one is added.
LEMMA HangupMoves ==
    ASSUME NEW S, NEW q \in Seq(S)
    PROVE  /\ \A m \in S : (\E i \in 1..Len(Append(q, m)) : Append(q, m)[i].type = "hangup") =>
                (\E i \in 1..Len(q) : q[i].type = "hangup") \/ m.type = "hangup"
           /\ q # <<>> => ((\E i \in 1..Len(Tail(q)) : Tail(q)[i].type = "hangup") =>
                             \E i \in 1..Len(q) : q[i].type = "hangup")
           /\ q # <<>> => (Head(q).type = "hangup" => \E i \in 1..Len(q) : q[i].type = "hangup")
<1>1. ASSUME NEW m \in S, NEW i \in 1..Len(Append(q, m)), Append(q, m)[i].type = "hangup"
      PROVE  (\E j \in 1..Len(q) : q[j].type = "hangup") \/ m.type = "hangup"
  <2>1. i \in 1..Len(q) \/ i = Len(q) + 1
    BY Queued
  <2> QED
    BY <1>1, <2>1, Queued
<1>2. ASSUME q # <<>>, NEW i \in 1..Len(Tail(q)), Tail(q)[i].type = "hangup"
      PROVE  \E j \in 1..Len(q) : q[j].type = "hangup"
  <2>1. i \in 1..(Len(q) - 1) /\ i + 1 \in 1..Len(q) /\ Tail(q)[i] = q[i + 1]
    BY <1>2, Shifted
  <2> QED
    BY <1>2, <2>1
<1>3. ASSUME q # <<>>, Head(q).type = "hangup"
      PROVE  \E j \in 1..Len(q) : q[j].type = "hangup"
  <2>1. 1 \in 1..Len(q) /\ Head(q) = q[1]
    BY <1>3, Shifted
  <2> QED
    BY <1>3, <2>1
<1> QED
  BY <1>1, <1>2, <1>3

\* The frames and the messages.
LEMMA FrameFields ==
    /\ \A m \in Frame : m.type \in {"audio", "hangup"} \union Control
                        /\ (m.type = "audio" => m.n \in 1..MaxFrames)
    /\ \A m \in Message : m.type \in {"data", "vad", "error"}
                          /\ (m.type = "data" => m.n \in 1..MaxTexts)
    /\ \A c \in Control \union {"hangup"} : [type |-> c] \in Frame /\ [type |-> c].type = c
    /\ \A c \in {"vad", "error"} : [type |-> c] \in Message /\ [type |-> c].type = c
    /\ \A n \in 1..MaxFrames : LET m == [type |-> "audio", n |-> n] IN
                               m \in Frame /\ m.type = "audio" /\ m.n = n
    /\ \A n \in 1..MaxTexts : LET m == [type |-> "data", n |-> n] IN
                              m \in Message /\ m.type = "data" /\ m.n = n
BY DEF Frame, Message, Control

(***************************************************************************)
(* The steps of a session.                                                 *)
(***************************************************************************)

\* The invariant holds at the start.
LEMMA BridgeStarts == BridgeInit => BridgeIInv
<1> SUFFICES ASSUME BridgeInit PROVE BridgeIInv
  OBVIOUS
<1> USE DEF BridgeInit
<1>1. BridgeTypeOK
  <2>1. \A S : <<>> \in Seq(S)
    OBVIOUS
  <2>2. 0 \in 0..MaxFrames /\ 0 \in 0..MaxTexts
    BY BridgeBounds
  <2> QED
    BY <2>1, <2>2 DEF BridgeTypeOK
<1>2. NothingIsLost
  <2>1. IsPrefix(<<>>, Numbers(0))
    <3>1. Numbers(0) = <<>>
      BY DEF Numbers
    <3> QED
      BY <3>1 DEF IsPrefix
  <2> QED
    BY <2>1 DEF NothingIsLost, Running
<1>3. HandlerAgrees
  BY NothingWaits DEF HandlerAgrees, Running
<1>4. StopsHaveReasons
  BY DEF StopsHaveReasons
<1>5. BridgeAddsUp
  BY <1>1, <1>2 DEF BridgeAddsUp, Running
<1> QED
  BY <1>3, <1>4, <1>5 DEF BridgeIInv

\* Steps that leave the queues and what went through.
QueuesStay == /\ inbox' = inbox /\ spoken' = spoken /\ outbox' = outbox /\ said' = said
              /\ buffer' = buffer /\ heard' = heard /\ shown' = shown

\* They keep the invariant.
LEMMA QuietSteps ==
    ASSUME BridgeIInv,
           \/ FirstFrameTimeout \/ OpenStream \/ OpenFails \/ Wake \/ CancelHandler
           \/ PumpCancelled \/ RelayCancelled \/ Gathered \/ CloseStream \/ PumpFails
           \/ \E how \in {"ended", "lost"} : SarvamStops(how)
    PROVE  BridgeIInv'
<1> USE DEF BridgeIInv, BridgeAddsUp
<1> USE DEF EndAs, StopTasks, Alive, vapiSide, sarvamSide, pumpVars, relayVars
<1>1. CASE FirstFrameTimeout \/ OpenFails
  <2>1. QueuesStay /\ vapi' = vapi /\ sarvam' = sarvam /\ pump' = pump /\ relay' = relay
        /\ handler' = "ended" /\ result' = "error" /\ fault' = TRUE /\ handler \in {"accepted", "opening"}
    BY <1>1 DEF FirstFrameTimeout, OpenFails, QueuesStay
  <2>2. BridgeTypeOK'
    BY <2>1 DEF QueuesStay, BridgeTypeOK
  <2>3. NothingIsLost'
    BY <2>1 DEF QueuesStay, NothingIsLost
  <2>4. HandlerAgrees'
    BY <2>1 DEF QueuesStay, HandlerAgrees
  <2>5. StopsHaveReasons'
    BY <2>1 DEF QueuesStay, StopsHaveReasons
  <2> QED
    BY <2>1, <2>2, <2>3, <2>4, <2>5 DEF HandlerAgrees
<1>2. CASE OpenStream
  <2>1. QueuesStay /\ vapi' = vapi /\ result' = result /\ fault' = fault /\ handler = "opening"
        /\ handler' = "waiting" /\ sarvam' = "open" /\ pump' = "receiving" /\ relay' = "reading"
    BY <1>2 DEF OpenStream, QueuesStay
  <2>2. BridgeTypeOK'
    BY <2>1 DEF QueuesStay, BridgeTypeOK
  <2>3. /\ outbox = <<>> /\ said = 0 /\ heard = <<>> /\ buffer = <<>> /\ shown = <<>>
        /\ Waiting(inbox, "audio", 1, spoken) /\ result = "none"
    BY <2>1 DEF HandlerAgrees
  <2>4. heard \o buffer = <<>> /\ Len(<<>>) + 1 = 1
    BY <2>3
  <2>5. NothingIsLost'
    <3>1. (heard \o buffer)' = <<>>
      BY <2>1, <2>4 DEF QueuesStay
    <3> QED
      BY <2>1, <2>3, <2>4, <3>1, NothingWaits DEF QueuesStay, NothingIsLost
  <2>6. HandlerAgrees'
    BY <2>1, <2>3 DEF HandlerAgrees
  <2>7. StopsHaveReasons'
    BY <2>1 DEF QueuesStay, StopsHaveReasons
  <2> QED
    BY <2>1, <2>2, <2>3, <2>5, <2>6, <2>7
<1>3. CASE Wake \/ CancelHandler
  <2>1. QueuesStay /\ vapi' = vapi /\ sarvam' = sarvam /\ pump' = pump /\ relay' = relay
    BY <1>3 DEF Wake, CancelHandler, QueuesStay
  <2>2. \/ /\ handler \in {"accepted", "opening"} /\ handler' = "ended" /\ result' = "cancelled"
        \/ /\ handler = "waiting" /\ handler' = "stopping"
           /\ result' = "cancelled" \/ (result' = "none" /\ OneStopped)
    BY <1>3 DEF Wake, CancelHandler
  <2>6. fault' = fault
    BY <1>3 DEF Wake, CancelHandler
  <2>3. BridgeTypeOK'
    BY <2>1, <2>2, <2>6 DEF QueuesStay, BridgeTypeOK
  <2>4. NothingIsLost'
    BY <2>1 DEF QueuesStay, NothingIsLost
  <2>5. HandlerAgrees'
    BY <2>1, <2>2 DEF QueuesStay, HandlerAgrees
  <2>7. StopsHaveReasons'
    BY <2>1, <2>2, <2>6 DEF QueuesStay, StopsHaveReasons, HandlerAgrees, OneStopped, Running, BridgeTypeOK
  <2> QED
    BY <2>1, <2>2, <2>3, <2>4, <2>5, <2>6, <2>7 DEF HandlerAgrees
<1>4. CASE PumpCancelled \/ RelayCancelled
  <2>1. QueuesStay /\ vapi' = vapi /\ sarvam' = sarvam /\ handler' = handler /\ result' = result
        /\ fault' = fault /\ handler = "stopping"
    BY <1>4 DEF PumpCancelled, RelayCancelled, QueuesStay
  <2>2. \/ pump \in Running /\ pump' = "cancelled" /\ relay' = relay
        \/ relay \in Running /\ relay' = "cancelled" /\ pump' = pump
    BY <1>4 DEF PumpCancelled, RelayCancelled, Cancelled
  <2>3. BridgeTypeOK'
    BY <2>1, <2>2 DEF QueuesStay, BridgeTypeOK
  <2>4. NothingIsLost'
    BY <2>1, <2>2 DEF QueuesStay, NothingIsLost, Running
  <2>5. HandlerAgrees'
    BY <2>1, <2>2 DEF QueuesStay, HandlerAgrees, Running
  <2>7. StopsHaveReasons'
    BY <2>1, <2>2 DEF QueuesStay, StopsHaveReasons, Running
  <2> QED
    BY <2>1, <2>2, <2>3, <2>4, <2>5, <2>7 DEF Running
<1>5. CASE Gathered
  <2>1. QueuesStay /\ vapi' = vapi /\ sarvam' = sarvam /\ pump' = pump /\ relay' = relay
        /\ fault' = fault /\ handler = "stopping" /\ handler' = "closing" /\ result' = Outcome
        /\ pump \notin Running /\ relay \notin Running
    BY <1>5 DEF Gathered, QueuesStay, BothStopped
  <2>2. /\ Outcome \in {"cancelled", "error", "quiet"}
        /\ Outcome = "error" => pump = "failed" \/ relay \in {"failed", "done"}
        /\ Outcome = "quiet" => pump = "done" \/ relay = "refused"
    BY <2>1 DEF Outcome, StopsHaveReasons, BridgeTypeOK, Running
  <2>3. BridgeTypeOK'
    BY <2>1, <2>2 DEF QueuesStay, BridgeTypeOK
  <2>4. NothingIsLost'
    BY <2>1 DEF QueuesStay, NothingIsLost
  <2>5. HandlerAgrees'
    BY <2>1 DEF QueuesStay, HandlerAgrees
  <2>6. StopsHaveReasons'
    BY <2>1 DEF QueuesStay, StopsHaveReasons
  <2>7. (result' = "quiet" => ~vapi) /\ (result' = "error" => fault)
    BY <2>1, <2>2 DEF StopsHaveReasons
  <2> QED
    BY <2>1, <2>3, <2>4, <2>5, <2>6, <2>7
<1>6. CASE CloseStream
  <2>1. QueuesStay /\ vapi' = vapi /\ sarvam' = "closed" /\ pump' = pump /\ relay' = relay
        /\ fault' = fault /\ handler = "closing" /\ handler' = "ended" /\ result' = result
    BY <1>6 DEF CloseStream, QueuesStay
  <2>3. BridgeTypeOK'
    BY <2>1 DEF QueuesStay, BridgeTypeOK
  <2>4. NothingIsLost'
    BY <2>1 DEF QueuesStay, NothingIsLost
  <2>5. HandlerAgrees'
    BY <2>1 DEF QueuesStay, HandlerAgrees
  <2>6. StopsHaveReasons'
    BY <2>1 DEF QueuesStay, StopsHaveReasons
  <2> QED
    BY <2>1, <2>3, <2>4, <2>5, <2>6 DEF HandlerAgrees
<1>7. CASE PumpFails
  <2>1. QueuesStay /\ vapi' = vapi /\ sarvam' = sarvam /\ pump' = "failed" /\ relay' = relay
        /\ fault' = TRUE /\ handler = "waiting" /\ handler' = handler /\ result' = result
    BY <1>7 DEF PumpFails, QueuesStay
  <2>3. BridgeTypeOK'
    BY <2>1 DEF QueuesStay, BridgeTypeOK
  <2>4. NothingIsLost'
    BY <2>1 DEF QueuesStay, NothingIsLost, Running
  <2>5. HandlerAgrees'
    BY <2>1 DEF QueuesStay, HandlerAgrees
  <2>6. StopsHaveReasons'
    BY <2>1 DEF QueuesStay, StopsHaveReasons
  <2> QED
    BY <2>1, <2>3, <2>4, <2>5, <2>6 DEF Running
<1>8. ASSUME NEW how \in {"ended", "lost"}, SarvamStops(how) PROVE BridgeIInv'
  <2>1. QueuesStay /\ vapi' = vapi /\ sarvam = "open" /\ sarvam' = how /\ pump' = pump /\ relay' = relay
        /\ fault' = fault /\ handler' = handler /\ result' = result
    BY <1>8 DEF SarvamStops, QueuesStay
  <2>3. BridgeTypeOK'
    BY <2>1 DEF QueuesStay, BridgeTypeOK
  <2>4. NothingIsLost'
    BY <2>1 DEF QueuesStay, NothingIsLost
  <2>5. HandlerAgrees'
    BY <2>1 DEF QueuesStay, HandlerAgrees
  <2>6. StopsHaveReasons'
    BY <2>1 DEF QueuesStay, StopsHaveReasons
  <2> QED
    BY <2>1, <2>3, <2>4, <2>5, <2>6
<1> QED
  BY <1>1, <1>2, <1>3, <1>4, <1>5, <1>6, <1>7, <1>8

\* Vapi sends a frame that is no audio, speaks, or hangs up.
LEMMA VapiSteps ==
    ASSUME BridgeIInv,
           (\E control \in Control : VapiSends(control)) \/ VapiSpeaks \/ VapiHangsUp
    PROVE  BridgeIInv'
<1> USE DEF BridgeIInv, BridgeAddsUp
<1> DEFINE taken == heard \o buffer
<1>0. /\ inbox \in Seq(Frame) /\ spoken \in Nat /\ taken \in Seq(1..MaxFrames)
      /\ heard \in Seq(1..MaxFrames)
  BY BridgeBounds DEF BridgeTypeOK
<1>1. /\ sarvam' = sarvam /\ outbox' = outbox /\ said' = said /\ pump' = pump /\ relay' = relay
      /\ buffer' = buffer /\ heard' = heard /\ shown' = shown
      /\ handler' = handler /\ result' = result /\ fault' = fault
  BY DEF VapiSends, VapiSpeaks, VapiHangsUp, sarvamSide, pumpVars, relayVars
<1>2. PICK m \in Frame :
        /\ inbox' = Append(inbox, m)
        /\ \/ m.type # "audio" /\ spoken' = spoken
           \/ m.type = "audio" /\ m.n = spoken + 1 /\ spoken' = spoken + 1 /\ spoken' \in 0..MaxFrames
        /\ vapi' = (vapi /\ m.type # "hangup")
  <2>1. ASSUME NEW control \in Control, VapiSends(control)
        PROVE  \E m \in Frame :
                 /\ inbox' = Append(inbox, m) /\ m.type # "audio" /\ spoken' = spoken
                 /\ vapi' = (vapi /\ m.type # "hangup")
    <3>1. [type |-> control] \in Frame /\ [type |-> control].type = control
      BY FrameFields
    <3>2. control \notin {"audio", "hangup"}
      BY DEF Control
    <3>3. inbox' = Append(inbox, [type |-> control]) /\ vapi' = vapi /\ spoken' = spoken
      BY <2>1 DEF VapiSends
    <3>4. vapi \in BOOLEAN
      BY DEF BridgeTypeOK
    <3> QED
      BY <3>1, <3>2, <3>3, <3>4
  <2>2. ASSUME VapiSpeaks
        PROVE  \E m \in Frame :
                 /\ inbox' = Append(inbox, m) /\ m.type = "audio" /\ m.n = spoken + 1
                 /\ spoken' = spoken + 1 /\ spoken' \in 0..MaxFrames
                 /\ vapi' = (vapi /\ m.type # "hangup")
    <3>1. spoken + 1 \in 1..MaxFrames
      BY <1>0, <2>2, BridgeBounds DEF VapiSpeaks, BridgeTypeOK
    <3> DEFINE m == [type |-> "audio", n |-> spoken + 1]
    <3>2. m \in Frame /\ m.type = "audio" /\ m.n = spoken + 1
      BY <3>1, FrameFields
    <3>3. inbox' = Append(inbox, m) /\ spoken' = spoken + 1 /\ vapi' = vapi
      BY <2>2 DEF VapiSpeaks
    <3>4. vapi \in BOOLEAN
      BY DEF BridgeTypeOK
    <3> HIDE DEF m
    <3> QED
      BY <3>1, <3>2, <3>3, <3>4
  <2>3. ASSUME VapiHangsUp
        PROVE  \E m \in Frame :
                 /\ inbox' = Append(inbox, m) /\ m.type # "audio" /\ spoken' = spoken
                 /\ vapi' = (vapi /\ m.type # "hangup")
    <3>1. [type |-> "hangup"] \in Frame /\ [type |-> "hangup"].type = "hangup"
      BY FrameFields
    <3>2. inbox' = Append(inbox, [type |-> "hangup"]) /\ vapi' = FALSE /\ spoken' = spoken
      BY <2>3 DEF VapiHangsUp
    <3> QED
      BY <3>1, <3>2
  <2> QED
    BY <2>1, <2>2, <2>3
<1>3. inbox' \in Seq(Frame)
  BY <1>0, <1>2, Queued
<1>4. ASSUME NEW first \in Nat, first <= spoken + 1, Waiting(inbox, "audio", first, spoken)
      PROVE  Waiting(inbox', "audio", first, spoken')
  BY <1>0, <1>2, <1>4, WaitingAppend
<1>5. \A s \in Seq(1..MaxFrames) : IsPrefix(s, Numbers(spoken)) =>
        IsPrefix(s, Numbers(spoken')) /\ Len(s) + 1 \in Nat /\ Len(s) + 1 <= spoken + 1
  BY <1>0, <1>2, PrefixGrows
<1>6. BridgeTypeOK'
  BY <1>1, <1>2, <1>3 DEF BridgeTypeOK
<1>7. (heard \o buffer)' = taken
  BY <1>1
<1> HIDE DEF taken
<1>8. NothingIsLost'
  <2>1. IsPrefix(heard', Numbers(spoken'))
    BY <1>0, <1>1, <1>5 DEF NothingIsLost
  <2>2. ASSUME pump \in Running
        PROVE  IsPrefix(taken, Numbers(spoken')) /\ Waiting(inbox', "audio", Len(taken) + 1, spoken')
    <3>1. IsPrefix(taken, Numbers(spoken)) /\ Waiting(inbox, "audio", Len(taken) + 1, spoken)
      BY <2>2 DEF NothingIsLost, taken
    <3> QED
      BY <1>0, <1>4, <1>5, <3>1
  <2> QED
    BY <1>1, <1>7, <2>1, <2>2 DEF NothingIsLost
<1>9. HandlerAgrees'
  <2>1. handler \in {"accepted", "opening"} => Waiting(inbox', "audio", 1, spoken')
    BY <1>0, <1>4 DEF HandlerAgrees
  <2> QED
    BY <1>1, <2>1 DEF HandlerAgrees
<1>10. StopsHaveReasons'
  <2>1. (\E i \in 1..Len(inbox') : inbox'[i].type = "hangup") => ~vapi'
    BY <1>0, <1>2, HangupMoves DEF StopsHaveReasons
  <2> QED
    BY <1>1, <1>2, <2>1 DEF StopsHaveReasons
<1> QED
  BY <1>1, <1>2, <1>6, <1>8, <1>9, <1>10

\* Sarvam sends a transcript or a signal.
LEMMA SarvamSteps ==
    ASSUME BridgeIInv, (\E silent \in {"vad", "error"} : SarvamSends(silent)) \/ SarvamTranscribes
    PROVE  BridgeIInv'
<1> USE DEF BridgeIInv, BridgeAddsUp
<1>0. outbox \in Seq(Message) /\ said \in Nat /\ shown \in Seq(1..MaxTexts)
  BY BridgeBounds DEF BridgeTypeOK
<1>1. /\ sarvam = "open" /\ sarvam' = sarvam /\ inbox' = inbox /\ spoken' = spoken /\ vapi' = vapi
      /\ pump' = pump /\ relay' = relay /\ buffer' = buffer /\ heard' = heard /\ shown' = shown
      /\ handler' = handler /\ result' = result /\ fault' = fault
  BY DEF SarvamSends, SarvamTranscribes, vapiSide, pumpVars, relayVars
<1>2. PICK m \in Message :
        /\ outbox' = Append(outbox, m)
        /\ \/ m.type # "data" /\ said' = said
           \/ m.type = "data" /\ m.n = said + 1 /\ said' = said + 1 /\ said' \in 0..MaxTexts
  <2>1. ASSUME NEW silent \in {"vad", "error"}, SarvamSends(silent)
        PROVE  \E m \in Message : outbox' = Append(outbox, m) /\ m.type # "data" /\ said' = said
    <3>1. [type |-> silent] \in Message /\ [type |-> silent].type = silent
      BY FrameFields
    <3>2. outbox' = Append(outbox, [type |-> silent]) /\ said' = said
      BY <2>1 DEF SarvamSends
    <3> QED
      BY <3>1, <3>2
  <2>2. ASSUME SarvamTranscribes
        PROVE  \E m \in Message : /\ outbox' = Append(outbox, m) /\ m.type = "data"
                                  /\ m.n = said + 1 /\ said' = said + 1 /\ said' \in 0..MaxTexts
    <3>1. said + 1 \in 1..MaxTexts
      BY <1>0, <2>2, BridgeBounds DEF SarvamTranscribes, BridgeTypeOK
    <3> DEFINE m == [type |-> "data", n |-> said + 1]
    <3>2. m \in Message /\ m.type = "data" /\ m.n = said + 1
      BY <3>1, FrameFields
    <3>3. outbox' = Append(outbox, m) /\ said' = said + 1
      BY <2>2 DEF SarvamTranscribes
    <3> HIDE DEF m
    <3> QED
      BY <3>1, <3>2, <3>3
  <2> QED
    BY <2>1, <2>2
<1>3. outbox' \in Seq(Message) /\ outbox' # <<>> /\ (outbox # <<>> => Head(outbox') = Head(outbox))
  <2>1. outbox' \in Seq(Message) /\ outbox' # <<>>
    BY <1>0, <1>2, Queued
  <2>2. ASSUME outbox # <<>> PROVE Head(outbox') = Head(outbox)
    BY <1>0, <1>2, <2>1, <2>2, Queued, Shifted
  <2> QED
    BY <2>1, <2>2
<1>4. Len(shown) + 1 \in Nat /\ Len(shown) + 1 <= said + 1 /\ IsPrefix(shown, Numbers(said'))
  BY <1>0, <1>2, PrefixGrows DEF NothingIsLost
<1>5. relay \in Running => Waiting(outbox', "data", Len(shown) + 1, said')
  BY <1>0, <1>2, <1>4, WaitingAppend DEF NothingIsLost
<1>6. BridgeTypeOK'
  BY <1>1, <1>2, <1>3 DEF BridgeTypeOK
<1>7. NothingIsLost'
  BY <1>1, <1>4, <1>5 DEF NothingIsLost
<1>8. HandlerAgrees'
  BY <1>1 DEF HandlerAgrees
<1>9. StopsHaveReasons'
  BY <1>1, <1>3 DEF StopsHaveReasons
<1> QED
  BY <1>1, <1>6, <1>7, <1>8, <1>9

\* The first frame is taken off the queue; audio in its place ends the session.
LEMMA FirstFrameStep == BridgeIInv /\ FirstFrame => BridgeIInv'
<1> SUFFICES ASSUME BridgeIInv, FirstFrame PROVE BridgeIInv'
  OBVIOUS
<1> USE DEF BridgeIInv, BridgeAddsUp
<1>1. /\ handler = "accepted" /\ inbox # <<>> /\ inbox' = Tail(inbox) /\ vapi' = vapi
      /\ spoken' = spoken /\ sarvam' = sarvam /\ outbox' = outbox /\ said' = said /\ pump' = pump
      /\ relay' = relay /\ buffer' = buffer /\ heard' = heard /\ shown' = shown
  BY DEF FirstFrame, sarvamSide, pumpVars, relayVars
<1>2. \/ Head(inbox).type = "start" /\ handler' = "opening" /\ result' = result /\ fault' = fault
      \/ Head(inbox).type = "hangup" /\ handler' = "ended" /\ result' = "quiet" /\ fault' = fault
      \/ handler' = "ended" /\ result' = "error" /\ fault' = TRUE
  BY DEF FirstFrame, EndAs
<1>3. inbox \in Seq(Frame) /\ spoken \in Nat
  BY BridgeBounds DEF BridgeTypeOK
<1>4. inbox' \in Seq(Frame)
  BY <1>1, <1>3, Shifted
<1>5. /\ sarvam = "none" /\ said = 0 /\ outbox = <<>> /\ heard = <<>> /\ buffer = <<>> /\ shown = <<>>
      /\ Waiting(inbox, "audio", 1, spoken)
      /\ pump \notin Running /\ relay \notin Running /\ result = "none"
  BY <1>1 DEF HandlerAgrees
<1>6. Head(inbox).type = "start" => Waiting(inbox', "audio", 1, spoken)
  <2>1. ASSUME Head(inbox).type # "audio" PROVE Waiting(Tail(inbox), "audio", 1, spoken)
    BY <1>1, <1>3, <1>5, <2>1, WaitingTail
  <2> QED
    BY <1>1, <2>1
<1>7. (\E i \in 1..Len(inbox') : inbox'[i].type = "hangup") => ~vapi
  BY <1>1, <1>3, HangupMoves DEF StopsHaveReasons
<1>8. Head(inbox).type = "hangup" => ~vapi
  BY <1>1, <1>3, HangupMoves DEF StopsHaveReasons
<1>13. fault' \in BOOLEAN /\ handler' \in {"opening", "ended"} /\ result' \in {"none", "quiet", "error"}
  <2>1. fault \in BOOLEAN
    BY DEF BridgeTypeOK
  <2> QED
    BY <1>2, <1>5, <2>1
<1>9. BridgeTypeOK'
  BY <1>1, <1>4, <1>13 DEF BridgeTypeOK
<1>10. NothingIsLost'
  BY <1>1, <1>5 DEF NothingIsLost
<1>11. HandlerAgrees'
  BY <1>1, <1>2, <1>5, <1>6 DEF HandlerAgrees
<1>12. StopsHaveReasons'
  BY <1>1, <1>2, <1>7 DEF StopsHaveReasons
<1> QED
  BY <1>1, <1>2, <1>5, <1>8, <1>9, <1>10, <1>11, <1>12

\* The pump takes a frame, or sends what it buffered.
LEMMA PumpSteps == BridgeIInv /\ (PumpReceives \/ PumpSends) => BridgeIInv'
<1> SUFFICES ASSUME BridgeIInv, PumpReceives \/ PumpSends PROVE BridgeIInv'
  OBVIOUS
<1> USE DEF BridgeIInv, BridgeAddsUp
<1> DEFINE taken == heard \o buffer
<1>1. /\ handler = "waiting" /\ handler' = handler /\ vapi' = vapi /\ pump \in Running /\ pump # "reading"
      /\ spoken' = spoken /\ sarvam' = sarvam /\ outbox' = outbox /\ said' = said
      /\ relay' = relay /\ shown' = shown /\ result' = result /\ fault' = fault
  BY DEF PumpReceives, PumpSends, Alive, vapiSide, sarvamSide, relayVars, Running
<1>2. /\ inbox \in Seq(Frame) /\ spoken \in Nat
      /\ heard \in Seq(1..MaxFrames) /\ buffer \in Seq(1..MaxFrames) /\ taken \in Seq(1..MaxFrames)
  BY BridgeBounds DEF BridgeTypeOK
<1>3. IsPrefix(taken, Numbers(spoken)) /\ Waiting(inbox, "audio", Len(taken) + 1, spoken)
      /\ IsPrefix(heard, Numbers(spoken)) /\ Len(taken) \in Nat
  BY <1>1, <1>2 DEF NothingIsLost
<1>4. CASE PumpSends
  <2>1. /\ heard' = taken /\ buffer' = <<>> /\ pump' = "receiving" /\ inbox' = inbox
    BY <1>4 DEF PumpSends, vapiSide
  <2>2. <<>> \in Seq(1..MaxFrames) /\ taken \o <<>> = taken
    BY <1>2
  <2>3. (heard \o buffer)' = taken
    BY <2>1, <2>2
  <2> HIDE DEF taken
  <2>4. BridgeTypeOK'
    BY <1>1, <1>2, <2>1, <2>2 DEF BridgeTypeOK
  <2>5. NothingIsLost'
    BY <1>1, <1>3, <2>1, <2>3 DEF NothingIsLost
  <2>6. HandlerAgrees'
    BY <1>1, <2>1 DEF HandlerAgrees
  <2>7. StopsHaveReasons'
    BY <1>1, <2>1 DEF StopsHaveReasons
  <2> QED
    BY <1>1, <2>1, <2>4, <2>5, <2>6, <2>7 DEF HandlerAgrees
<1>5. CASE PumpReceives
  <2> DEFINE frame == Head(inbox)
  <2>1. /\ inbox # <<>> /\ inbox' = Tail(inbox) /\ heard' = heard
        /\ \/ frame.type = "hangup" /\ pump' = "done" /\ buffer' = buffer
           \/ frame.type \in Control /\ pump' = pump /\ buffer' = buffer
           \/ /\ frame.type = "audio" /\ buffer' = Append(buffer, frame.n)
              /\ pump' \in {"sending", "receiving"}
    BY <1>5 DEF PumpReceives
  <2>2. frame \in Frame /\ inbox' \in Seq(Frame)
    BY <1>2, <2>1, Shifted
  <2>3. pump' \in {"receiving", "sending", "done"} /\ (pump' = "done" => frame.type = "hangup")
        /\ (pump' # "done" => frame.type # "hangup")
    BY <1>1, <2>1 DEF Running, Control
  <2>4. frame.type = "hangup" => ~vapi
    BY <1>2, <2>1, HangupMoves DEF StopsHaveReasons
  <2>5. (\E i \in 1..Len(inbox') : inbox'[i].type = "hangup") => ~vapi
    BY <1>2, <2>1, HangupMoves DEF StopsHaveReasons
  <2>6. /\ buffer' \in Seq(1..MaxFrames)
        /\ pump' # "done" =>
             LET t == heard \o buffer' IN
             IsPrefix(t, Numbers(spoken)) /\ Waiting(inbox', "audio", Len(t) + 1, spoken)
    <3>1. CASE frame.type = "audio"
      <4>1. frame.n = Len(taken) + 1 /\ Len(taken) + 1 <= spoken
            /\ Waiting(inbox', "audio", Len(taken) + 2, spoken)
        <5>1. Len(taken) + 1 \in Nat /\ (Len(taken) + 1) + 1 = Len(taken) + 2
          BY <1>3
        <5> HIDE DEF taken
        <5> QED
          BY <1>2, <1>3, <2>1, <3>1, <5>1, WaitingTail
      <4>2. frame.n \in 1..MaxFrames
        BY <2>2, <3>1, FrameFields
      <4>3. buffer' = Append(buffer, frame.n) /\ buffer' \in Seq(1..MaxFrames)
        <5>1. buffer' = Append(buffer, frame.n)
          BY <2>1, <3>1 DEF Control
        <5> HIDE DEF frame
        <5> QED
          BY <1>2, <4>2, <5>1, Queued
      <4>4. heard \o buffer' = Append(taken, frame.n)
        BY <1>2, <4>2, <4>3
      <4> HIDE DEF taken, frame
      <4>5. IsPrefix(Append(taken, frame.n), Numbers(spoken))
        BY <1>2, <1>3, <4>1, PrefixGrows
      <4>6. Len(Append(taken, frame.n)) + 1 = Len(taken) + 2
        BY <1>2, <4>2
      <4> QED
        BY <4>1, <4>3, <4>4, <4>5, <4>6
    <3>2. CASE frame.type # "audio"
      <4>1. buffer' = buffer
        BY <2>1, <3>2
      <4>2. Waiting(inbox', "audio", Len(taken) + 1, spoken)
        <5>1. Len(taken) + 1 \in Nat
          BY <1>3
        <5> HIDE DEF taken
        <5> QED
          BY <1>2, <1>3, <2>1, <3>2, <5>1, WaitingTail
      <4> QED
        BY <1>2, <1>3, <4>1, <4>2
    <3> QED
      BY <3>1, <3>2
  <2> HIDE DEF taken, frame
  <2>7. BridgeTypeOK'
    BY <1>1, <2>1, <2>2, <2>3, <2>6 DEF BridgeTypeOK
  <2>8. NothingIsLost'
    <3>1. (heard \o buffer)' = heard \o buffer'
      BY <2>1
    <3>2. IsPrefix(heard', Numbers(spoken')) /\ IsPrefix(shown', Numbers(said'))
          /\ (relay' \in Running => Waiting(outbox', "data", Len(shown') + 1, said'))
      BY <1>1, <2>1 DEF NothingIsLost
    <3>3. pump' \in Running => pump' # "done"
      BY DEF Running
    <3> QED
      BY <1>1, <2>6, <3>1, <3>2, <3>3 DEF NothingIsLost
  <2>9. HandlerAgrees'
    BY <1>1, <2>3 DEF HandlerAgrees
  <2>10. StopsHaveReasons'
    BY <1>1, <2>3, <2>4, <2>5 DEF StopsHaveReasons
  <2> QED
    BY <1>1, <2>7, <2>8, <2>9, <2>10 DEF HandlerAgrees
<1> QED
  BY <1>4, <1>5

\* The relay reads a message or learns that the connection is gone, or sends a transcript.
LEMMA RelaySteps == BridgeIInv /\ (RelayReads \/ RelaySends) => BridgeIInv'
<1> SUFFICES ASSUME BridgeIInv, RelayReads \/ RelaySends PROVE BridgeIInv'
  OBVIOUS
<1> USE DEF BridgeIInv, BridgeAddsUp
<1>1. /\ handler = "waiting" /\ handler' = handler /\ vapi' = vapi /\ relay \in Running
      /\ inbox' = inbox /\ spoken' = spoken /\ sarvam' = sarvam /\ said' = said
      /\ pump' = pump /\ buffer' = buffer /\ heard' = heard /\ result' = result
  BY DEF RelayReads, RelaySends, Alive, vapiSide, pumpVars, Running
<1>2. outbox \in Seq(Message) /\ said \in Nat /\ shown \in Seq(1..MaxTexts) /\ Len(shown) \in Nat
  BY BridgeBounds DEF BridgeTypeOK
<1>3. IsPrefix(shown, Numbers(said)) /\ Waiting(outbox, "data", Len(shown) + 1, said)
  BY <1>1 DEF NothingIsLost
<1>4. outbox # <<>> =>
        /\ Head(outbox) \in Message /\ Head(outbox).type \in {"data", "vad", "error"}
        /\ Tail(outbox) \in Seq(Message)
        /\ Head(outbox).type # "data" => Waiting(Tail(outbox), "data", Len(shown) + 1, said)
        /\ Head(outbox).type = "data" =>
             /\ Head(outbox).n = Len(shown) + 1 /\ Len(shown) + 1 <= said
             /\ Waiting(Tail(outbox), "data", Len(shown) + 2, said)
             /\ Head(outbox).n \in 1..MaxTexts
  <2>1. Len(shown) + 1 \in Nat /\ (Len(shown) + 1) + 1 = Len(shown) + 2
    BY <1>2
  <2>2. ASSUME outbox # <<>>
        PROVE  /\ Head(outbox) \in Message /\ Head(outbox).type \in {"data", "vad", "error"}
               /\ Tail(outbox) \in Seq(Message)
               /\ Head(outbox).type = "data" => Head(outbox).n \in 1..MaxTexts
    BY <1>2, <2>2, Shifted, FrameFields
  <2> QED
    BY <1>2, <1>3, <2>1, <2>2, WaitingTail
<1>5. CASE RelayReads
  <2>1. shown' = shown
    BY <1>5 DEF RelayReads
  <2>2. \/ /\ outbox # <<>> /\ Head(outbox).type = "data" /\ outbox' = outbox /\ relay' = "sending"
        \/ /\ outbox # <<>> /\ Head(outbox).type = "vad" /\ outbox' = Tail(outbox) /\ relay' = "reading"
        \/ /\ outbox # <<>> /\ Head(outbox).type = "error" /\ outbox' = Tail(outbox) /\ relay' = "failed"
        \/ outbox' = outbox /\ relay' \in {"done", "failed"}
    BY <1>4, <1>5 DEF RelayReads
  <2>3. fault' \in BOOLEAN /\ (fault => fault') /\ (relay' \in {"done", "failed"} => fault')
    BY <1>5 DEF RelayReads, BridgeTypeOK
  <2>4. BridgeTypeOK'
    BY <1>1, <1>2, <1>4, <2>1, <2>2, <2>3 DEF BridgeTypeOK
  <2>5. relay' \in Running => Waiting(outbox', "data", Len(shown') + 1, said')
    BY <1>1, <1>3, <1>4, <2>1, <2>2 DEF Running
  <2>6. NothingIsLost'
    BY <1>1, <2>1, <2>5 DEF NothingIsLost
  <2>7. HandlerAgrees'
    BY <1>1, <2>2 DEF HandlerAgrees
  <2>8. StopsHaveReasons'
    BY <1>1, <2>2, <2>3 DEF StopsHaveReasons
  <2> QED
    BY <1>1, <2>3, <2>4, <2>6, <2>7, <2>8 DEF HandlerAgrees
<1>6. CASE RelaySends
  <2>1. relay = "sending" /\ fault' = fault
    BY <1>6 DEF RelaySends
  <2>2. outbox # <<>> /\ Head(outbox).type = "data"
    BY <2>1 DEF StopsHaveReasons
  <2>3. \/ relay' = "reading" /\ shown' = Append(shown, Head(outbox).n) /\ outbox' = Tail(outbox)
        \/ ~vapi /\ relay' = "refused" /\ shown' = shown /\ outbox' = outbox
    BY <1>6 DEF RelaySends
  <2>4. ASSUME relay' = "reading", shown' = Append(shown, Head(outbox).n), outbox' = Tail(outbox)
        PROVE  /\ shown' \in Seq(1..MaxTexts) /\ outbox' \in Seq(Message)
               /\ IsPrefix(shown', Numbers(said)) /\ Waiting(outbox', "data", Len(shown') + 1, said)
    <3>1. shown' \in Seq(1..MaxTexts) /\ Len(shown') + 1 = Len(shown) + 2
      BY <1>2, <1>4, <2>2, <2>4
    <3>2. IsPrefix(shown', Numbers(said))
      BY <1>2, <1>3, <1>4, <2>2, <2>4, PrefixGrows
    <3> QED
      BY <1>4, <2>2, <2>4, <3>1, <3>2
  <2>5. shown' \in Seq(1..MaxTexts) /\ outbox' \in Seq(Message) /\ IsPrefix(shown', Numbers(said'))
        /\ (relay' \in Running => Waiting(outbox', "data", Len(shown') + 1, said'))
    BY <1>1, <1>2, <1>3, <2>3, <2>4 DEF Running
  <2>6. BridgeTypeOK'
    BY <1>1, <2>1, <2>3, <2>5 DEF BridgeTypeOK
  <2>7. NothingIsLost'
    BY <1>1, <2>5 DEF NothingIsLost
  <2>8. HandlerAgrees'
    BY <1>1, <2>3 DEF HandlerAgrees
  <2>9. StopsHaveReasons'
    BY <1>1, <2>1, <2>3 DEF StopsHaveReasons
  <2> QED
    BY <1>1, <2>1, <2>3, <2>6, <2>7, <2>8, <2>9 DEF HandlerAgrees
<1> QED
  BY <1>5, <1>6

\* Every step keeps the invariant.
LEMMA BridgeSteps == BridgeIInv /\ [BridgeNext]_bridgeVars => BridgeIInv'
<1> SUFFICES ASSUME BridgeIInv, [BridgeNext]_bridgeVars PROVE BridgeIInv'
  OBVIOUS
<1>1. CASE SessionStep
  BY <1>1, QuietSteps, FirstFrameStep, PumpSteps, RelaySteps DEF SessionStep
<1>2. CASE CancelHandler \/ \E how \in {"ended", "lost"} : SarvamStops(how)
  BY <1>2, QuietSteps
<1>3. CASE (\E control \in Control : VapiSends(control)) \/ VapiSpeaks \/ VapiHangsUp
  BY <1>3, VapiSteps
<1>4. CASE (\E silent \in {"vad", "error"} : SarvamSends(silent)) \/ SarvamTranscribes
  BY <1>4, SarvamSteps
<1>5. CASE UNCHANGED bridgeVars
  <2> USE DEF bridgeVars, vapiSide, sarvamSide, pumpVars, relayVars
  <2>1. BridgeAddsUp'
    BY <1>5 DEF BridgeIInv, BridgeAddsUp, BridgeTypeOK, NothingIsLost
  <2>2. HandlerAgrees' /\ StopsHaveReasons'
    BY <1>5 DEF BridgeIInv, HandlerAgrees, StopsHaveReasons
  <2> QED
    BY <2>1, <2>2 DEF BridgeIInv
<1> QED
  BY <1>1, <1>2, <1>3, <1>4, <1>5 DEF BridgeNext

\* The inductive invariant of a session.
THEOREM BridgeInvariance == BridgeSpec => []BridgeIInv
BY BridgeStarts, BridgeSteps, PTL DEF BridgeSpec

\* Nothing is lost or doubled on the way, and the end of a session is told for what it is
\* (main.py:132 and 147).
THEOREM SessionsAddUp == BridgeSpec => []BridgeAddsUp
<1>1. BridgeIInv => BridgeAddsUp
  BY DEF BridgeIInv
<1> QED
  BY <1>1, BridgeInvariance, PTL
=============================================================================
