--------------------------- MODULE ScreeningCalls ---------------------------
(***************************************************************************)
(* The AI screening calls of one candidate                                 *)
(* (app/services/screening_calls.py): HR starts a call, the provider dials *)
(* and posts events to the webhook.  Rows of different candidates share    *)
(* nothing, so one candidate is enough.                                    *)
(*                                                                         *)
(* Every repository operation is one statement and an upsert writes the    *)
(* whole document, so a handler is a read, a copy and a write, with other  *)
(* handlers in between.  A document is reduced to its status and whether   *)
(* it carries the provider's id; startedAt to the age of the call.         *)
(***************************************************************************)
EXTENDS Integers, FiniteSets

CONSTANTS Calls,      \* screening call ids
          Starters,   \* threads serving POST /api/screening-calls
          Hooks,      \* threads serving the provider's webhook
          Reported,   \* statuses a status-update reports (_PROVIDER_STATUSES)
          Outcomes    \* terminal statuses a report may lead to

QUEUED == "queued"
FAILED == "failed"
ACTIVE_STATUSES == {QUEUED, "ringing", "in-progress"}
TERMINAL_STATUSES == {"completed", FAILED, "no-answer", "declined"}

ASSUME ReportedAssumption == Reported \subseteq ACTIVE_STATUSES
ASSUME OutcomesAssumption == Outcomes \subseteq TERMINAL_STATUSES

VARIABLES provider,   \* "vapi" or "sarvam": the configured VoiceCallProvider
          calls,      \* the screening_calls table
          since,      \* "new" | "old" (_QUEUED_STALE_AFTER passed) | "stale" (_STALE_AFTER too)
          starter,    \* what each start_call is doing
          hook,       \* what each webhook handler is doing
          line,       \* the provider's own call: "none", "live" or "ended"
          events,     \* events posted; each is delivered any number of times
          answered,   \* history: calls whose report was answered 200
          missed,     \* history: ... before the row carried the provider's id
          torn,       \* history: calls of which two copies were open at once
          revived,    \* history: calls that began to block again
          rushed      \* history: two starts passed the active check together

callVars == <<provider, calls, since, starter, hook, line, events,
          answered, missed, torn, revived, rushed>>
history == <<answered, missed, torn, revived, rushed>>

-----------------------------------------------------------------------------

NoCall == [status |-> "none", bound |-> FALSE]
Row == [status : ACTIVE_STATUSES \union TERMINAL_STATUSES, bound : BOOLEAN]

Event == [call : Calls, says : Reported \union Outcomes]

Free == [stage |-> "idle"]
Starting == {Free, [stage |-> "cleared"]}
              \union [stage : {"inserted", "placed", "rejected"}, call : Calls]
              \union [stage : {"binding"}, call : Calls, copy : Row]
Handling == {Free} \union [stage : {"holding"}, event : Event, copy : Row]

CallTypeOK ==
    /\ provider \in {"vapi", "sarvam"}
    /\ calls \in [Calls -> Row \union {NoCall}]
    /\ since \in [Calls -> {"new", "old", "stale"}]
    /\ starter \in [Starters -> Starting]
    /\ hook \in [Hooks -> Handling]
    /\ line \in [Calls -> {"none", "live", "ended"}]
    /\ events \subseteq Event
    /\ answered \subseteq Calls /\ missed \subseteq Calls
    /\ torn \subseteq Calls /\ revived \subseteq Calls
    /\ rushed \in BOOLEAN

Terminal(c) == calls[c].status \in TERMINAL_STATUSES

\* Mutant: an active call blocks whatever its age.
BlocksAtAnyAge(status, a) == status \in ACTIVE_STATUSES

\* _is_blocking: the window is shorter while the call is still queued.
Blocks(status, a) ==
    /\ status \in ACTIVE_STATUSES
    /\ IF status = QUEUED THEN a = "new" ELSE a # "stale"

Blocking(c) == Blocks(calls[c].status, since[c])

Bound(s) == starter[s].stage \in {"inserted", "placed", "rejected", "binding"}
\* Handlers that hold a copy of c's row and will write it back.
OpenCopies(c) == {s \in Starters : starter[s].stage = "binding" /\ starter[s].call = c}
                   \union {h \in Hooks : hook[h] # Free /\ hook[h].event.call = c}

\* History kept when a copy of c is taken up and when c is written.
Opened(c) == torn' = IF OpenCopies(c) = {} THEN torn ELSE torn \union {c}
Written(c, status) ==
    revived' = IF Blocks(status, since[c]) /\ ~Blocking(c) THEN revived \union {c} ELSE revived

-----------------------------------------------------------------------------
\* start_call.

\* Mutant: only a call that was picked up counts as active.
EnsureNoCallInProgress(s) ==
    /\ starter[s] = Free
    /\ \A c \in Calls : calls[c].status # "in-progress"
    /\ starter' = [starter EXCEPT ![s] = [stage |-> "cleared"]]
    /\ rushed' = (rushed \/ \E t \in Starters : starter[t].stage = "cleared")
    /\ UNCHANGED <<provider, calls, since, hook, line, events, answered, missed, torn, revived>>

\* _ensure_no_active_call; a blocking call answers 409.
EnsureNoActiveCall(s) ==
    /\ starter[s] = Free
    /\ \A c \in Calls : ~Blocking(c)
    /\ starter' = [starter EXCEPT ![s] = [stage |-> "cleared"]]
    /\ rushed' = (rushed \/ \E t \in Starters : starter[t].stage = "cleared")
    /\ UNCHANGED <<provider, calls, since, hook, line, events, answered, missed, torn, revived>>

\* _new_call and its upsert, under a fresh id.
Insert(s, c) ==
    /\ starter[s].stage = "cleared"
    /\ calls[c] = NoCall
    /\ calls' = [calls EXCEPT ![c] = [status |-> QUEUED, bound |-> FALSE]]
    /\ starter' = [starter EXCEPT ![s] = [stage |-> "inserted", call |-> c]]
    /\ UNCHANGED <<provider, since, hook, line, events, history>>

\* create_phone_call or create_web_call returned the provider's id.
PlaceCall(s) ==
    /\ starter[s].stage = "inserted"
    /\ line[starter[s].call] # "none"
    /\ starter' = [starter EXCEPT ![s].stage = "placed"]
    /\ UNCHANGED <<provider, calls, since, hook, line, events, history>>

\* VoiceCallError: the provider refused, could not be reached, or placed the call
\* and its answer timed out or was malformed.
PlaceFails(s) ==
    /\ starter[s].stage = "inserted"
    /\ starter' = [starter EXCEPT ![s].stage = "rejected"]
    /\ UNCHANGED <<provider, calls, since, hook, line, events, history>>

\* except VoiceCallError: the document of the insert is written back as failed.
RecordRejection(s) ==
    /\ starter[s].stage = "rejected"
    /\ LET c == starter[s].call IN
       /\ calls' = [calls EXCEPT ![c] = [status |-> FAILED, bound |-> FALSE]]
       /\ Opened(c)
    /\ starter' = [starter EXCEPT ![s] = Free]
    /\ UNCHANGED <<provider, since, hook, line, events, answered, missed, revived, rushed>>

\* _bind_provider_call: read the current row, then write it with the ids.
BindRead(s) ==
    /\ starter[s].stage = "placed"
    /\ LET c == starter[s].call IN
       /\ starter' = [starter EXCEPT ![s] = [stage |-> "binding", call |-> c, copy |-> calls[c]]]
       /\ Opened(c)
    /\ UNCHANGED <<provider, calls, since, hook, line, events, answered, missed, revived, rushed>>

BindWrite(s) ==
    /\ starter[s].stage = "binding"
    /\ LET c == starter[s].call IN
       /\ calls' = [calls EXCEPT ![c] = [starter[s].copy EXCEPT !.bound = TRUE]]
       /\ Written(c, starter[s].copy.status)
    /\ starter' = [starter EXCEPT ![s] = Free]
    /\ UNCHANGED <<provider, since, hook, line, events, answered, missed, torn, rushed>>

-----------------------------------------------------------------------------
\* The webhook: apply_event and apply_sarvam_event.

\* Mutant: every event is matched on the provider's id alone.
FoundByProviderId(c) == calls[c] # NoCall /\ calls[c].bound

\* Vapi's events carry our id in the assistant's metadata; Sarvam's are matched
\* on the provider's id alone, so the row must carry it.
Found(c) == calls[c] # NoCall /\ (provider = "vapi" \/ calls[c].bound)

\* An unknown call, or a replay after completion: answered 200, nothing is done.
IgnoreEvent(ev) ==
    /\ ev \in events
    /\ ~Found(ev.call) \/ Terminal(ev.call)
    /\ answered' = IF ev.says \in Outcomes THEN answered \union {ev.call} ELSE answered
    /\ missed' = IF ev.says \in Outcomes /\ ~Found(ev.call)
                 THEN missed \union {ev.call} ELSE missed
    /\ UNCHANGED <<provider, calls, since, starter, hook, line, events, torn, revived, rushed>>

\* Mutant: an event is applied to a finished call.
FindAnyCall(h, ev) ==
    /\ hook[h] = Free
    /\ ev \in events
    /\ Found(ev.call)
    /\ hook' = [hook EXCEPT ![h] = [stage |-> "holding", event |-> ev, copy |-> calls[ev.call]]]
    /\ Opened(ev.call)
    /\ UNCHANGED <<provider, calls, since, starter, line, events, answered, missed, revived, rushed>>

\* The row is found and not finished: the handler goes on with its copy.
FindCall(h, ev) ==
    /\ hook[h] = Free
    /\ ev \in events
    /\ Found(ev.call)
    /\ ~Terminal(ev.call)
    /\ hook' = [hook EXCEPT ![h] = [stage |-> "holding", event |-> ev, copy |-> calls[ev.call]]]
    /\ Opened(ev.call)
    /\ UNCHANGED <<provider, calls, since, starter, line, events, answered, missed, revived, rushed>>

\* The handler writes its copy back with the status the event leads to.
StoreCopy(h) ==
    LET ev == hook[h].event IN
    /\ calls' = [calls EXCEPT ![ev.call] = [hook[h].copy EXCEPT !.status = ev.says]]
    /\ Written(ev.call, ev.says)
    /\ hook' = [hook EXCEPT ![h] = Free]
    /\ UNCHANGED <<provider, since, starter, line, events, missed, torn, rushed>>

\* _apply_status: a progress report of Vapi.
ApplyStatus(h) ==
    /\ hook[h].stage = "holding" /\ provider = "vapi"
    /\ hook[h].event.says \in Reported
    /\ StoreCopy(h)
    /\ UNCHANGED answered

\* _apply_report and _score: Vapi's report ends the call, whatever it says.
ApplyReport(h) ==
    /\ hook[h].stage = "holding" /\ provider = "vapi"
    /\ hook[h].event.says \in Outcomes
    /\ StoreCopy(h)
    /\ answered' = answered \union {hook[h].event.call}

\* apply_sarvam_event: Sarvam's only result, under the status call_status and
\* outcome_status read from it, or "declined" from _score.
ApplySarvamEvent(h) ==
    /\ hook[h].stage = "holding" /\ provider = "sarvam"
    /\ StoreCopy(h)
    /\ answered' = answered \union {hook[h].event.call}

\* A database error or a dead process ends a handler; the provider gets no 200.
Crash ==
    /\ \/ \E s \in Starters : starter[s] # Free /\ starter' = [starter EXCEPT ![s] = Free]
                              /\ UNCHANGED hook
       \/ \E h \in Hooks : hook[h] # Free /\ hook' = [hook EXCEPT ![h] = Free]
                           /\ UNCHANGED starter
    /\ UNCHANGED <<provider, calls, since, line, events, history>>

-----------------------------------------------------------------------------
\* The provider (external) and time.

Post(c, says) == events' = events \union {[call |-> c, says |-> says]}

\* The request arrived and the provider starts dialling.
ProviderCreates(c) ==
    /\ line[c] = "none"
    /\ \E s \in Starters : starter[s].stage = "inserted" /\ starter[s].call = c
    /\ line' = [line EXCEPT ![c] = "live"]
    /\ UNCHANGED <<provider, calls, since, starter, hook, events, history>>

\* Only Vapi posts status updates; Sarvam reports once, when the call ends.
ProviderProgresses(c, status) ==
    /\ provider = "vapi"
    /\ line[c] = "live"
    /\ Post(c, status)
    /\ UNCHANGED <<provider, calls, since, starter, hook, line, history>>

ProviderEnds(c, outcome) ==
    /\ line[c] = "live"
    /\ line' = [line EXCEPT ![c] = "ended"]
    /\ Post(c, outcome)
    /\ UNCHANGED <<provider, calls, since, starter, hook, history>>

GrowOld(c) ==
    /\ calls[c] # NoCall
    /\ since[c] # "stale"
    /\ since' = [since EXCEPT ![c] = IF @ = "new" THEN "old" ELSE "stale"]
    /\ UNCHANGED <<provider, calls, starter, hook, line, events, history>>

-----------------------------------------------------------------------------

CallInit ==
    /\ provider \in {"vapi", "sarvam"}
    /\ calls = [c \in Calls |-> NoCall]
    /\ since = [c \in Calls |-> "new"]
    /\ starter = [s \in Starters |-> Free]
    /\ hook = [h \in Hooks |-> Free]
    /\ line = [c \in Calls |-> "none"]
    /\ events = {}
    /\ answered = {} /\ missed = {} /\ torn = {} /\ revived = {}
    /\ rushed = FALSE

CallNext ==
    \/ \E s \in Starters :
         \/ EnsureNoActiveCall(s)
         \/ \E c \in Calls : Insert(s, c)
         \/ PlaceCall(s) \/ PlaceFails(s) \/ RecordRejection(s)
         \/ BindRead(s) \/ BindWrite(s)
    \/ \E ev \in events : IgnoreEvent(ev)
    \/ \E h \in Hooks :
         \/ ApplyStatus(h) \/ ApplyReport(h) \/ ApplySarvamEvent(h)
         \/ \E ev \in events : FindCall(h, ev)
    \/ Crash
    \/ \E c \in Calls :
         \/ ProviderCreates(c)
         \/ \E status \in Reported : ProviderProgresses(c, status)
         \/ \E outcome \in Outcomes : ProviderEnds(c, outcome)
         \/ GrowOld(c)

\* Only time passes for certain: handlers may crash and webhooks never arrive.
CallSpec == CallInit /\ [][CallNext]_callVars /\ \A c \in Calls : WF_callVars(GrowOld(c))

-----------------------------------------------------------------------------
\* What keeps the properties, as one inductive invariant.

\* A call is in the table before the provider, an event or a handler knows of it.
KnownCallsExist ==
    /\ \A c \in Calls : line[c] # "none" => calls[c] # NoCall
    /\ \A ev \in events : calls[ev.call] # NoCall
    /\ \A s \in Starters : Bound(s) => calls[starter[s].call] # NoCall

\* Ids are fresh: a call is started by one thread.
StartedOnce ==
    \A s, t \in Starters : Bound(s) /\ Bound(t) /\ starter[s].call = starter[t].call => s = t

\* Sarvam posts nothing but results.
SarvamPostsResults ==
    provider = "sarvam" =>
        /\ \A ev \in events : ev.says \in Outcomes
        /\ \A h \in Hooks : hook[h] # Free => hook[h].event.says \in Outcomes

\* Until a second copy of a row is taken, the one copy is what the table holds, and a webhook
\* works on a call that has no verdict.
CopiesAreCurrent ==
    /\ \A s \in Starters : starter[s].stage = "binding" /\ starter[s].call \notin torn =>
         /\ starter[s].copy = calls[starter[s].call]
         /\ \A h \in Hooks : hook[h] # Free => hook[h].event.call # starter[s].call
    /\ \A h \in Hooks : hook[h] # Free /\ hook[h].event.call \notin torn =>
         /\ hook[h].copy = calls[hook[h].event.call]
         /\ ~Terminal(hook[h].event.call)
         /\ \A g \in Hooks : hook[g] # Free /\ hook[g].event.call = hook[h].event.call => g = h

\* A thread that passed the check is alone, and while it is, no call blocks.
StartsAreAlone ==
    rushed \/
      /\ \A c, d \in Calls \ revived : Blocking(c) /\ Blocking(d) => c = d
      /\ \A s \in Starters : starter[s].stage = "cleared" =>
           /\ \A c \in Calls \ revived : ~Blocking(c)
           /\ \A t \in Starters : starter[t].stage = "cleared" => t = s

\* A report that was answered 200 has been recorded, though events repeat, come in
\* any order and may precede the answer that carries the provider's id; except a
\* result that found no row yet (Sarvam) and a row with two open copies.
ReportIsRecorded ==
    \A c \in answered \ torn :
        Terminal(c) \/ (provider = "sarvam" /\ c \in missed)

CallIInv ==
    /\ CallTypeOK
    /\ KnownCallsExist
    /\ StartedOnce
    /\ SarvamPostsResults
    /\ CopiesAreCurrent
    /\ StartsAreAlone
    /\ ReportIsRecorded

-----------------------------------------------------------------------------
\* Properties.

\* "CallAlreadyActive": a candidate has one call at a time, unless two starts
\* passed the check together or a call that had stopped blocking came back.
OneCallAtATime ==
    rushed \/ Cardinality({c \in Calls \ revived : Blocking(c)}) <= 1

\* "the service ignores events for a finished call" (webhook_auth.py:134): a
\* verdict stays what it is, unless two copies of the row were open at once or
\* start_call writes its own rejection.
VerdictIsFinal ==
    [][\A c \in Calls \ torn' :
         Terminal(c) =>
           \/ calls'[c].status = calls[c].status
           \/ \E s \in Starters : RecordRejection(s) /\ starter[s].call = c]_callVars

\* "A call whose webhook never arrived must not block new calls forever"
\* (screening_calls.py:46): whatever happens, every call stops blocking for good.
StopsBlocking == \A c \in Calls : <>[]~Blocking(c)
=============================================================================
