--------------------------- MODULE CalendarLinks ---------------------------
(***************************************************************************)
(* Interviews and calls on the shared Google calendar                      *)
(* (app/api/routes/calendar.py): calendar_links maps an app event to the   *)
(* Google event made for it.  The calls to Google (services/               *)
(* google_calendar.py) lie between the reads and the writes of the link,   *)
(* and the one connection may be dropped or moved to another account.      *)
(* What an event says, its guests and its Meet link are left out.          *)
(***************************************************************************)
EXTENDS Integers, FiniteSets

CONSTANTS AppEvents,    \* ids of the app's events
          GoogleUsers,  \* accounts that may be connected; calendarId is "primary" of each
          Callers,      \* threads serving requests or a cascade delete
          MaxGoogle     \* bound: events made at Google in a behaviour

ASSUME CalendarBounds == MaxGoogle \in Nat

VARIABLES connection,  \* whose refresh token google_oauth holds, or "none"
          links,       \* calendar_links: the Google event of each app event, 0 if none
          google,      \* external: the events on Google's side
          made,        \* Google events made so far
          caller,      \* what each thread is doing
          mixed        \* history: app events handled by two requests at once, by one that
                       \* was lost halfway, or under another account than their event's

calendarVars == <<connection, links, google, made, caller, mixed>>

-----------------------------------------------------------------------------

GoogleIds == 1..MaxGoogle
AtRest == [stage |-> "idle"]
Busy == [stage : {"push", "pushed", "delete", "deleted", "clean"}, of : AppEvents,
         user : GoogleUsers \union {"none"}, id : GoogleIds \union {0}]

CalendarTypeOK ==
    /\ connection \in GoogleUsers \union {"none"}
    /\ links \in [AppEvents -> GoogleIds \union {0}]
    /\ google \subseteq [id : GoogleIds, of : AppEvents, user : GoogleUsers]
    /\ made \in 0..MaxGoogle
    /\ caller \in [Callers -> {AtRest} \union Busy]
    /\ mixed \subseteq AppEvents

Handles(c, e) == caller[c] # AtRest /\ caller[c].of = e
InUse(e) == \E c \in Callers : Handles(c, e)

\* The event id as the user's calendar has it: none if it is another account's.
OnCalendar(user, id) == {g \in google : g.id = id /\ g.user = user}
EventsOf(e) == {g.id : g \in {x \in google : x.of = e}}

-----------------------------------------------------------------------------
\* oauth_callback and disconnect: one row, "the most recent account always wins".

Connect(user) ==
    /\ connection # user
    /\ connection' = user
    /\ UNCHANGED <<links, google, made, caller, mixed>>

Disconnect ==
    /\ connection # "none"
    /\ connection' = "none"
    /\ UNCHANGED <<links, google, made, caller, mixed>>

-----------------------------------------------------------------------------
\* The reads at the start of each request.

Engage(c, e, stage) ==
    /\ caller[c] = AtRest
    /\ caller' = [caller EXCEPT ![c] =
         [stage |-> stage, of |-> e, user |-> connection, id |-> links[e]]]
    /\ mixed' = IF InUse(e) THEN mixed \union {e} ELSE mixed
    /\ UNCHANGED <<connection, links, google, made>>

BeginPush(c, e) == connection # "none" /\ Engage(c, e, "push")
BeginDelete(c, e) == connection # "none" /\ links[e] # 0 /\ Engage(c, e, "delete")

\* A cascade goes on without a connection: the links of an unreachable calendar go too.
BeginCleanup(c, e) == links[e] # 0 /\ Engage(c, e, "clean")

\* Google took the request, and the answer or the process was lost.
Lost(c) == caller' = [caller EXCEPT ![c] = AtRest] /\ mixed' = mixed \union {caller[c].of}

-----------------------------------------------------------------------------
\* upsert_event: an insert, or a patch of the event the link named.

Insert(c) ==
    /\ caller[c].stage = "push" /\ caller[c].id = 0
    /\ made < MaxGoogle
    /\ made' = made + 1
    /\ google' = google \union {[id |-> made', of |-> caller[c].of, user |-> caller[c].user]}
    /\ \/ /\ caller' = [caller EXCEPT ![c].stage = "pushed", ![c].id = made']
          /\ UNCHANGED mixed
       \/ Lost(c)
    /\ UNCHANGED <<connection, links>>

\* An event that is not on the connected calendar is an error: the link stays.
PatchEvent(c) ==
    /\ caller[c].stage = "push" /\ caller[c].id # 0
    /\ caller' = [caller EXCEPT ![c] =
         IF OnCalendar(caller[c].user, caller[c].id) = {} THEN AtRest
         ELSE [@ EXCEPT !.stage = "pushed"]]
    /\ UNCHANGED <<connection, links, google, made, mixed>>

StoreLink(c) ==
    /\ caller[c].stage = "pushed"
    /\ links' = [links EXCEPT ![caller[c].of] = caller[c].id]
    /\ caller' = [caller EXCEPT ![c] = AtRest]
    /\ UNCHANGED <<connection, google, made, mixed>>

-----------------------------------------------------------------------------
\* delete_event at Google: an event that is not there (404, 410) counts as deleted.

RemoveAtGoogle(c) ==
    /\ google' = google \ OnCalendar(caller[c].user, caller[c].id)
    /\ mixed' = IF OnCalendar(caller[c].user, caller[c].id) = {} THEN mixed \union {caller[c].of}
                ELSE mixed
    /\ caller' = [caller EXCEPT ![c].stage = "deleted"]

\* Mutant: a refusal is swallowed, as the cascade does.
DeleteAnyway(c) ==
    /\ caller[c].stage = "delete"
    /\ \/ RemoveAtGoogle(c)
       \/ /\ caller' = [caller EXCEPT ![c].stage = "deleted"]
          /\ UNCHANGED <<google, mixed>>
    /\ UNCHANGED <<connection, links, made>>

\* A refusal ends the request (Refused) and keeps the link.
DeleteAtGoogle(c) ==
    /\ caller[c].stage = "delete"
    /\ RemoveAtGoogle(c)
    /\ UNCHANGED <<connection, links, made>>

\* "Best-effort": refused, or not asked at all, the cascade drops the link.
CleanAtGoogle(c) ==
    /\ caller[c].stage = "clean"
    /\ \/ caller[c].user # "none" /\ RemoveAtGoogle(c)
       \/ /\ caller' = [caller EXCEPT ![c].stage = "deleted"]
          /\ mixed' = mixed \union {caller[c].of}
          /\ UNCHANGED google
    /\ UNCHANGED <<connection, links, made>>

DropLink(c) ==
    /\ caller[c].stage = "deleted"
    /\ links' = [links EXCEPT ![caller[c].of] = 0]
    /\ caller' = [caller EXCEPT ![c] = AtRest]
    /\ UNCHANGED <<connection, google, made, mixed>>

\* Google refuses, or the token is no longer good: nothing has happened.
Refused(c) ==
    /\ caller[c].stage \in {"push", "delete"}
    /\ caller' = [caller EXCEPT ![c] = AtRest]
    /\ UNCHANGED <<connection, links, google, made, mixed>>

\* The process dies, or the write of the link fails, after Google has acted.
DieHalfway(c) ==
    /\ caller[c].stage \in {"pushed", "deleted"}
    /\ Lost(c)
    /\ UNCHANGED <<connection, links, google, made>>

-----------------------------------------------------------------------------

CalendarInit ==
    /\ connection = "none"
    /\ links = [e \in AppEvents |-> 0]
    /\ google = {} /\ made = 0
    /\ caller = [c \in Callers |-> AtRest]
    /\ mixed = {}

CalendarNext ==
    \/ \E user \in GoogleUsers : Connect(user)
    \/ Disconnect
    \/ \E c \in Callers :
         \/ \E e \in AppEvents : BeginPush(c, e) \/ BeginDelete(c, e) \/ BeginCleanup(c, e)
         \/ Insert(c) \/ PatchEvent(c) \/ StoreLink(c)
         \/ DeleteAtGoogle(c) \/ CleanAtGoogle(c) \/ DropLink(c)
         \/ Refused(c) \/ DieHalfway(c)

CalendarSpec == CalendarInit /\ [][CalendarNext]_calendarVars

-----------------------------------------------------------------------------
\* What keeps the property, as one inductive invariant.

\* An id Google has given is one event's, and names it wherever it is kept.
IdsAreKept ==
    /\ \A g \in google :
         /\ g.id <= made
         /\ \A h \in google : h.id = g.id => h = g
         /\ \A e \in AppEvents : links[e] = g.id => g.of = e
         /\ \A c \in Callers : caller[c] # AtRest /\ caller[c].id = g.id => g.of = caller[c].of
    /\ \A e \in AppEvents : links[e] <= made
    /\ \A c \in Callers : caller[c] # AtRest =>
         caller[c].id <= made /\ (caller[c].stage = "push" => caller[c].user \in GoogleUsers)

\* Which event Google has, before and after the one request that is about it has asked.
EventFollows(e) ==
    /\ \A c, d \in Callers : Handles(c, e) /\ Handles(d, e) => c = d
    /\ ~InUse(e) => EventsOf(e) = {links[e]} \ {0}
    /\ \A c \in Callers : Handles(c, e) =>
         /\ caller[c].stage \in {"push", "delete", "clean"} =>
              caller[c].id = links[e] /\ EventsOf(e) = {links[e]} \ {0}
         /\ caller[c].stage = "pushed" => caller[c].id # 0 /\ EventsOf(e) = {caller[c].id}
         /\ caller[c].stage = "deleted" => EventsOf(e) = {}

CalendarIInv ==
    CalendarTypeOK /\ IdsAreKept /\ \A e \in AppEvents \ mixed : EventFollows(e)

-----------------------------------------------------------------------------
\* Property.

\* What is on Google's side for an app event is the event its link names, and nothing when
\* it has no link: no invitation stays in the guests' calendars that the app cannot reach
\* any more.  Refusals, reconnections and pushes and deletes in any order keep it so.  The
\* exceptions: two requests for the event overlapped (calendar.py:203 reads the link before
\* the call, 223 writes it after); one was lost after Google had acted; the event was
\* deleted while another account was connected, where it is not found (404, taken for
\* success); or a cascade gave up on Google (calendar.py:79) and dropped the link.
CalendarAgrees ==
    \A e \in AppEvents :
        \/ e \in mixed \/ InUse(e)
        \/ EventsOf(e) = {links[e]} \ {0}
=============================================================================
