--------------------------- MODULE SeenSignatures ---------------------------
(***************************************************************************)
(* Signed webhooks of Vapi (services/webhook_auth.py, api/routes/          *)
(* vapi_webhook.py): Vapi repeats a delivery that failed or timed out, and *)
(* a signature that has been acted on is remembered.  Each event is signed *)
(* with its timestamp; the two clocks may differ.  The digest itself is    *)
(* external: a signature names one event.  What an event changes is in     *)
(* ScreeningCalls, which lets every event come again.                      *)
(***************************************************************************)
EXTENDS Integers, FiniteSets

CONSTANTS Events,      \* signed events
          Deliveries,  \* requests in progress
          Tolerance,   \* DEFAULT_TOLERANCE_SECONDS, the ttl of the entries as well
          MaxClock     \* bound: how long a behaviour lasts

ASSUME ClockAssumption == Tolerance \in Nat /\ MaxClock \in Nat

VARIABLES clock,     \* time.time()
          seen,      \* _seen: when each signature was remembered, or NotSeen
          delivery,  \* what each request is doing
          stamp,     \* the timestamp each event is signed with
          acted,     \* history: how often each event was applied (counted to 2)
          doubtful   \* history: events that two deliveries carried at once, whose delivery
                     \* died between the handler and remember, stamped ahead of this clock,
                     \* or remembered by a process that has restarted

signatureVars == <<clock, seen, delivery, stamp, acted, doubtful>>

-----------------------------------------------------------------------------

Times == 0..MaxClock
NotSeen == -1
Waiting == [stage |-> "none"]

Delivering == {Waiting} \union [stage : {"checked", "applied"}, event : Events]

SignatureTypeOK ==
    /\ clock \in Times
    /\ seen \in [Events -> Times \union {NotSeen}]
    /\ delivery \in [Deliveries -> Delivering]
    /\ stamp \in [Events -> 0..MaxClock + Tolerance]
    /\ acted \in [Events -> 0..2]
    /\ doubtful \subseteq Events

Fresh(e) == stamp[e] - clock \in -Tolerance..Tolerance

\* Mutant: an entry of exactly the ttl goes, while its event is still fresh.
EvictedEarly == [e \in Events |->
    IF seen[e] # NotSeen /\ seen[e] <= clock - Tolerance THEN NotSeen ELSE seen[e]]

\* _evict: an entry goes when it is older than the ttl.
Evicted == [e \in Events |->
    IF seen[e] # NotSeen /\ seen[e] < clock - Tolerance THEN NotSeen ELSE seen[e]]

Carried(e) == \E d \in Deliveries : delivery[d] # Waiting /\ delivery[d].event = e

\* require_vapi_auth: fresh, signed, and not used; the rest is refused (401, 409).
Receive(d, e) ==
    /\ delivery[d] = Waiting
    /\ Fresh(e)
    /\ seen' = Evicted
    /\ seen'[e] = NotSeen
    /\ delivery' = [delivery EXCEPT ![d] = [stage |-> "checked", event |-> e]]
    /\ doubtful' = IF Carried(e) \/ stamp[e] > clock THEN doubtful \union {e} ELSE doubtful
    /\ UNCHANGED <<clock, stamp, acted>>

RefuseUsed(e) ==
    /\ Fresh(e)
    /\ seen' = Evicted
    /\ seen'[e] # NotSeen
    /\ UNCHANGED <<clock, delivery, stamp, acted, doubtful>>

\* apply_event.
Apply(d) ==
    /\ delivery[d].stage = "checked"
    /\ acted' = [acted EXCEPT ![delivery[d].event] = IF @ = 2 THEN 2 ELSE @ + 1]
    /\ delivery' = [delivery EXCEPT ![d].stage = "applied"]
    /\ UNCHANGED <<clock, seen, stamp, doubtful>>

\* "Now it has been acted on, a second copy is a replay rather than a retry."
Remember(d) ==
    /\ delivery[d].stage = "applied"
    /\ seen' = [Evicted EXCEPT ![delivery[d].event] = clock]
    /\ delivery' = [delivery EXCEPT ![d] = Waiting]
    /\ UNCHANGED <<clock, stamp, acted, doubtful>>

\* The handler fails (the event has changed nothing, and Vapi sends it again) or the
\* request dies after it.
Fail(d) ==
    /\ delivery[d] # Waiting
    /\ doubtful' = IF delivery[d].stage = "applied" THEN doubtful \union {delivery[d].event}
                   ELSE doubtful
    /\ delivery' = [delivery EXCEPT ![d] = Waiting]
    /\ UNCHANGED <<clock, seen, stamp, acted>>

\* The signatures live in the process.
Restart ==
    /\ doubtful' = doubtful \union {e \in Events : seen[e] # NotSeen}
                            \union {delivery[d].event : d \in {x \in Deliveries :
                                                               delivery[x].stage = "applied"}}
    /\ seen' = [e \in Events |-> NotSeen]
    /\ delivery' = [d \in Deliveries |-> Waiting]
    /\ UNCHANGED <<clock, stamp, acted>>

Pass ==
    /\ clock < MaxClock
    /\ clock' = clock + 1
    /\ UNCHANGED <<seen, delivery, stamp, acted, doubtful>>

\* Vapi signs an event when it happens, by its own clock.
SignatureInit ==
    /\ clock = 0
    /\ seen = [e \in Events |-> NotSeen]
    /\ delivery = [d \in Deliveries |-> Waiting]
    /\ stamp \in [Events -> 0..MaxClock + Tolerance]
    /\ acted = [e \in Events |-> 0]
    /\ doubtful = {}

SignatureNext ==
    \/ \E d \in Deliveries :
         \/ \E e \in Events : Receive(d, e)
         \/ Apply(d) \/ Remember(d) \/ Fail(d)
    \/ \E e \in Events : RefuseUsed(e)
    \/ Restart
    \/ Pass

SignatureSpec == SignatureInit /\ [][SignatureNext]_signatureVars

-----------------------------------------------------------------------------
\* What keeps the property, as one inductive invariant.

At(d, stage, e) == delivery[d].stage = stage /\ delivery[d].event = e

\* One delivery at a time carries the event, which is applied in between; afterwards it is
\* remembered from a moment no earlier than its timestamp, or its freshness is over.
EventIsSingle(e) ==
    /\ acted[e] <= 1
    /\ Carried(e) \/ acted[e] = 1 => stamp[e] <= clock
    /\ \A d \in Deliveries :
         /\ At(d, "checked", e) => acted[e] = 0
         /\ At(d, "applied", e) => acted[e] = 1
         /\ \A c \in Deliveries :
              c # d /\ delivery[c] # Waiting /\ delivery[d] # Waiting =>
                  delivery[c].event # e \/ delivery[d].event # e
    /\ acted[e] = 1 /\ ~Carried(e) =>
         \/ seen[e] # NotSeen /\ stamp[e] <= seen[e]
         \/ stamp[e] + Tolerance < clock

SignatureIInv == SignatureTypeOK /\ \A e \in Events \ doubtful : EventIsSingle(e)

-----------------------------------------------------------------------------
\* Property.

\* "Signatures already acted on, so a valid request cannot be replayed"
\* (webhook_auth.py:124), where entries go after the freshness window because "past that
\* the timestamp check refuses the request anyway": an event is applied once, however
\* often it is delivered and whenever its handler fails.  The exceptions: two deliveries
\* were between the check and remember at once, one died after the handler, the process
\* restarted, or Vapi's clock was ahead of this one, so that the event was still fresh
\* when its entry, kept by the time of its handling, had gone.
AppliedOnce == \A e \in Events \ doubtful : acted[e] <= 1
=============================================================================
