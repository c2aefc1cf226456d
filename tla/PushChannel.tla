---------------------------- MODULE PushChannel ----------------------------
(***************************************************************************)
(* What the outbox promises an employee write: a channel to id-sync that   *)
(* may skip, repeat and reorder changes, but forgets a change only when    *)
(* id-sync already holds it, a newer one, or the channel was disturbed.    *)
(* No claims, versions, leases or retries: IdentityOutbox implements this. *)
(***************************************************************************)
EXTENDS Integers

CONSTANTS Employees, Stamps

VARIABLES issued,     \* the changes submitted so far
          latest,     \* the change submitted last, 0 if none
          owed,       \* employees whose latest change is not settled
          registry,   \* what id-sync holds
          disturbed   \* employees for which the promise is off

Submit(e, m) ==
    /\ m \in Stamps \ issued[e]
    /\ issued' = [issued EXCEPT ![e] = @ \union {m}]
    /\ latest' = [latest EXCEPT ![e] = m]
    /\ owed' = owed \union {e}
    /\ UNCHANGED <<registry, disturbed>>

\* id-sync applies some submitted change newer than the one it holds.
Apply(e, m) ==
    /\ m \in issued[e]
    /\ m > registry[e]
    /\ registry' = [registry EXCEPT ![e] = m]
    /\ UNCHANGED <<issued, latest, owed, disturbed>>

Settle(e) ==
    /\ e \in owed
    /\ registry[e] >= latest[e] \/ e \in disturbed
    /\ owed' = owed \ {e}
    /\ UNCHANGED <<issued, latest, registry, disturbed>>

Disturb(e) ==
    /\ disturbed' = disturbed \union {e}
    /\ UNCHANGED <<issued, latest, owed, registry>>

Init ==
    /\ issued = [e \in Employees |-> {}]
    /\ latest = [e \in Employees |-> 0]
    /\ owed = {}
    /\ registry = [e \in Employees |-> 0]
    /\ disturbed = {}

Next ==
    \E e \in Employees :
        \/ \E m \in Stamps : Submit(e, m) \/ Apply(e, m)
        \/ Settle(e)
        \/ Disturb(e)

Spec == Init /\ [][Next]_<<issued, latest, owed, registry, disturbed>>
=============================================================================
