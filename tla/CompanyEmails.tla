--------------------------- MODULE CompanyEmails ---------------------------
(***************************************************************************)
(* The backfill of company addresses (services/company_email_backfill.py   *)
(* and scripts/backfill_company_emails.py): a plan is made from one read   *)
(* of the employees and onboarding records and then applied one employee   *)
(* at a time, while HR edits the same employees.                           *)
(***************************************************************************)
EXTENDS Integers, FiniteSets

CONSTANTS Staff,      \* employee ids
          Company,    \* addresses on the company domain
          Private,    \* other addresses, or none at all
          Records,    \* onboarding records, by their candidate's id
          MaxEdits    \* bound: edits HR makes

ASSUME EmailAssumption == Company \intersect Private = {} /\ MaxEdits \in Nat

VARIABLES staff,    \* employees: address, whether offboarded, candidateId
          records,  \* onboarding: allocationEmail and employeeId
          plan,     \* the moves still to be applied: employee -> [old, new]
          phase,    \* of the script: "new", "apply" or "write"
          current,  \* the employee the script has read to move, as read
          edits,    \* edits so far
          touched   \* history: addresses HR gave to somebody while a plan was being applied

emailVars == <<staff, records, plan, phase, current, edits, touched>>

-----------------------------------------------------------------------------

Addresses == Company \union Private
Employee == [email : Addresses, offboarded : BOOLEAN, candidate : Records \union {"none"}]
Onboarding == [allocation : Addresses \union {"none"}, employee : Staff \union {"none"}]
Move == [old : Addresses, new : Addresses]
NoOnboarding == [allocation |-> "none", employee |-> "none"]
Reading == [who : Staff, row : Employee, new : Addresses]
NobodyRead == [who |-> "none"]
NoMoves == [e \in {} |-> [old |-> "none", new |-> "none"]]

EmailTypeOK ==
    /\ staff \in [Staff -> Employee]
    /\ records \in [Records -> Onboarding]
    /\ DOMAIN plan \subseteq Staff /\ \A e \in DOMAIN plan : plan[e] \in Move
    /\ phase \in {"new", "apply", "write"}
    /\ current \in {NobodyRead} \union Reading
    /\ edits \in 0..MaxEdits
    /\ touched \subseteq Addresses

-----------------------------------------------------------------------------
\* plan_backfill.

\* _onboarding_for: the candidate's record, else the one that names the employee (the
\* last one in the list, if several do).
OnboardingOf(e) ==
    IF staff[e].candidate # "none" THEN {records[staff[e].candidate]}
    ELSE {records[r] : r \in {x \in Records : records[x].employee = e}}

Taken == {staff[e].email : e \in Staff}

\* A current employee off the domain, and the usable, unclaimed address to move to.
Proposed(e, record) ==
    /\ ~staff[e].offboarded
    /\ staff[e].email \notin Company
    /\ record.allocation \in Company \ Taken

\* Mutant: an address planned for several employees is given to them all.
MovesWithDuplicates(proposed) == proposed

\* Those whose address nobody else is to get as well.
Moves(proposed) ==
    [e \in {x \in DOMAIN proposed :
              \A y \in DOMAIN proposed \ {x} : proposed[y].new # proposed[x].new} |-> proposed[e]]

MakePlan ==
    /\ phase = "new"
    /\ \E choice \in [Staff -> {records[r] : r \in Records} \union {NoOnboarding}] :
         /\ \A e \in Staff : choice[e] \in IF OnboardingOf(e) = {} THEN {NoOnboarding} ELSE OnboardingOf(e)
         /\ plan' = Moves([e \in {x \in Staff : Proposed(x, choice[x])} |->
                             [old |-> staff[e].email, new |-> choice[e].allocation]])
    /\ phase' = "apply"
    /\ UNCHANGED <<staff, records, current, edits, touched>>

\* _apply, "skip anyone HR edited since the plan was made": those at another address.
ReadForMove(e) ==
    /\ phase = "apply" /\ e \in DOMAIN plan
    /\ plan' = [x \in DOMAIN plan \ {e} |-> plan[x]]
    /\ IF staff[e].email = plan[e].old
       THEN /\ phase' = "write"
            /\ current' = [who |-> e, row |-> staff[e], new |-> plan[e].new]
       ELSE UNCHANGED <<phase, current>>
    /\ UNCHANGED <<staff, records, edits, touched>>

\* apply_move on what was read, upserted.
WriteMove ==
    /\ phase = "write"
    /\ staff' = [staff EXCEPT ![current.who] = [current.row EXCEPT !.email = current.new]]
    /\ phase' = "apply"
    /\ current' = NobodyRead
    /\ UNCHANGED <<records, plan, edits, touched>>

\* The last move is done, or the script dies; it may be run again.
Finish ==
    /\ phase \in {"apply", "write"}
    /\ phase' = "new"
    /\ plan' = NoMoves
    /\ current' = NobodyRead
    /\ UNCHANGED <<staff, records, edits, touched>>

\* A PATCH by HR, who gives nobody an address somebody has (the server does not look).
EditEmployee(e, email, offboarded) ==
    /\ edits < MaxEdits
    /\ edits' = edits + 1
    /\ email \in Company => \A f \in Staff \ {e} : staff[f].email # email
    /\ staff' = [staff EXCEPT ![e].email = email, ![e].offboarded = offboarded]
    /\ touched' = IF phase = "new" \/ email = staff[e].email THEN touched
                  ELSE touched \union {email}
    /\ UNCHANGED <<records, plan, phase, current>>

-----------------------------------------------------------------------------

\* Nobody shares a company address to begin with; onboarding records may name any.
EmailInit ==
    /\ staff \in [Staff -> Employee]
    /\ \A e, f \in Staff : e # f /\ staff[e].email = staff[f].email => staff[e].email \notin Company
    /\ records \in [Records -> Onboarding]
    /\ plan = NoMoves
    /\ phase = "new"
    /\ current = NobodyRead
    /\ edits = 0
    /\ touched = {}

EmailNext ==
    \/ MakePlan
    \/ \E e \in Staff :
         \/ ReadForMove(e)
         \/ \E email \in Addresses, offboarded \in BOOLEAN : EditEmployee(e, email, offboarded)
    \/ WriteMove
    \/ Finish

EmailSpec == EmailInit /\ [][EmailNext]_emailVars

-----------------------------------------------------------------------------
\* What keeps the property, as one inductive invariant.

\* A plan is there while it is being applied, and an employee read while one is being moved.
PhasesFollow ==
    /\ phase = "new" => DOMAIN plan = {}
    /\ phase = "write" => current \in Reading

Promised(a) ==
    \/ \E e \in DOMAIN plan : plan[e].new = a
    \/ phase = "write" /\ current.new = a

\* An address is one employee's, or promised to one employee and nobody's.
AddressIsSingle(a) ==
    /\ \A e, f \in Staff : staff[e].email = a /\ staff[f].email = a => e = f
    /\ Promised(a) => \A e \in Staff : staff[e].email # a
    /\ \A e, f \in DOMAIN plan : plan[e].new = a /\ plan[f].new = a => e = f
    /\ phase = "write" /\ current.new = a => \A e \in DOMAIN plan : plan[e].new # a

EmailIInv ==
    EmailTypeOK /\ PhasesFollow /\ \A a \in Company \ touched : AddressIsSingle(a)

-----------------------------------------------------------------------------
\* Property.

\* "a record without a usable, unclaimed company address is reported, not moved"
\* (company_email_backfill.py:80): whatever the onboarding records say, and whenever the
\* script is stopped and run again, no two employees come to share a company address,
\* which is what Avora, id-sync and Keycloak know people by; except for an address HR gave
\* to somebody while the script was at work on an older plan.
OneAddressEach ==
    \A e, f \in Staff :
        e # f /\ staff[e].email = staff[f].email => staff[e].email \in Private \union touched
=============================================================================
