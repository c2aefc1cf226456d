--------------------------- MODULE EmployeeCodes ---------------------------
(***************************************************************************)
(* The numbers of employee codes (services/employee_codes.py): drawn from  *)
(* employee_code_seq while HR allocates, and moved forward past the        *)
(* employees' codes whenever a process boots (db/database.py).  Everything *)
(* runs in autocommit.  Number 0 stands for 1000, where the sequence       *)
(* begins; codes of another form than EMP-<number> cannot meet these.      *)
(***************************************************************************)
EXTENDS Integers, FiniteSets, FiniteSetsExt

CONSTANTS Sessions,  \* requests being served and processes that boot
          Legacy,    \* numbers the old random scheme has given
          MaxNumber, \* bound: numbers drawn
          MaxDraws   \* _MAX_ATTEMPTS

ASSUME CodeBounds == MaxNumber \in Nat /\ MaxDraws \in Nat \ {0} /\ Legacy \subseteq 0..MaxNumber

VARIABLES last,       \* last_value of employee_code_seq
          employees,  \* numbers of the rows of the employees table
          session,    \* what each request or boot is doing
          given,      \* history: how often each number was given out, by the old scheme
                      \* or by the sequence (counted to 2)
          exposed     \* history: numbers drawn while a boot was about to set the sequence,
                      \* and numbers of the old scheme whose row was deleted

codeVars == <<last, employees, session, given, exposed>>

-----------------------------------------------------------------------------

Numbers == 0..MaxNumber
NoWork == [stage |-> "idle"]

Working ==
    {NoWork}
    \union [stage : {"draw"}, tries : 0..MaxDraws]
    \union [stage : {"drawn"}, tries : 0..MaxDraws, number : Numbers]
    \union [stage : {"booting"}, seen : Numbers, target : Numbers]

CodesTypeOK ==
    /\ last \in Numbers
    /\ employees \subseteq Numbers
    /\ session \in [Sessions -> Working]
    /\ given \in [Numbers -> 0..2]
    /\ exposed \subseteq Numbers

-----------------------------------------------------------------------------
\* allocate_employee_code.

Allocate(s) ==
    /\ session[s] = NoWork
    /\ session' = [session EXCEPT ![s] = [stage |-> "draw", tries |-> 0]]
    /\ UNCHANGED <<last, employees, given, exposed>>

\* nextval: read and advanced as one.
Draw(s) ==
    /\ session[s].stage = "draw"
    /\ last < MaxNumber
    /\ last' = last + 1
    /\ session' = [session EXCEPT ![s] =
         [stage |-> "drawn", tries |-> session[s].tries + 1, number |-> last']]
    /\ UNCHANGED <<employees, given, exposed>>

\* Mutant: one draw too many.
TryOnceMore(s) ==
    /\ session[s].stage = "drawn"
    /\ session[s].number \in employees
    /\ session' = [session EXCEPT ![s] =
         IF session[s].tries > MaxDraws THEN NoWork ELSE [stage |-> "draw", tries |-> @.tries]]
    /\ UNCHANGED <<last, employees, given, exposed>>

\* The number is taken: another draw, or the error after MaxDraws of them.
TryAgain(s) ==
    /\ session[s].stage = "drawn"
    /\ session[s].number \in employees
    /\ session' = [session EXCEPT ![s] =
         IF session[s].tries = MaxDraws THEN NoWork ELSE [stage |-> "draw", tries |-> @.tries]]
    /\ UNCHANGED <<last, employees, given, exposed>>

Return(s) ==
    /\ session[s].stage = "drawn"
    /\ session[s].number \notin employees
    /\ given' = [given EXCEPT ![session[s].number] = IF @ = 2 THEN 2 ELSE @ + 1]
    /\ session' = [session EXCEPT ![s] = NoWork]
    /\ UNCHANGED <<last, employees, exposed>>

-----------------------------------------------------------------------------
\* _EMPLOYEE_CODE_SEQ_SYNC: the arguments of setval are evaluated, then it is called.

\* Mutant: the sequence is set from the table alone.
BootFromTable(s) ==
    /\ session[s] = NoWork
    /\ session' = [session EXCEPT ![s] =
         [stage |-> "booting", seen |-> last, target |-> Max(employees \union {0})]]
    /\ UNCHANGED <<last, employees, given, exposed>>

BootRead(s) ==
    /\ session[s] = NoWork
    /\ session' = [session EXCEPT ![s] =
         [stage |-> "booting", seen |-> last, target |-> Max(employees \union {last, 0})]]
    /\ UNCHANGED <<last, employees, given, exposed>>

\* Whatever was drawn since the read may be drawn again.
BootSet(s) ==
    /\ session[s].stage = "booting"
    /\ last' = session[s].target
    /\ exposed' = exposed \union (session[s].seen + 1 .. last)
    /\ session' = [session EXCEPT ![s] = NoWork]
    /\ UNCHANGED <<employees, given>>

-----------------------------------------------------------------------------
\* The employees table, written through the generic resource.

\* The browser sends the record under its code: a row that has it is overwritten.
SaveEmployee(n) ==
    /\ given[n] > 0
    /\ employees' = employees \union {n}
    /\ UNCHANGED <<last, session, given, exposed>>

DeleteEmployee(n) ==
    /\ n \in employees
    /\ employees' = employees \ {n}
    /\ exposed' = exposed \union ({n} \intersect Legacy)
    /\ UNCHANGED <<last, session, given>>

\* The connection or the process is gone; a number that was drawn is lost.
Drop(s) ==
    /\ session[s] # NoWork
    /\ session' = [session EXCEPT ![s] = NoWork]
    /\ UNCHANGED <<last, employees, given, exposed>>

-----------------------------------------------------------------------------

CodesInit ==
    /\ last = 0
    /\ employees = Legacy
    /\ session = [s \in Sessions |-> NoWork]
    /\ given = [n \in Numbers |-> IF n \in Legacy THEN 1 ELSE 0]
    /\ exposed = {}

CodesNext ==
    \/ \E s \in Sessions :
         \/ Allocate(s) \/ Draw(s) \/ TryAgain(s) \/ Return(s)
         \/ BootRead(s) \/ BootSet(s) \/ Drop(s)
    \/ \E n \in Numbers : SaveEmployee(n) \/ DeleteEmployee(n)

CodesSpec == CodesInit /\ [][CodesNext]_codeVars

-----------------------------------------------------------------------------
\* What keeps the property, as one inductive invariant.

Drawn(s, n) == session[s].stage = "drawn" /\ session[s].number = n

\* Whoever is to draw may, and a boot sets the sequence no further back than it read.
SessionsFollow ==
    \A s \in Sessions :
        /\ session[s].stage = "draw" => session[s].tries < MaxDraws
        /\ session[s].stage = "booting" => session[s].target >= session[s].seen

\* A number of the old scheme is an employee's; another is given once, behind the
\* sequence, to whom alone drew it.
NumberIsSingle(n) ==
    /\ given[n] <= 1
    /\ n \in Legacy => n \in employees
    /\ n \notin Legacy =>
         /\ given[n] = 1 => n <= last /\ \A s \in Sessions : ~Drawn(s, n)
         /\ \A s, t \in Sessions : Drawn(s, n) /\ Drawn(t, n) => s = t
         /\ \A s \in Sessions : Drawn(s, n) => n <= last

CodesIInv ==
    CodesTypeOK /\ SessionsFollow /\ \A n \in Numbers \ exposed : NumberIsSingle(n)

-----------------------------------------------------------------------------
\* Properties.

\* "we never reissue a number" (employee_codes.py:30): a number is given out once, by the
\* old scheme or by the sequence, however long HR takes to save the employee, whatever is
\* deleted and however often a process boots.  The exceptions: a number drawn while a boot
\* was between reading last_value and setting it, and one of the old scheme whose row has
\* been deleted.
CodesAreIssuedOnce == \A n \in Numbers \ exposed : given[n] <= 1

\* "GREATEST(...) means this only ever moves forward - re-running it can never rewind the
\* sequence and reissue codes. Safe to run on every boot" (database.py:52-53).  The code
\* does not keep this: nextval may come between the read of last_value and setval.
NeverReissued == \A n \in Numbers \ Legacy : given[n] <= 1
=============================================================================
