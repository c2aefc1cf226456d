---------------------------- MODULE TestInvites ----------------------------
(***************************************************************************)
(* One candidate test (app/api/routes/test_public.py): the candidate       *)
(* starts it, breaks its rules, submits answers that the server grades, or *)
(* hands in a take-home file or link, which HR grades.  Every endpoint     *)
(* loads the invite and checks it; service.patch then reads it again,      *)
(* merges the changes and writes the whole invite.                         *)
(***************************************************************************)
EXTENDS Integers, Sequences

CONSTANTS Solvers,        \* threads and event loops serving this invite
          Works,          \* documents and links a candidate hands in
          MaxViolations   \* MAX_VIOLATIONS

ASSUME ViolationsAssumption == MaxViolations \in Nat \ {0}

VARIABLES kind,       \* of the invite: "iq", "assessment" or "take-home"
          invite,     \* its row of test_invites
          iqRows,     \* the iq_tests rows created for it
          stored,     \* documents handed in and stored
          open,       \* the deadline has not passed
          solver,     \* what each thread is doing
          told,       \* history: what the last successful submission was answered
          raced       \* history: a patch was decided on a row that had changed since

testVars == <<kind, invite, iqRows, stored, open, solver, told, raced>>

-----------------------------------------------------------------------------

_TERMINAL == {"Completed", "Auto-Submitted", "Graded"}
_TAKE_HOME_TERMINAL == {"Submitted", "Graded"}

\* enough: the correct answers reach the pass mark of the invite's kind.
NoResult == [enough |-> FALSE, passed |-> FALSE, disqualified |-> FALSE, given |-> FALSE]
Result == [enough : BOOLEAN, passed : BOOLEAN, disqualified : BOOLEAN, given : {TRUE}]

Invite == [status : {"Pending", "In Progress", "Completed", "Submitted", "Graded"},
           violations : 0..MaxViolations + 1, result : Result \union {NoResult},
           file : Works \union {"none"}, link : Works \union {"none"}]

Op == [kind : {"start", "violation"}]
        \union [kind : {"submit"}, enough : BOOLEAN, claimed : {0, MaxViolations}]
        \union [kind : {"link", "file"}, work : Works]
        \union [kind : {"grade"}]

\* seen: the violations on the invite that was checked; copy: the row read to merge
\* into; late: another patch has been written since the check.
NoRequest == [stage |-> "idle"]
Unread == [status |-> "none"]
Request ==
    {NoRequest}
    \union [stage : {"checked", "stored"}, op : Op, seen : 0..MaxViolations + 1,
            copy : {Unread}, late : BOOLEAN]
    \union [stage : {"merging"}, op : Op, seen : 0..MaxViolations + 1,
            copy : Invite, late : BOOLEAN]
    \union [stage : {"graded"}, result : Result]
InFlight(s) == solver[s].stage \in {"checked", "stored", "merging"}

TestTypeOK ==
    /\ kind \in {"iq", "assessment", "take-home"}
    /\ invite \in Invite
    /\ iqRows \in Seq(Result)
    /\ stored \subseteq Works
    /\ open \in BOOLEAN /\ raced \in BOOLEAN
    /\ solver \in [Solvers -> Request]
    /\ told \in [result : Result \union {NoResult}, file : Works \union {"none"},
                 link : Works \union {"none"}]

-----------------------------------------------------------------------------
\* _load and the checks; a refusal changes nothing.

\* Mutant: only graded tests are closed.
AcceptsUnlessGraded(op) ==
    IF op.kind \in {"link", "file"} THEN kind = "take-home" ELSE invite.status # "Graded"

\* HR grades what was handed in, through the generic router.
Accepts(op) ==
    CASE op.kind \in {"start", "violation", "submit"} -> invite.status \notin _TERMINAL
      [] op.kind \in {"link", "file"} -> /\ kind = "take-home"
                                         /\ invite.status \notin _TAKE_HOME_TERMINAL
                                         /\ open
      [] op.kind = "grade" -> kind = "take-home" /\ invite.status = "Submitted"

Fresh(work) ==
    /\ work \notin stored \union {invite.file, invite.link}
    /\ \A s \in Solvers : InFlight(s) /\ solver[s].op.kind \in {"link", "file"} => solver[s].op.work # work

\* Bound: nothing is begun once an endpoint decided on an outdated invite, since no
\* property speaks of what comes after.
Load(s, op) ==
    /\ ~raced
    /\ solver[s] = NoRequest
    /\ Accepts(op)
    /\ op.kind \in {"link", "file"} => Fresh(op.work)
    /\ solver' = [solver EXCEPT ![s] =
                    [stage |-> "checked", op |-> op, seen |-> invite.violations,
                     copy |-> Unread, late |-> FALSE]]
    /\ UNCHANGED <<kind, invite, iqRows, stored, open, told, raced>>

\* submit_file, once the body has been read: storage.put and the documents row.
StoreSubmission(s) ==
    /\ solver[s].stage = "checked"
    /\ solver[s].op.kind = "file"
    /\ stored' = stored \union {solver[s].op.work}
    /\ solver' = [solver EXCEPT ![s].stage = "stored"]
    /\ UNCHANGED <<kind, invite, iqRows, open, told, raced>>

\* service.patch reads the row it will merge the changes into.
MergeRead(s) ==
    /\ \/ solver[s].stage = "stored"
       \/ solver[s].stage = "checked" /\ solver[s].op.kind # "file"
    /\ solver' = [solver EXCEPT ![s].stage = "merging", ![s].copy = invite]
    /\ UNCHANGED <<kind, invite, iqRows, stored, open, told, raced>>

-----------------------------------------------------------------------------
\* The changes each endpoint makes, computed from what it loaded.

Violations(op, seen) ==
    CASE op.kind = "violation" -> IF seen > MaxViolations THEN seen ELSE seen + 1  \* bound
      [] op.kind = "submit" -> IF op.claimed > seen THEN op.claimed ELSE seen
      [] OTHER -> seen

\* _grade.  A take-home has no questions, so nobody passes it here.
Grade(op, seen) ==
    LET out == Violations(op, seen) >= MaxViolations
        enough == op.enough /\ kind # "take-home"
    IN [given |-> TRUE, enough |-> enough, disqualified |-> out, passed |-> enough /\ ~out]

Changed(op, seen, row) ==
    CASE op.kind = "start" -> [row EXCEPT !.status = "In Progress"]
      [] op.kind = "violation" -> [row EXCEPT !.violations = Violations(op, seen)]
      [] op.kind = "submit" -> [row EXCEPT !.status = "Completed", !.result = Grade(op, seen),
                                           !.violations = Violations(op, seen)]
      [] op.kind = "link" -> [row EXCEPT !.status = "Submitted", !.link = op.work]
      [] op.kind = "file" -> [row EXCEPT !.status = "Submitted", !.file = op.work]
      [] op.kind = "grade" -> [row EXCEPT !.status = "Graded"]

\* The merged invite is written; an IQ test goes on to its result row.
Patch(s) ==
    /\ solver[s].stage = "merging"
    /\ LET op == solver[s].op
           seen == solver[s].seen
       IN /\ invite' = Changed(op, seen, solver[s].copy)
          /\ raced' = (raced \/ solver[s].late)
          /\ told' = CASE op.kind = "submit" /\ kind # "iq" -> [told EXCEPT !.result = Grade(op, seen)]
                       [] op.kind = "link" -> [told EXCEPT !.link = op.work]
                       [] op.kind = "file" -> [told EXCEPT !.file = op.work]
                       [] OTHER -> told
          /\ solver' = [t \in Solvers |->
                          IF t = s THEN IF op.kind = "submit" /\ kind = "iq"
                                        THEN [stage |-> "graded", result |-> Grade(op, seen)]
                                        ELSE NoRequest
                          ELSE IF InFlight(t) THEN [solver[t] EXCEPT !.late = TRUE]
                          ELSE solver[t]]
    /\ UNCHANGED <<kind, iqRows, stored, open>>

CreateIqRow(s) ==
    /\ solver[s].stage = "graded"
    /\ iqRows' = Append(iqRows, solver[s].result)
    /\ told' = [told EXCEPT !.result = solver[s].result]
    /\ solver' = [solver EXCEPT ![s] = NoRequest]
    /\ UNCHANGED <<kind, invite, stored, open, raced>>

\* A refused body, a failed statement or a dead process.
EndRequest(s) ==
    /\ solver[s] # NoRequest
    /\ solver' = [solver EXCEPT ![s] = NoRequest]
    /\ UNCHANGED <<kind, invite, iqRows, stored, open, told, raced>>

DeadlinePasses ==
    /\ open
    /\ open' = FALSE
    /\ UNCHANGED <<kind, invite, iqRows, stored, solver, told, raced>>

-----------------------------------------------------------------------------

TestInit ==
    /\ kind \in {"iq", "assessment", "take-home"}
    /\ invite = [status |-> "Pending", violations |-> 0, result |-> NoResult,
                 file |-> "none", link |-> "none"]
    /\ iqRows = <<>>
    /\ stored = {}
    /\ open = TRUE
    /\ solver = [s \in Solvers |-> NoRequest]
    /\ told = [result |-> NoResult, file |-> "none", link |-> "none"]
    /\ raced = FALSE

TestNext ==
    \/ \E s \in Solvers :
         \/ \E op \in Op : Load(s, op)
         \/ StoreSubmission(s) \/ MergeRead(s) \/ Patch(s) \/ CreateIqRow(s) \/ EndRequest(s)
    \/ DeadlinePasses

TestSpec == TestInit /\ [][TestNext]_testVars

-----------------------------------------------------------------------------
\* Properties.

\* What a candidate was answered stands: the invite keeps the result it was graded with,
\* which no disqualified candidate passed, an IQ test has that result in iq_tests once, and
\* a take-home keeps the work handed in last, its file stored; unless an endpoint decided on
\* an invite that changed before it wrote ("a finished attempt can't be resubmitted or
\* overwritten", test_public.py:15).
AnswersStand ==
    ~raced =>
        /\ told.result # NoResult /\ kind # "take-home" =>
             /\ invite.status = "Completed"
             /\ invite.result = told.result
             /\ invite.result.passed => invite.violations < MaxViolations
        /\ kind = "iq" => iqRows \in {<<>>, <<invite.result>>}
        /\ invite.file = told.file /\ invite.link = told.link
        /\ invite.file \in stored \union {"none"}

\* The inductive invariant: an endpoint that nobody has overtaken decides on the invite as it
\* is; a file is stored before the invite names it; and the result of an IQ test is on the
\* invite before its row is created, which happens once.
ChecksStand ==
    \A s \in Solvers : InFlight(s) /\ ~solver[s].late =>
        /\ solver[s].seen = invite.violations
        /\ solver[s].stage = "merging" => solver[s].copy = invite
        /\ IF solver[s].op.kind \in {"start", "violation", "submit"}
           THEN invite.status \notin _TERMINAL ELSE kind = "take-home"

FilesAreStored ==
    \A s \in Solvers :
        InFlight(s) /\ solver[s].stage # "checked" /\ solver[s].op.kind = "file"
            => solver[s].op.work \in stored

ResultsAreDue ==
    \A s \in Solvers : solver[s].stage = "graded" /\ ~raced =>
        /\ kind = "iq" /\ iqRows = <<>>
        /\ invite.status = "Completed" /\ invite.result = solver[s].result
        /\ invite.result.passed => invite.violations < MaxViolations
        /\ \A r \in Solvers : solver[r].stage = "graded" => r = s

RowsAreFinal == ~raced /\ kind = "iq" /\ iqRows # <<>> => invite.status = "Completed"

TestIInv == /\ TestTypeOK /\ ChecksStand /\ FilesAreStored
            /\ ResultsAreDue /\ RowsAreFinal /\ AnswersStand

\* "WRITE-ONCE - a finished attempt can't be resubmitted or overwritten"
\* (test_public.py:15), also for the take-home routes ("Write-once (like /submit)", 355).
WriteOnce ==
    [][invite.status \in _TERMINAL \union _TAKE_HOME_TERMINAL =>
         invite'.status \in _TERMINAL \union _TAKE_HOME_TERMINAL]_testVars
=============================================================================
