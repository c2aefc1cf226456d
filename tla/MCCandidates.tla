---------------------------- MODULE MCCandidates ----------------------------
\* The public side, five components that share no state: part names the one a behaviour
\* is about, so that their states add up and do not multiply.  The other components' variables
\* keep their initial values.  Each component's properties are checked under their own names.
EXTENDS Applications, ScreeningCalls, TestInvites, RateLimiter, ScreeningScores, TLC

CONSTANTS h1, h2, j1, j2, c1, c2

\* The components share no state and may share names.
HandlersDef == {h1, h2}
PostingsDef == {j1, j2}
CandidatesDef == {c1, c2}

Symmetry == Permutations(HandlersDef) \union Permutations(PostingsDef)
            \union Permutations(CandidatesDef)

\* Two limiters, one with two windows, the other with one.
TwoLimiters == {"apply", "candidates", "screening"}
Burst == {[max |-> 1, window |-> 1], [max |-> 2, window |-> 3]}
RulesDef == [public_write |-> Burst, screening_call |-> {[max |-> 1, window |-> 2]}]

QuestionsDef ==
    {[type |-> "yesno", importance |-> "Must Have", expect |-> "No", worded |-> TRUE],
     [type |-> "yesno", importance |-> "Good to Have", expect |-> "No", worded |-> TRUE],
     [type |-> "yesno", importance |-> "Good to Have", expect |-> "Yes", worded |-> TRUE],
     [type |-> "choice", importance |-> "Good to Have", expect |-> "A", worded |-> TRUE],
     [type |-> "text", importance |-> "Good to Have", expect |-> "any", worded |-> FALSE]}

VARIABLE part

-----------------------------------------------------------------------------

PublicInit ==
    /\ part \in {"applications", "tests", "limiter", "scores", "calls"}
    /\ Init /\ LimiterInit
    /\ TestInit /\ (part # "tests" => kind = "iq")
    /\ CallInit /\ (part # "calls" => provider = "vapi")
    /\ IF part = "scores" THEN ScoreInit
       ELSE asked = <<>> /\ said = <<>> /\ declined = FALSE /\ result = Unrated

PublicNext ==
    /\ UNCHANGED part
    /\ \/ part = "applications" /\ Next
          /\ UNCHANGED <<testVars, limiterVars, scoreVars, callVars>>
       \/ part = "tests" /\ TestNext
          /\ UNCHANGED <<vars, limiterVars, scoreVars, callVars>>
       \/ part = "limiter" /\ LimiterNext
          /\ UNCHANGED <<vars, testVars, scoreVars, callVars>>
       \/ part = "scores" /\ ScoreNext
          /\ UNCHANGED <<vars, testVars, limiterVars, callVars>>
       \/ part = "calls" /\ CallNext
          /\ UNCHANGED <<vars, testVars, limiterVars, scoreVars>>

\* Bound: a behaviour is not followed once it has met two of the races that excuse a
\* property of Applications, or the one that excuses the property of a test or of a call.
\* The violations of a take-home, which nothing depends on, are not followed either.
OneExcuse ==
    /\ Cardinality(clobbered) + Cardinality(loose) <= 1 /\ Cardinality(overlapped) <= 1
    /\ ~raced /\ (kind = "take-home" => invite.violations = 0)
    /\ ~rushed /\ revived = {}

publicVars == <<part, vars, testVars, limiterVars, scoreVars, callVars>>
PublicSpec == PublicInit /\ [][PublicNext]_publicVars
=============================================================================
