-------------------------- MODULE ScreeningScores --------------------------
(***************************************************************************)
(* How screening answers are rated (services/screening.py): by the web     *)
(* form of an application, and, checked against their questions first, by  *)
(* the model that listened to a call (services/screening_call_results.py,  *)
(* through services/sarvam_results.py for Sarvam's flat variables).  An    *)
(* answer is what the properties tell apart: Yes, No, an option, something *)
(* off the list, or nothing.  Evidence and follow-ups are left out.        *)
(***************************************************************************)
EXTENDS Integers, Sequences, FiniteSets

CONSTANTS Options,       \* options of choice questions
          Questions,     \* the questions a job may ask, a subset of Question
          MaxAsked,      \* bound: questions of a job
          MaxQuestions   \* MAX_QUESTIONS, the outputs Sarvam's agent declares

VARIABLES asked,    \* the questions, as snapshot on the call or read from the job
          said,     \* the answer that came in for each
          declined, \* the candidate refused, or someone else answered
          result    \* how it was rated, or Unrated

scoreVars == <<asked, said, declined, result>>

-----------------------------------------------------------------------------

Importance == {"Must Have", "Good to Have", "none"}

\* worded: its text is not blank, which nothing that stores a question checks.
Question == [type : {"yesno"}, importance : Importance, expect : {"Yes", "No"}, worded : BOOLEAN]
            \union [type : {"choice"}, importance : Importance, expect : Options \union {"any"},
                    worded : BOOLEAN]
            \union [type : {"text"}, importance : Importance, expect : {"any"}, worded : BOOLEAN]

Blank == ""
Unclear == "Unclear"
OffList == "off the list"
Answers == Options \union {"Yes", "No", Blank, OffList}

ASSUME ScoreAssumption ==
    /\ Options \intersect {"Yes", "No", "any", Blank, Unclear, OffList} = {}
    /\ Questions \subseteq Question
    /\ MaxAsked \in Nat /\ MaxQuestions \in Nat

Ratings == {"Fit", "Borderline", "Unfit"}
Unrated == [by |-> "nobody", fit |-> "none", review |-> FALSE]

ScoreTypeOK ==
    /\ asked \in Seq(Questions) /\ Len(asked) <= MaxAsked
    /\ said \in [DOMAIN asked -> Answers]
    /\ declined \in BOOLEAN
    /\ result \in {Unrated} \union
         [by : {"form", "Vapi", "Sarvam"}, fit : Ratings \union {"none"}, review : BOOLEAN]

-----------------------------------------------------------------------------
\* build_answers: is the answer the expected one?

Passed(question, answer) ==
    CASE question.type = "yesno" -> (answer = "Yes") <=> (question.expect = "Yes")
      [] question.type = "choice" -> question.expect = "any" \/ answer = question.expect
      [] question.type = "text" -> TRUE

\* compute_fit, with FIT_THRESHOLD 0.6: passed says which of the questions passed.
Fit(questions, passed) ==
    LET of(importance) == {i \in DOMAIN questions : questions[i].importance = importance}
        good == of("Good to Have")
    IN IF \E i \in of("Must Have") : i \notin passed THEN "Unfit"
       ELSE IF 10 * Cardinality(good \intersect passed) >= 6 * Cardinality(good) THEN "Fit"
       ELSE "Borderline"

\* A form is rated as it was filled in.
FormFit(questions, answers) ==
    Fit(questions, {i \in DOMAIN questions : Passed(questions[i], answers[i])})

-----------------------------------------------------------------------------
\* score_call.

\* _validated_answer: what is not an answer to the question is Unclear.
Allowed(question) ==
    CASE question.type = "yesno" -> {"Yes", "No"}
      [] question.type = "choice" -> Options
      [] question.type = "text" -> Answers \ {Blank}

Validated(question, answer) == IF answer \in Allowed(question) THEN answer ELSE Unclear

\* Mutant: an Unclear answer to a question expecting "No" counts as a pass.
PassedUnclear(question, answer) == Passed(question, Validated(question, answer))

\* _enrich.
CallPassed(question, answer) ==
    LET valid == Validated(question, answer) IN
    Passed(question, valid) /\ (valid # Unclear \/ question.type = "text")

CallFit(questions, answers) ==
    Fit(questions, {i \in DOMAIN questions : CallPassed(questions[i], answers[i])})

NeedsReview(questions, answers) ==
    \E i \in DOMAIN questions : Validated(questions[i], answers[i]) = Unclear

\* format_questions: what Sarvam's agent is given, the worded ones of the first ten
\* questions, numbered without a gap.
Given(questions) == {i \in DOMAIN questions : i <= MaxQuestions /\ questions[i].worded}
NumberOf(questions, i) == Cardinality({j \in Given(questions) : j <= i})

\* The agent's variables: the answer to the question it was given as number n.
Variables(questions, answers) ==
    [n \in 1..MaxQuestions |->
        LET meant == {i \in Given(questions) : NumberOf(questions, i) = n}
        IN IF meant = {} THEN Blank ELSE answers[CHOOSE i \in meant : TRUE]]

\* to_structured_data: read by position, and nothing for a question past the tenth.
SarvamAnswers(questions, answers) ==
    [i \in DOMAIN questions |->
        IF i <= MaxQuestions THEN Variables(questions, answers)[i] ELSE Blank]

-----------------------------------------------------------------------------

RateForm ==
    /\ result = Unrated
    /\ ~declined /\ asked # <<>>
    /\ result' = [by |-> "form", fit |-> FormFit(asked, said), review |-> FALSE]
    /\ UNCHANGED <<asked, said, declined>>

RateCall(by) ==
    /\ result = Unrated
    /\ LET answers == IF by = "Sarvam" THEN SarvamAnswers(asked, said) ELSE said IN
       result' = IF declined THEN [by |-> by, fit |-> "none", review |-> FALSE]
                 ELSE [by |-> by, fit |-> CallFit(asked, answers),
                       review |-> NeedsReview(asked, answers)]
    /\ UNCHANGED <<asked, said, declined>>

\* A call asks at least one question.
ScoreInit ==
    /\ asked \in UNION {[1..n -> Questions] : n \in 1..MaxAsked}
    /\ said \in [DOMAIN asked -> Answers]
    /\ declined \in BOOLEAN
    /\ result = Unrated

ScoreNext == RateForm \/ \E by \in {"Vapi", "Sarvam"} : RateCall(by)

ScoreSpec == ScoreInit /\ [][ScoreNext]_scoreVars

-----------------------------------------------------------------------------
\* Property.

AllWorded == \A i \in DOMAIN asked : asked[i].worded

Rank == [Unfit |-> 0, Borderline |-> 1, Fit |-> 2, none |-> 0]

Answered(question, answer) ==
    \/ question.type = "text"
    \/ answer \in Allowed(question)

\* The answers, with better ones to some of the questions.
With(answers, better) ==
    [i \in DOMAIN answers |-> IF i \in DOMAIN better THEN better[i] ELSE answers[i]]

\* "a call and a form can never disagree on the rules" (screening_call_results.py:6):
\* answers that are all on their questions' lists are rated alike; and an answer a call
\* did not get, or got off the list, never rates a candidate higher than any answer on
\* the list would have, and asks for a review - which a form, where a blank answer to a
\* question expecting "No" is a pass (screening.py:26), does not do.  Of Sarvam's calls it
\* is said of the lists whose questions are all asked, ten at most and none of them blank.
CallsAreRatedLikeForms ==
    /\ result.by = "Vapi" \/ (result.by = "Sarvam" /\ Len(asked) <= MaxQuestions /\ AllWorded)
    /\ ~declined
    =>
        LET clear == {i \in DOMAIN asked : Answered(asked[i], said[i])} IN
        /\ clear = DOMAIN asked => result.fit = FormFit(asked, said)
        /\ clear # DOMAIN asked => result.review
        /\ \A better \in [DOMAIN asked \ clear -> Options \union {"Yes", "No"}] :
             (\A i \in DOMAIN better : better[i] \in Allowed(asked[i]))
                => Rank[result.fit] <= Rank[FormFit(asked, With(said, better))]

\* The inductive invariant.
ScoreIInv == ScoreTypeOK /\ CallsAreRatedLikeForms
=============================================================================
