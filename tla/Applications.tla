---------------------------- MODULE Applications ----------------------------
(***************************************************************************)
(* The careers site (app/api/routes/public.py) as one applicant uses it:   *)
(* a code is mailed, guessed or typed, and the verified address applies to *)
(* postings.  email_otps holds one row per address; each handler reads it  *)
(* and writes its copy back, and /apply reads it, works on the resume and  *)
(* deletes it at the end.                                                  *)
(***************************************************************************)
EXTENDS Integers, FiniteSets

CONSTANTS Handlers,     \* threads and event loops serving requests
          Postings,     \* job ids
          Candidates,   \* candidate ids; drawn at random, so two may coincide
          MaxCodes,     \* bound: codes issued in a behaviour
          PerHour,      \* settings.otp_max_per_email_per_hour
          MaxAttempts   \* _OTP_MAX_ATTEMPTS

ASSUME LimitsAssumption ==
    MaxCodes \in Nat \ {0} /\ PerHour \in Nat \ {0} /\ MaxAttempts \in Nat \ {0}

\* What a candidate id that is not taken holds is no job id.
ASSUME PostingsAssumption == "none" \notin Postings

VARIABLES otp,         \* the applicant's row of email_otps
          age,         \* of each code: how long ago it was issued
          candidates,  \* the candidates table: id -> posting
          visitor,     \* what each handler is doing
          issued,      \* history: codes issued, the last one being the highest
          wrong,       \* history: wrong guesses answered, per code (counted one over the limit)
          backed,      \* history: applications stored on a verification, per code (0, 1, 2 or more)
          clobbered,   \* history: codes whose row was written from a stale copy
          loose,       \* history: codes that two applications held at once, or whose
                       \* application died before the row was deleted
          overlapped,  \* history: postings that two applications were checked for at once
          forgotten    \* history: an application has deleted the row and its issuedTimes

vars == <<otp, age, candidates, visitor, issued, wrong, backed, clobbered, loose,
          overlapped, forgotten>>

-----------------------------------------------------------------------------

Codes == 1..MaxCodes

NoOtp == [code |-> 0, times |-> {}, attempts |-> 0, verified |-> FALSE]
Otp == [code : Codes, times : SUBSET Codes, attempts : 0..MaxAttempts, verified : BOOLEAN]

\* Time since a code was issued: within otp_resend_cooldown_seconds; within _OTP_TTL
\* (10 minutes); a verification made by then is good (_OTP_VERIFIED_TTL, 30 minutes);
\* it is not, but the code counts (_OTP_ISSUE_WINDOW, 1 hour); neither.
Ages == {"cooling", "live", "usable", "counted", "gone"}
Older == [cooling |-> "live", live |-> "usable", usable |-> "counted", counted |-> "gone"]

Idle == [stage |-> "idle"]
Issuing == [stage : {"issuing"}, times : SUBSET Codes]
Checking == [stage : {"right", "wrong"}, copy : Otp]
Applying == [stage : {"verified", "new", "stored"}, posting : Postings, code : Codes]
Visiting == {Idle} \union Issuing \union Checking \union Applying

AppTypeOK ==
    /\ otp \in Otp \union {NoOtp}
    /\ age \in [Codes -> Ages]
    /\ candidates \in [Candidates -> Postings \union {"none"}]
    /\ visitor \in [Handlers -> Visiting]
    /\ issued \in 0..MaxCodes
    /\ wrong \in [Codes -> 0..MaxAttempts + 1]
    /\ backed \in [Codes -> 0..2]
    /\ clobbered \subseteq Codes /\ loose \subseteq Codes
    /\ overlapped \subseteq Postings
    /\ forgotten \in BOOLEAN

otpHistory == <<issued, wrong, clobbered>>
applyHistory == <<backed, loose, overlapped, forgotten>>

\* A write of a copy of the row that has changed since the copy was taken.
Clobber(copy) ==
    clobbered' = IF otp = copy THEN clobbered ELSE clobbered \union ({copy.code, otp.code} \ {0})

-----------------------------------------------------------------------------
\* otp_request.

Counted(rec) == {n \in rec.times : age[n] # "gone"}

\* The cap answers 429 and the cooldown answers ok without a code: nothing changes.
RequestCode(h) ==
    /\ visitor[h] = Idle
    /\ Cardinality(Counted(otp)) < PerHour
    /\ \A n \in Counted(otp) : age[n] # "cooling"
    /\ visitor' = [visitor EXCEPT ![h] = [stage |-> "issuing", times |-> Counted(otp)]]
    /\ UNCHANGED <<otp, age, candidates, otpHistory, applyHistory>>

\* Mutant: the new row lists only the code it holds.
IssueForgettingTimes(h) ==
    /\ visitor[h].stage = "issuing"
    /\ issued < MaxCodes
    /\ issued' = issued + 1
    /\ otp' = [code |-> issued', times |-> {issued'}, attempts |-> 0, verified |-> FALSE]
    /\ clobbered' = clobbered
    /\ visitor' = [visitor EXCEPT ![h] = Idle]
    /\ UNCHANGED <<age, candidates, wrong, applyHistory>>

\* The new row replaces whatever is there; of the old one only issuedTimes is kept.
Issue(h) ==
    /\ visitor[h].stage = "issuing"
    /\ issued < MaxCodes
    /\ issued' = issued + 1
    /\ otp' = [code |-> issued', times |-> visitor[h].times \union {issued'},
               attempts |-> 0, verified |-> FALSE]
    /\ clobbered' = IF Counted(otp) \subseteq visitor[h].times THEN clobbered
                    ELSE clobbered \union otp.times
    /\ visitor' = [visitor EXCEPT ![h] = Idle]
    /\ UNCHANGED <<age, candidates, wrong, applyHistory>>

-----------------------------------------------------------------------------
\* otp_verify.  A request that names another code than the row's guesses wrong.

\* No row, an expired code and a code with too many attempts are refused unread.
CheckGuess(h, guess) ==
    /\ visitor[h] = Idle
    /\ otp # NoOtp
    /\ age[otp.code] \in {"cooling", "live"}
    /\ otp.attempts < MaxAttempts
    /\ visitor' = [visitor EXCEPT ![h] = [stage |-> guess, copy |-> otp]]
    /\ UNCHANGED <<otp, age, candidates, otpHistory, applyHistory>>

RecordWrong(h) ==
    /\ visitor[h].stage = "wrong"
    /\ LET rec == visitor[h].copy IN
       /\ otp' = [rec EXCEPT !.attempts = @ + 1]
       /\ wrong' = [wrong EXCEPT ![rec.code] = IF @ > MaxAttempts THEN @ ELSE @ + 1]
       /\ Clobber(rec)
    /\ visitor' = [visitor EXCEPT ![h] = Idle]
    /\ UNCHANGED <<age, candidates, issued, applyHistory>>

RecordVerified(h) ==
    /\ visitor[h].stage = "right"
    /\ LET rec == visitor[h].copy IN
       /\ otp' = [rec EXCEPT !.verified = TRUE]
       /\ Clobber(rec)
    /\ visitor' = [visitor EXCEPT ![h] = Idle]
    /\ UNCHANGED <<age, candidates, issued, wrong, applyHistory>>

-----------------------------------------------------------------------------
\* apply.  A closed posting or an incomplete form is refused before anything is
\* read of the applicant, a bad resume after it: a request that goes no further.

EmailIsVerified == otp.verified /\ age[otp.code] \in {"cooling", "live", "usable"}
AlreadyApplied(j) == \E c \in Candidates : candidates[c] = j

ApplyingWith(code) ==
    {h \in Handlers : visitor[h].stage \in {"verified", "new", "stored"} /\ visitor[h].code = code}
CheckedFor(j) == {h \in Handlers : visitor[h].stage = "new" /\ visitor[h].posting = j}

CheckVerified(h, j) ==
    /\ visitor[h] = Idle
    /\ EmailIsVerified
    /\ visitor' = [visitor EXCEPT ![h] = [stage |-> "verified", posting |-> j, code |-> otp.code]]
    /\ loose' = IF ApplyingWith(otp.code) = {} THEN loose ELSE loose \union {otp.code}
    /\ UNCHANGED <<otp, age, candidates, otpHistory, backed, overlapped, forgotten>>

\* Mutant: the check is skipped.
CheckNothing(h) ==
    /\ visitor[h].stage = "verified"
    /\ visitor' = [visitor EXCEPT ![h].stage = "new"]
    /\ overlapped' = overlapped
    /\ UNCHANGED <<otp, age, candidates, otpHistory, backed, loose, forgotten>>

CheckNotApplied(h) ==
    /\ visitor[h].stage = "verified"
    /\ ~AlreadyApplied(visitor[h].posting)
    /\ visitor' = [visitor EXCEPT ![h].stage = "new"]
    /\ overlapped' = IF CheckedFor(visitor[h].posting) = {} THEN overlapped
                     ELSE overlapped \union {visitor[h].posting}
    /\ UNCHANGED <<otp, age, candidates, otpHistory, backed, loose, forgotten>>

\* The resume and its documents row come first (see CandidateFiles), then the
\* candidate, under an id that may be another candidate's.
StoreCandidate(h, c) ==
    /\ visitor[h].stage = "new"
    /\ candidates' = [candidates EXCEPT ![c] = visitor[h].posting]
    /\ backed' = [backed EXCEPT ![visitor[h].code] = IF @ = 2 THEN 2 ELSE @ + 1]
    /\ visitor' = [visitor EXCEPT ![h].stage = "stored"]
    /\ UNCHANGED <<otp, age, otpHistory, loose, overlapped, forgotten>>

\* Mutant: the verification is left for the next application.
KeepVerification(h) ==
    /\ visitor[h].stage = "stored"
    /\ visitor' = [visitor EXCEPT ![h] = Idle]
    /\ UNCHANGED <<otp, age, candidates, otpHistory, applyHistory>>

\* "Consume the one-time email verification": the row is deleted, issuedTimes with it.
ConsumeVerification(h) ==
    /\ visitor[h].stage = "stored"
    /\ otp' = NoOtp
    /\ forgotten' = TRUE
    /\ visitor' = [visitor EXCEPT ![h] = Idle]
    /\ UNCHANGED <<age, candidates, otpHistory, backed, loose, overlapped>>

\* A refusal after the checks, a failed statement or a dead process.
GiveUp(h) ==
    /\ visitor[h] # Idle
    /\ loose' = IF visitor[h].stage = "stored" THEN loose \union {visitor[h].code} ELSE loose
    /\ visitor' = [visitor EXCEPT ![h] = Idle]
    /\ UNCHANGED <<otp, age, candidates, otpHistory, backed, overlapped, forgotten>>

-----------------------------------------------------------------------------
\* Time: a later code is never the older one.

GrowOlder(n) ==
    /\ n <= issued
    /\ age[n] # "gone"
    /\ \A m \in 1..(n - 1) : age[m] # age[n]  \* the earlier ones have moved on
    /\ age' = [age EXCEPT ![n] = Older[@]]
    /\ UNCHANGED <<otp, candidates, visitor, otpHistory, applyHistory>>

-----------------------------------------------------------------------------

Init ==
    /\ otp = NoOtp
    /\ age = [n \in Codes |-> "cooling"]
    /\ candidates = [c \in Candidates |-> "none"]
    /\ visitor = [h \in Handlers |-> Idle]
    /\ issued = 0
    /\ wrong = [n \in Codes |-> 0]
    /\ backed = [n \in Codes |-> 0]
    /\ clobbered = {} /\ loose = {} /\ overlapped = {}
    /\ forgotten = FALSE

Next ==
    \/ \E h \in Handlers :
         \/ RequestCode(h) \/ Issue(h)
         \/ \E guess \in {"right", "wrong"} : CheckGuess(h, guess)
         \/ RecordWrong(h) \/ RecordVerified(h)
         \/ \E j \in Postings : CheckVerified(h, j)
         \/ CheckNotApplied(h)
         \/ \E c \in Candidates : StoreCandidate(h, c)
         \/ ConsumeVerification(h)
         \/ GiveUp(h)
    \/ \E n \in Codes : GrowOlder(n)

Spec == Init /\ [][Next]_vars

-----------------------------------------------------------------------------
\* What keeps the properties, as one inductive invariant.

\* A code that is anywhere was issued, a guess is checked with attempts left, and a code is
\* issued under the cap.
RequestsAreSound ==
    /\ otp.code <= issued
    /\ \A n \in Codes : n > issued => wrong[n] = 0 /\ backed[n] = 0
    /\ \A h \in Handlers :
         LET v == visitor[h] IN
         /\ v.stage = "issuing" => Cardinality(v.times) < PerHour
         /\ v.stage \in {"right", "wrong"} => v.copy.code <= issued /\ v.copy.attempts < MaxAttempts
         /\ v.stage \in {"verified", "new", "stored"} => v.code <= issued

\* Who has passed the check for a posting is alone, and the applicant is not on it yet.
OneApplies ==
    \A j \in Postings \ overlapped :
        /\ \A c, d \in Candidates : candidates[c] = j /\ candidates[d] = j => c = d
        /\ \A g, h \in CheckedFor(j) : g = h
        /\ CheckedFor(j) # {} => ~AlreadyApplied(j)

\* A verification that backs an application is with the handler that is to delete the row,
\* or gone.
VerificationsRunOut ==
    \A n \in Codes \ (loose \union clobbered) :
        /\ \A g, h \in ApplyingWith(n) : g = h
        /\ backed[n] # 0 =>
             /\ backed[n] = 1
             /\ \/ \E h \in ApplyingWith(n) : visitor[h].stage = "stored"
                \/ ApplyingWith(n) = {} /\ otp.code # n

\* The row counts the wrong guesses and lists the codes of the last hour.
GuessesAreCounted ==
    \A n \in Codes \ clobbered : wrong[n] <= MaxAttempts /\ (otp.code = n => wrong[n] = otp.attempts)

IssuedLately == {n \in 1..issued : age[n] # "gone"}

CodesAreCounted ==
    \/ forgotten \/ clobbered # {}
    \/ IssuedLately \subseteq otp.times /\ Cardinality(IssuedLately) <= PerHour

IInv == /\ AppTypeOK
        /\ RequestsAreSound
        /\ OneApplies
        /\ VerificationsRunOut
        /\ GuessesAreCounted
        /\ CodesAreCounted

-----------------------------------------------------------------------------
\* Properties.

\* "one application per email, per posting" (public.py:507): however codes, guesses
\* and applications overlap, a posting holds the applicant once, unless two
\* applications for it had both passed the check before either was stored.
OneApplication ==
    \A j \in Postings \ overlapped : Cardinality({c \in Candidates : candidates[c] = j}) <= 1

\* "Consume the one-time email verification so it can't be reused" (public.py:610): a
\* verification backs one application, unless two held it at once, the first died before
\* deleting the row, or a copy of the row was written back over its deletion.
VerificationIsUsedOnce ==
    \A n \in Codes \ (loose \union clobbered) : backed[n] <= 1

\* "a per-email rolling cap on codes issued per hour" (public.py:220) and
\* _OTP_MAX_ATTEMPTS wrong guesses per code: both hold over any sequence of requests,
\* guesses and expiries, except for rows written from a stale copy, and for the cap
\* once an application has deleted the row that remembers what was issued.
OtpLimitsHold ==
    /\ \A n \in Codes \ clobbered : wrong[n] <= MaxAttempts
    /\ Cardinality(IssuedLately) > PerHour => forgotten \/ clobbered # {}
=============================================================================
