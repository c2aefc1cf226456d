------------------------- MODULE Candidates_proofs --------------------------
(***************************************************************************)
(* Proofs about the public side: Applications, TestInvites, RateLimiter    *)
(* and ScreeningScores, for any handlers, postings, candidates, solvers,   *)
(* works, addresses, rules and questions, and any limits.                  *)
(***************************************************************************)
EXTENDS Applications, TestInvites, RateLimiter, ScreeningScores, FiniteSetTheorems,
        WellFoundedInduction, TLAPS

(***************************************************************************)
(* What the records hold.                                                  *)
(***************************************************************************)

\* What a handler may be doing, by its stage.
LEMMA Visits ==
    ASSUME NEW v \in Visiting
    PROVE  /\ v.stage \in {"idle", "issuing", "right", "wrong", "verified", "new", "stored"}
           /\ v.stage = "idle" <=> v = Idle
           /\ v.stage = "issuing" => v.times \in SUBSET Codes
           /\ v.stage \in {"right", "wrong"} => v.copy \in Otp
           /\ v.stage \in {"verified", "new", "stored"} =>
                /\ v \in Applying /\ v.code \in Codes /\ v.posting \in Postings
BY DEF Visiting, Idle, Issuing, Checking, Applying

\* The states that a step brings about.
LEMMA Made ==
    /\ Idle \in Visiting /\ Idle.stage = "idle"
    /\ \A times \in SUBSET Codes : [stage |-> "issuing", times |-> times] \in Visiting
    /\ \A rec \in Otp : \A guess \in {"right", "wrong"} :
         [stage |-> guess, copy |-> rec] \in Visiting
    /\ \A j \in Postings, n \in Codes :
         [stage |-> "verified", posting |-> j, code |-> n] \in Visiting
BY DEF Visiting, Idle, Issuing, Checking, Applying

\* An application goes on with its posting and its code.
LEMMA GoesOn ==
    ASSUME NEW v \in Applying, NEW stage \in {"new", "stored"}
    PROVE  LET w == [v EXCEPT !.stage = stage]
           IN  w \in Visiting /\ w.stage = stage /\ w.posting = v.posting /\ w.code = v.code
BY DEF Visiting, Applying

LEMMA Otps ==
    /\ NoOtp.code = 0 /\ NoOtp.times = {} /\ NoOtp.attempts = 0 /\ NoOtp.verified = FALSE
    /\ \A rec \in Otp : /\ rec.code \in Codes /\ rec.times \in SUBSET Codes
                        /\ rec.attempts \in 0..MaxAttempts /\ rec.verified \in BOOLEAN
BY DEF Otp, NoOtp

LEMMA Numbers ==
    /\ MaxCodes \in Nat /\ PerHour \in Nat /\ PerHour # 0 /\ MaxAttempts \in Nat /\ MaxAttempts # 0
    /\ \A n \in Codes : n \in Nat /\ n # 0
BY LimitsAssumption DEF Codes

\* What one handler writes down of what it does next.
LEMMA OneVisitor ==
    ASSUME visitor \in [Handlers -> Visiting], NEW h \in Handlers, NEW v \in Visiting,
           visitor' = [visitor EXCEPT ![h] = v]
    PROVE  /\ visitor' \in [Handlers -> Visiting] /\ visitor'[h] = v
           /\ \A g \in Handlers : g # h => visitor'[g] = visitor[g]
OBVIOUS

LEMMA Known ==
    ASSUME IInv
    PROVE  /\ otp \in Otp \union {NoOtp} /\ otp.code \in Nat /\ otp.code <= issued
           /\ otp.times \in SUBSET Codes
           /\ age \in [Codes -> Ages] /\ candidates \in [Candidates -> Postings \union {"none"}]
           /\ visitor \in [Handlers -> Visiting] /\ issued \in Nat /\ issued <= MaxCodes
           /\ wrong \in [Codes -> 0..MaxAttempts + 1] /\ backed \in [Codes -> 0..2]
           /\ clobbered \subseteq Codes /\ loose \subseteq Codes /\ overlapped \subseteq Postings
           /\ forgotten \in BOOLEAN
BY Otps, Numbers DEF IInv, AppTypeOK, RequestsAreSound

(***************************************************************************)
(* Steps that leave a part of the invariant alone.                         *)
(***************************************************************************)

\* The handlers' part of RequestsAreSound.
SoundVisit(v) ==
    /\ v.stage = "issuing" => Cardinality(v.times) < PerHour
    /\ v.stage \in {"right", "wrong"} => v.copy.code <= issued /\ v.copy.attempts < MaxAttempts
    /\ v.stage \in {"verified", "new", "stored"} => v.code <= issued

LEMMA RequestsStay ==
    ASSUME IInv, NEW h \in Handlers, NEW v \in Visiting, visitor' = [visitor EXCEPT ![h] = v],
           UNCHANGED <<issued, wrong, backed>>, otp'.code <= issued, SoundVisit(v)
    PROVE  RequestsAreSound'
<1>1. /\ visitor'[h] = v
      /\ \A g \in Handlers : g # h => visitor'[g] = visitor[g]
  BY Known, OneVisitor
<1>2. \A g \in Handlers : SoundVisit(visitor'[g])
  BY <1>1 DEF IInv, RequestsAreSound, SoundVisit
<1> QED
  BY <1>2 DEF IInv, RequestsAreSound, SoundVisit

LEMMA ApplicationsStay ==
    ASSUME OneApplies, candidates' = candidates, overlapped \subseteq overlapped',
           \A g \in Handlers : visitor'[g].stage = "new" => visitor'[g] = visitor[g]
    PROVE  OneApplies'
BY DEF OneApplies, CheckedFor, AlreadyApplied

LEMMA VerificationsStay ==
    ASSUME VerificationsRunOut, backed' = backed, loose \subseteq loose', clobbered \subseteq clobbered',
           \A n \in Codes \ clobbered' : otp'.code = n => otp.code = n \/ backed[n] = 0,
           \A g \in Handlers : visitor'[g].stage \in {"verified", "new", "stored"} =>
               /\ visitor[g].stage \in {"verified", "new", "stored"}
               /\ visitor'[g].code = visitor[g].code,
           \A g \in Handlers : visitor[g].stage = "stored" /\ visitor[g].code \notin loose' =>
               visitor'[g] = visitor[g]
    PROVE  VerificationsRunOut'
<1> SUFFICES ASSUME NEW n \in Codes \ (loose' \union clobbered')
             PROVE  /\ \A g, h \in ApplyingWith(n)' : g = h
                    /\ backed'[n] # 0 =>
                         /\ backed'[n] = 1
                         /\ \/ \E h \in ApplyingWith(n)' : visitor'[h].stage = "stored"
                            \/ ApplyingWith(n)' = {} /\ otp'.code # n
  BY DEF VerificationsRunOut
<1>1. /\ \A g, h \in ApplyingWith(n) : g = h
      /\ backed[n] # 0 =>
           /\ backed[n] = 1
           /\ \/ \E h \in ApplyingWith(n) : visitor[h].stage = "stored"
              \/ ApplyingWith(n) = {} /\ otp.code # n
  BY DEF VerificationsRunOut
<1>2. ApplyingWith(n)' \subseteq ApplyingWith(n)
  BY DEF ApplyingWith
<1>3. \A h \in ApplyingWith(n) : visitor[h].stage = "stored" =>
        h \in ApplyingWith(n)' /\ visitor'[h].stage = "stored"
  BY DEF ApplyingWith
<1> QED
  BY <1>1, <1>2, <1>3

LEMMA CountsStay ==
    ASSUME IInv, UNCHANGED <<otp, age, issued, wrong, clobbered>>, forgotten => forgotten'
    PROVE  GuessesAreCounted' /\ CodesAreCounted'
BY DEF IInv, GuessesAreCounted, CodesAreCounted, IssuedLately

(***************************************************************************)
(* Requests that begin and end.                                            *)
(***************************************************************************)

LEMMA Requests ==
    ASSUME IInv, NEW h \in Handlers,
           RequestCode(h) \/ \E guess \in {"right", "wrong"} : CheckGuess(h, guess)
    PROVE  IInv'
<1>1. PICK v \in Visiting :
        /\ visitor' = [visitor EXCEPT ![h] = v] /\ v.stage \in {"issuing", "right", "wrong"}
        /\ visitor[h] = Idle /\ SoundVisit(v)
        /\ UNCHANGED <<otp, age, candidates, issued, wrong, clobbered, backed, loose, overlapped,
                       forgotten>>
  <2>1. CASE RequestCode(h)
    <3> DEFINE v == [stage |-> "issuing", times |-> Counted(otp)]
    <3>1. Counted(otp) \in SUBSET Codes
      BY Known DEF Counted
    <3>2. v \in Visiting /\ SoundVisit(v)
      BY <2>1, <3>1, Made DEF RequestCode, SoundVisit
    <3> QED
      BY <2>1, <3>2 DEF RequestCode, otpHistory, applyHistory
  <2>2. ASSUME NEW guess \in {"right", "wrong"}, CheckGuess(h, guess)
        PROVE  \E v \in Visiting :
                 /\ visitor' = [visitor EXCEPT ![h] = v] /\ v.stage \in {"issuing", "right", "wrong"}
                 /\ visitor[h] = Idle /\ SoundVisit(v)
                 /\ UNCHANGED <<otp, age, candidates, issued, wrong, clobbered, backed, loose,
                                overlapped, forgotten>>
    <3> DEFINE v == [stage |-> guess, copy |-> otp]
    <3>1. otp \in Otp /\ otp.attempts < MaxAttempts
      BY <2>2, Known DEF CheckGuess
    <3>2. v \in Visiting /\ SoundVisit(v)
      BY <3>1, Made, Known DEF SoundVisit
    <3> QED
      BY <2>2, <3>2 DEF CheckGuess, otpHistory, applyHistory
  <2> QED
    BY <2>1, <2>2
<1>2. /\ visitor' \in [Handlers -> Visiting] /\ visitor'[h] = v
      /\ \A g \in Handlers : g # h => visitor'[g] = visitor[g]
  BY <1>1, OneVisitor, Known
<1>3. AppTypeOK'
  BY <1>1, <1>2 DEF IInv, AppTypeOK
<1>4. RequestsAreSound'
  BY <1>1, RequestsStay, Known
<1>5. OneApplies'
  BY <1>1, <1>2, ApplicationsStay DEF IInv
<1>6. VerificationsRunOut'
  <2>1. visitor[h].stage = "idle"
    BY <1>1, Made
  <2> QED
    BY <1>1, <1>2, <2>1, VerificationsStay DEF IInv
<1> QED
  BY <1>1, <1>3, <1>4, <1>5, <1>6, CountsStay DEF IInv

LEMMA GivesUp ==
    ASSUME IInv, NEW h \in Handlers, GiveUp(h)
    PROVE  IInv'
<1>1. /\ visitor' = [visitor EXCEPT ![h] = Idle] /\ visitor[h] \in Visiting
      /\ loose' = IF visitor[h].stage = "stored" THEN loose \union {visitor[h].code} ELSE loose
      /\ UNCHANGED <<otp, age, candidates, issued, wrong, clobbered, backed, overlapped, forgotten>>
  BY Known DEF GiveUp, otpHistory
<1>2. /\ visitor' \in [Handlers -> Visiting] /\ visitor'[h] = Idle
      /\ \A g \in Handlers : g # h => visitor'[g] = visitor[g]
  BY <1>1, Made, OneVisitor, Known
<1>3. AppTypeOK'
  BY <1>1, <1>2, Visits DEF IInv, AppTypeOK
<1>4. RequestsAreSound'
  <2>1. SoundVisit(Idle)
    BY Made DEF SoundVisit
  <2> QED
    BY <1>1, <2>1, Made, RequestsStay, Known
<1>5. OneApplies'
  BY <1>1, <1>2, Made, ApplicationsStay DEF IInv
<1>6. VerificationsRunOut'
  BY <1>1, <1>2, Made, VerificationsStay DEF IInv
<1> QED
  BY <1>1, <1>3, <1>4, <1>5, <1>6, CountsStay DEF IInv

LEMMA LatelyIsFinite ==
    ASSUME IInv
    PROVE  IsFiniteSet(IssuedLately)
<1>1. IsFiniteSet(1..issued)
  <2>1. issued \in Int
    BY Known
  <2> QED
    BY <2>1, FS_Interval
<1>2. IssuedLately \subseteq 1..issued
  BY DEF IssuedLately
<1> QED
  BY <1>1, <1>2, FS_Subset

\* A code that was issued does not come back, and grows older.
LEMMA Ageing ==
    ASSUME IInv, NEW n \in Codes, GrowOlder(n)
    PROVE  IInv'
<1>1. /\ age' = [age EXCEPT ![n] = Older[@]] /\ age[n] # "gone"
      /\ UNCHANGED <<otp, candidates, visitor, issued, wrong, clobbered, backed, loose, overlapped,
                     forgotten>>
  BY DEF GrowOlder, otpHistory, applyHistory
<1>2. AppTypeOK'
  <2>1. age' \in [Codes -> Ages]
    BY <1>1, Known DEF Ages, Older
  <2> QED
    BY <1>1, <2>1 DEF IInv, AppTypeOK
<1>3. RequestsAreSound' /\ GuessesAreCounted'
  BY <1>1 DEF IInv, RequestsAreSound, GuessesAreCounted
<1>4. OneApplies'
  BY <1>1, ApplicationsStay DEF IInv
<1>5. VerificationsRunOut'
  BY <1>1, VerificationsStay, Known, Visits DEF IInv
<1>6. CodesAreCounted'
  <2>1. IssuedLately' \subseteq IssuedLately
    <3>1. \A m \in 1..issued : age'[m] # "gone" => age[m] # "gone"
      BY <1>1, Known DEF Codes
    <3> QED
      BY <1>1, <3>1 DEF IssuedLately
  <2>2. IsFiniteSet(IssuedLately)
    BY LatelyIsFinite
  <2>3. IsFiniteSet(IssuedLately') /\ Cardinality(IssuedLately') <= Cardinality(IssuedLately)
    BY <2>1, <2>2, FS_Subset
  <2>4. Cardinality(IssuedLately') \in Nat /\ Cardinality(IssuedLately) \in Nat
    BY <2>2, <2>3, FS_CardinalityType
  <2> QED
    BY <1>1, <2>1, <2>3, <2>4, Numbers DEF IInv, CodesAreCounted
<1> QED
  BY <1>2, <1>3, <1>4, <1>5, <1>6 DEF IInv

(***************************************************************************)
(* Codes that are issued and guessed.                                      *)
(***************************************************************************)

\* What an issue read under the cap lists every code of the last hour, unless the row has
\* changed since.
LEMMA Issues ==
    ASSUME IInv, NEW h \in Handlers, Issue(h)
    PROVE  IInv'
<1> DEFINE n == issued + 1
           times == visitor[h].times
<1>1. /\ visitor[h].stage = "issuing" /\ n \in Codes /\ issued' = n /\ times \in SUBSET Codes
      /\ otp' = [code |-> n, times |-> times \union {n}, attempts |-> 0, verified |-> FALSE]
      /\ clobbered' = IF Counted(otp) \subseteq times THEN clobbered ELSE clobbered \union otp.times
      /\ visitor' = [visitor EXCEPT ![h] = Idle] /\ Cardinality(times) < PerHour
      /\ UNCHANGED <<age, candidates, wrong, backed, loose, overlapped, forgotten>>
  BY Known, Visits, Numbers DEF Issue, applyHistory, Codes, IInv, RequestsAreSound
<1>2. /\ visitor' \in [Handlers -> Visiting] /\ visitor'[h] = Idle
      /\ \A g \in Handlers : g # h => visitor'[g] = visitor[g]
  BY <1>1, Made, OneVisitor, Known
<1>3. /\ otp' \in Otp /\ otp'.code = n /\ otp'.attempts = 0 /\ otp'.times = times \union {n}
      /\ clobbered \subseteq clobbered' /\ clobbered' \subseteq Codes
  BY <1>1, Numbers, Known DEF Otp
<1>4. AppTypeOK'
  <2>1. issued' \in 0..MaxCodes
    BY <1>1, Known DEF Codes
  <2> QED
    BY <1>1, <1>2, <1>3, <2>1 DEF IInv, AppTypeOK
<1>5. RequestsAreSound'
  <2>1. \A g \in Handlers : visitor'[g] = visitor[g] \/ visitor'[g] = Idle
    BY <1>2
  <2>2. \A g \in Handlers : visitor[g].stage \in {"right", "wrong"} => visitor[g].copy.code \in Nat
    BY Known, Visits, Otps, Numbers
  <2>3. \A g \in Handlers : visitor[g].stage \in {"verified", "new", "stored"} => visitor[g].code \in Nat
    BY Known, Visits, Numbers
  <2> QED
    BY <1>1, <1>3, <2>1, <2>2, <2>3, Known, Made, Numbers DEF IInv, RequestsAreSound
<1>6. OneApplies'
  BY <1>1, <1>2, Made, ApplicationsStay DEF IInv
<1>7. VerificationsRunOut'
  <2>1. backed[n] = 0
    BY <1>1, Known DEF IInv, RequestsAreSound
  <2> QED
    BY <1>1, <1>2, <1>3, <2>1, Made, VerificationsStay DEF IInv
<1>8. GuessesAreCounted'
  <2>1. wrong[n] = 0
    BY <1>1, Known DEF IInv, RequestsAreSound
  <2> QED
    BY <1>1, <1>3, <2>1 DEF IInv, GuessesAreCounted
<1>9. CodesAreCounted'
  <2> SUFFICES ASSUME ~forgotten, clobbered' = {}
               PROVE  IssuedLately' \subseteq otp'.times /\ Cardinality(IssuedLately') <= PerHour
    BY <1>1 DEF CodesAreCounted
  <2>1. IssuedLately \subseteq otp.times
    BY <1>3 DEF IInv, CodesAreCounted
  <2>2. Counted(otp) \subseteq times
    <3>1. CASE otp.times = {}
      BY <3>1 DEF Counted
    <3>2. CASE otp.times # {}
      BY <1>1, <3>2
    <3> QED
      BY <3>1, <3>2
  <2>3. IssuedLately \subseteq times
    BY <2>1, <2>2 DEF Counted, IssuedLately
  <2>4. IssuedLately' \subseteq IssuedLately \union {n}
    BY <1>1, Known DEF IssuedLately
  <2>5. IsFiniteSet(times)
    <3>1. IsFiniteSet(Codes)
      BY Numbers, FS_Interval DEF Codes
    <3> QED
      BY <1>1, <3>1, FS_Subset
  <2>6. IsFiniteSet(times \union {n}) /\ Cardinality(times \union {n}) <= Cardinality(times) + 1
    <3> HIDE DEF times, n
    <3>1. Cardinality(times) \in Nat
      BY <2>5, FS_CardinalityType
    <3>2. /\ IsFiniteSet(times \union {n})
          /\ Cardinality(times \union {n}) = IF n \in times THEN Cardinality(times)
                                            ELSE Cardinality(times) + 1
      BY <2>5, FS_AddElement
    <3> QED
      BY <3>1, <3>2
  <2>7. IssuedLately' \subseteq times \union {n}
    BY <2>3, <2>4
  <2>8. IsFiniteSet(IssuedLately') /\ Cardinality(IssuedLately') <= Cardinality(times \union {n})
    BY <2>6, <2>7, FS_Subset
  <2>9. /\ Cardinality(times) \in Nat /\ Cardinality(times \union {n}) \in Nat
        /\ Cardinality(IssuedLately') \in Nat
    BY <2>5, <2>6, <2>8, FS_CardinalityType
  <2> QED
    BY <1>1, <1>3, <2>6, <2>7, <2>8, <2>9, Numbers
<1> QED
  BY <1>4, <1>5, <1>6, <1>7, <1>8, <1>9 DEF IInv

\* A guess is recorded on the row that it was checked against, or its code was clobbered.
LEMMA Guesses ==
    ASSUME IInv, NEW h \in Handlers, RecordWrong(h) \/ RecordVerified(h)
    PROVE  IInv'
<1> DEFINE rec == visitor[h].copy
<1>1. /\ rec \in Otp /\ rec.attempts < MaxAttempts /\ rec.code <= issued
      /\ visitor' = [visitor EXCEPT ![h] = Idle] /\ Clobber(rec)
      /\ visitor[h].stage \in {"right", "wrong"}
      /\ UNCHANGED <<age, candidates, issued, backed, loose, overlapped, forgotten>>
  BY Known, Visits DEF RecordWrong, RecordVerified, applyHistory, IInv, RequestsAreSound
<1>2. /\ visitor' \in [Handlers -> Visiting] /\ visitor'[h] = Idle
      /\ \A g \in Handlers : g # h => visitor'[g] = visitor[g]
  BY <1>1, Made, OneVisitor, Known
<1>3. rec.code \in Codes /\ rec.times \in SUBSET Codes /\ rec.attempts \in 0..MaxAttempts
  BY <1>1, Otps
<1>4. /\ otp' \in Otp /\ otp'.code = rec.code /\ otp'.times = rec.times
      /\ wrong' \in [Codes -> 0..MaxAttempts + 1]
      /\ \A n \in Codes : n # rec.code => wrong'[n] = wrong[n]
      /\ \/ otp'.attempts = rec.attempts /\ wrong' = wrong
         \/ /\ otp'.attempts = rec.attempts + 1
            /\ wrong'[rec.code] = IF wrong[rec.code] > MaxAttempts THEN wrong[rec.code]
                                  ELSE wrong[rec.code] + 1
  <2>1. CASE RecordWrong(h)
    <3>1. /\ otp' = [rec EXCEPT !.attempts = @ + 1]
          /\ wrong' = [wrong EXCEPT ![rec.code] = IF @ > MaxAttempts THEN @ ELSE @ + 1]
      BY <2>1 DEF RecordWrong
    <3>2. rec.attempts + 1 \in 0..MaxAttempts
      BY <1>1, <1>3, Numbers
    <3>3. /\ otp' \in Otp /\ otp'.code = rec.code /\ otp'.times = rec.times
          /\ otp'.attempts = rec.attempts + 1
      BY <1>1, <3>1, <3>2 DEF Otp
    <3>4. wrong' \in [Codes -> 0..MaxAttempts + 1]
      BY <1>3, <3>1, Known, Numbers
    <3> QED
      BY <1>3, <3>1, <3>3, <3>4, Known
  <2>2. CASE RecordVerified(h)
    <3>1. otp' = [rec EXCEPT !.verified = TRUE] /\ wrong' = wrong
      BY <2>2 DEF RecordVerified
    <3> QED
      BY <1>1, <3>1, Known DEF Otp
  <2> QED
    BY <1>1, <2>1, <2>2
<1>5. /\ clobbered \subseteq clobbered' /\ clobbered' \subseteq Codes
      /\ otp = rec \/ rec.code \in clobbered'
  BY <1>1, <1>3, Known, Otps, Numbers DEF Clobber
<1>6. AppTypeOK'
  BY <1>1, <1>2, <1>4, <1>5 DEF IInv, AppTypeOK
<1>7. RequestsAreSound'
  <2>1. \A g \in Handlers : visitor'[g] = visitor[g] \/ visitor'[g] = Idle
    BY <1>2
  <2>2. \A n \in Codes : n > issued => n # rec.code
    BY <1>1, <1>3, Known, Numbers
  <2> QED
    BY <1>1, <1>4, <2>1, <2>2, Made DEF IInv, RequestsAreSound
<1>8. OneApplies'
  BY <1>1, <1>2, Made, ApplicationsStay DEF IInv
<1>9. VerificationsRunOut'
  BY <1>1, <1>2, <1>4, <1>5, Made, VerificationsStay DEF IInv
<1>10. GuessesAreCounted'
  <2> SUFFICES ASSUME NEW n \in Codes \ clobbered'
               PROVE  wrong'[n] <= MaxAttempts /\ (otp'.code = n => wrong'[n] = otp'.attempts)
    BY DEF GuessesAreCounted
  <2>1. wrong[n] <= MaxAttempts /\ (otp.code = n => wrong[n] = otp.attempts)
    BY <1>5 DEF IInv, GuessesAreCounted
  <2>2. CASE n # rec.code
    BY <1>4, <2>1, <2>2
  <2>3. CASE n = rec.code
    <3>1. wrong[n] = rec.attempts
      BY <1>5, <2>1, <2>3
    <3> QED
      BY <1>1, <1>3, <1>4, <2>3, <3>1, Numbers
  <2> QED
    BY <2>2, <2>3
<1>11. CodesAreCounted'
  <2> SUFFICES ASSUME ~forgotten, clobbered' = {}
               PROVE  IssuedLately' \subseteq otp'.times /\ Cardinality(IssuedLately') <= PerHour
    BY <1>1 DEF CodesAreCounted
  <2>1. otp'.times = otp.times /\ clobbered = {}
    BY <1>4, <1>5
  <2> QED
    BY <1>1, <2>1 DEF IInv, CodesAreCounted, IssuedLately
<1> QED
  BY <1>6, <1>7, <1>8, <1>9, <1>10, <1>11 DEF IInv

(***************************************************************************)
(* Applications.                                                           *)
(***************************************************************************)

\* The applications of a handler that proceeds, as the others see it.
LEMMA Checks ==
    ASSUME IInv, NEW h \in Handlers, NEW j \in Postings, CheckVerified(h, j)
    PROVE  IInv'
<1> DEFINE n == otp.code
           v == [stage |-> "verified", posting |-> j, code |-> n]
<1>1. /\ visitor[h] = Idle /\ visitor[h].stage = "idle" /\ otp \in Otp /\ n \in Codes
      /\ visitor' = [visitor EXCEPT ![h] = v] /\ v \in Visiting /\ v.stage = "verified" /\ v.code = n
      /\ loose' = IF ApplyingWith(n) = {} THEN loose ELSE loose \union {n}
      /\ UNCHANGED <<otp, age, candidates, issued, wrong, clobbered, backed, overlapped, forgotten>>
  <2>1. visitor[h] = Idle /\ otp \in Otp
    BY Known, Otps DEF CheckVerified, EmailIsVerified
  <2>2. n \in Codes
    BY <2>1, Otps
  <2> QED
    BY <2>1, <2>2, Made DEF CheckVerified, otpHistory
<1> HIDE DEF v
<1>2. /\ visitor' \in [Handlers -> Visiting] /\ visitor'[h] = v
      /\ \A g \in Handlers : g # h => visitor'[g] = visitor[g]
  BY <1>1, OneVisitor, Known
<1>3. AppTypeOK'
  BY <1>1, <1>2 DEF IInv, AppTypeOK
<1>4. RequestsAreSound'
  <2>1. SoundVisit(v)
    BY <1>1, Known DEF SoundVisit
  <2> QED
    BY <1>1, <2>1, RequestsStay, Known
<1>5. OneApplies'
  BY <1>1, <1>2, ApplicationsStay DEF IInv
<1>6. VerificationsRunOut'
  <2> SUFFICES ASSUME NEW m \in Codes \ (loose' \union clobbered')
               PROVE  /\ \A g, i \in ApplyingWith(m)' : g = i
                      /\ backed'[m] # 0 =>
                           /\ backed'[m] = 1
                           /\ \/ \E g \in ApplyingWith(m)' : visitor'[g].stage = "stored"
                              \/ ApplyingWith(m)' = {} /\ otp'.code # m
    BY DEF VerificationsRunOut
  <2>1. /\ m \notin loose \union clobbered
        /\ \A g, i \in ApplyingWith(m) : g = i
        /\ backed[m] # 0 =>
             /\ backed[m] = 1
             /\ \/ \E g \in ApplyingWith(m) : visitor[g].stage = "stored"
                \/ ApplyingWith(m) = {} /\ otp.code # m
    BY <1>1 DEF IInv, VerificationsRunOut
  <2>2. CASE m = n
    <3>1. ApplyingWith(m) = {} /\ backed[m] = 0
      BY <1>1, <2>1, <2>2
    <3>2. ApplyingWith(m)' = {h}
      BY <1>1, <1>2, <2>2, <3>1 DEF ApplyingWith
    <3> QED
      BY <1>1, <3>1, <3>2
  <2>3. CASE m # n
    <3>1. ApplyingWith(m)' = ApplyingWith(m) /\ h \notin ApplyingWith(m)
      BY <1>1, <1>2, <2>3 DEF ApplyingWith
    <3>2. \A g \in ApplyingWith(m) : visitor'[g] = visitor[g]
      BY <1>2, <3>1 DEF ApplyingWith
    <3> QED
      BY <1>1, <2>1, <3>1, <3>2
  <2> QED
    BY <2>2, <2>3
<1> QED
  BY <1>1, <1>3, <1>4, <1>5, <1>6, CountsStay DEF IInv

\* Who passes the check for a posting is the only one, or the posting is overlapped.
LEMMA Passes ==
    ASSUME IInv, NEW h \in Handlers, CheckNotApplied(h)
    PROVE  IInv'
<1> DEFINE j == visitor[h].posting
           v == [visitor[h] EXCEPT !.stage = "new"]
<1>1. /\ visitor[h].stage = "verified" /\ visitor[h] \in Applying /\ j \in Postings
      /\ visitor' = [visitor EXCEPT ![h] = v] /\ ~AlreadyApplied(j)
      /\ overlapped' = IF CheckedFor(j) = {} THEN overlapped ELSE overlapped \union {j}
      /\ UNCHANGED <<otp, age, candidates, issued, wrong, clobbered, backed, loose, forgotten>>
  BY Known, Visits DEF CheckNotApplied, otpHistory
<1>2. v \in Visiting /\ v.stage = "new" /\ v.posting = j /\ v.code = visitor[h].code
  BY <1>1, GoesOn
<1> HIDE DEF v
<1>3. /\ visitor' \in [Handlers -> Visiting] /\ visitor'[h] = v
      /\ \A g \in Handlers : g # h => visitor'[g] = visitor[g]
  BY <1>1, <1>2, OneVisitor, Known
<1>4. AppTypeOK'
  BY <1>1, <1>3 DEF IInv, AppTypeOK
<1>5. RequestsAreSound'
  <2>1. SoundVisit(v)
    BY <1>1, <1>2 DEF SoundVisit, IInv, RequestsAreSound
  <2> QED
    BY <1>1, <1>2, <2>1, RequestsStay, Known
<1>6. OneApplies'
  <2> SUFFICES ASSUME NEW k \in Postings \ overlapped'
               PROVE  /\ \A c, d \in Candidates : candidates'[c] = k /\ candidates'[d] = k => c = d
                      /\ \A g, i \in CheckedFor(k)' : g = i
                      /\ CheckedFor(k)' # {} => ~AlreadyApplied(k)'
    BY DEF OneApplies
  <2>1. /\ \A c, d \in Candidates : candidates[c] = k /\ candidates[d] = k => c = d
        /\ \A g, i \in CheckedFor(k) : g = i
        /\ CheckedFor(k) # {} => ~AlreadyApplied(k)
    BY <1>1 DEF IInv, OneApplies
  <2>2. AlreadyApplied(k)' = AlreadyApplied(k)
    BY <1>1 DEF AlreadyApplied
  <2>3. CASE k = j
    <3>1. CheckedFor(k) = {}
      BY <1>1, <2>3
    <3>2. CheckedFor(k)' \subseteq {h}
      BY <1>3, <3>1 DEF CheckedFor
    <3> QED
      BY <1>1, <2>1, <2>2, <2>3, <3>2
  <2>4. CASE k # j
    <3>1. CheckedFor(k)' = CheckedFor(k)
      BY <1>1, <1>2, <1>3, <2>4 DEF CheckedFor
    <3> QED
      BY <1>1, <2>1, <2>2, <3>1
  <2> QED
    BY <2>3, <2>4
<1>7. VerificationsRunOut'
  BY <1>1, <1>2, <1>3, VerificationsStay DEF IInv
<1> QED
  BY <1>1, <1>4, <1>5, <1>6, <1>7, CountsStay DEF IInv

\* A candidate is stored on a verification that backs nothing yet.
LEMMA Stores ==
    ASSUME IInv, NEW h \in Handlers, NEW c \in Candidates, StoreCandidate(h, c)
    PROVE  IInv'
<1> DEFINE j == visitor[h].posting
           n == visitor[h].code
           v == [visitor[h] EXCEPT !.stage = "stored"]
<1>1. /\ visitor[h].stage = "new" /\ visitor[h] \in Applying /\ j \in Postings /\ n \in Codes
      /\ visitor' = [visitor EXCEPT ![h] = v] /\ n <= issued
      /\ candidates' = [candidates EXCEPT ![c] = j]
      /\ backed' = [backed EXCEPT ![n] = IF @ = 2 THEN 2 ELSE @ + 1]
      /\ UNCHANGED <<otp, age, issued, wrong, clobbered, loose, overlapped, forgotten>>
  BY Known, Visits DEF StoreCandidate, otpHistory, IInv, RequestsAreSound
<1>2. v \in Visiting /\ v.stage = "stored" /\ v.posting = j /\ v.code = n
  BY <1>1, GoesOn
<1> HIDE DEF v
<1>3. /\ visitor' \in [Handlers -> Visiting] /\ visitor'[h] = v
      /\ \A g \in Handlers : g # h => visitor'[g] = visitor[g]
  BY <1>1, <1>2, OneVisitor, Known
<1>4. /\ candidates' \in [Candidates -> Postings \union {"none"}] /\ candidates'[c] = j
      /\ \A d \in Candidates : d # c => candidates'[d] = candidates[d]
  BY <1>1, Known
<1>5. /\ backed' \in [Codes -> 0..2]
      /\ backed[n] = 0 => backed'[n] = 1
      /\ \A m \in Codes : m # n => backed'[m] = backed[m]
  BY <1>1, Known
<1>6. AppTypeOK'
  BY <1>1, <1>3, <1>4, <1>5 DEF IInv, AppTypeOK
<1>7. RequestsAreSound'
  <2>1. \A g \in Handlers : SoundVisit(visitor'[g])
    BY <1>1, <1>2, <1>3 DEF SoundVisit, IInv, RequestsAreSound
  <2>2. \A m \in Codes : m > issued => m # n
    BY <1>1, Known, Numbers
  <2> QED
    BY <1>1, <1>5, <2>1, <2>2 DEF SoundVisit, IInv, RequestsAreSound
<1>8. OneApplies'
  <2> SUFFICES ASSUME NEW k \in Postings \ overlapped
               PROVE  /\ \A b, d \in Candidates : candidates'[b] = k /\ candidates'[d] = k => b = d
                      /\ \A g, i \in CheckedFor(k)' : g = i
                      /\ CheckedFor(k)' # {} => ~AlreadyApplied(k)'
    BY <1>1 DEF OneApplies
  <2>1. /\ \A b, d \in Candidates : candidates[b] = k /\ candidates[d] = k => b = d
        /\ \A g, i \in CheckedFor(k) : g = i
        /\ CheckedFor(k) # {} => ~AlreadyApplied(k)
    BY DEF IInv, OneApplies
  <2>2. CASE k = j
    <3>1. CheckedFor(k) = {h} /\ ~AlreadyApplied(k)
      BY <1>1, <2>1, <2>2 DEF CheckedFor
    <3>2. CheckedFor(k)' = {}
      BY <1>2, <1>3, <3>1 DEF CheckedFor
    <3>3. \A d \in Candidates : candidates'[d] = k => d = c
      BY <1>4, <3>1 DEF AlreadyApplied
    <3> QED
      BY <3>2, <3>3
  <2>3. CASE k # j
    <3>1. \A d \in Candidates : candidates'[d] = k => candidates[d] = k
      BY <1>4, <2>3
    <3>2. CheckedFor(k)' \subseteq CheckedFor(k)
      BY <1>2, <1>3 DEF CheckedFor
    <3> QED
      BY <2>1, <3>1, <3>2 DEF AlreadyApplied
  <2> QED
    BY <2>2, <2>3
<1>9. VerificationsRunOut'
  <2> SUFFICES ASSUME NEW m \in Codes \ (loose \union clobbered)
               PROVE  /\ \A g, i \in ApplyingWith(m)' : g = i
                      /\ backed'[m] # 0 =>
                           /\ backed'[m] = 1
                           /\ \/ \E g \in ApplyingWith(m)' : visitor'[g].stage = "stored"
                              \/ ApplyingWith(m)' = {} /\ otp'.code # m
    BY <1>1 DEF VerificationsRunOut
  <2>1. /\ \A g, i \in ApplyingWith(m) : g = i
        /\ backed[m] # 0 =>
             /\ backed[m] = 1
             /\ \/ \E g \in ApplyingWith(m) : visitor[g].stage = "stored"
                \/ ApplyingWith(m) = {} /\ otp.code # m
    BY DEF IInv, VerificationsRunOut
  <2>2. ApplyingWith(m)' = ApplyingWith(m)
    BY <1>1, <1>2, <1>3 DEF ApplyingWith
  <2>3. CASE m = n
    <3>1. h \in ApplyingWith(m)
      BY <1>1, <2>3 DEF ApplyingWith
    <3>2. backed[m] = 0
      BY <1>1, <2>1, <3>1
    <3>3. backed'[m] = 1 /\ visitor'[h].stage = "stored"
      BY <1>2, <1>3, <1>5, <2>3, <3>2
    <3>4. h \in ApplyingWith(m)'
      BY <2>2, <3>1
    <3> QED
      BY <2>1, <2>2, <3>3, <3>4
  <2>4. CASE m # n
    <3>1. \A g \in ApplyingWith(m) : visitor'[g] = visitor[g]
      <4> SUFFICES ASSUME NEW g \in Handlers, visitor[g].code = m PROVE visitor'[g] = visitor[g]
        BY DEF ApplyingWith
      <4> QED
        BY <1>1, <1>3, <2>4
    <3>2. backed'[m] = backed[m] /\ otp' = otp
      BY <1>1, <1>5, <2>4
    <3> QED
      BY <2>1, <2>2, <3>1, <3>2
  <2> QED
    BY <2>3, <2>4
<1> QED
  BY <1>1, <1>6, <1>7, <1>8, <1>9, CountsStay DEF IInv

\* The row is deleted, and nothing is verified any more.
LEMMA Consumes ==
    ASSUME IInv, NEW h \in Handlers, ConsumeVerification(h)
    PROVE  IInv'
<1> DEFINE n == visitor[h].code
<1>1. /\ visitor[h].stage = "stored" /\ visitor' = [visitor EXCEPT ![h] = Idle]
      /\ otp' = NoOtp /\ otp'.code = 0 /\ forgotten' = TRUE
      /\ UNCHANGED <<age, candidates, issued, wrong, clobbered, backed, loose, overlapped>>
  BY Otps DEF ConsumeVerification, otpHistory
<1>2. /\ visitor' \in [Handlers -> Visiting] /\ visitor'[h] = Idle
      /\ \A g \in Handlers : g # h => visitor'[g] = visitor[g]
  BY <1>1, Made, OneVisitor, Known
<1>3. AppTypeOK'
  BY <1>1, <1>2 DEF IInv, AppTypeOK
<1>4. RequestsAreSound'
  <2>1. SoundVisit(Idle) /\ otp'.code <= issued
    BY <1>1, Made, Known DEF SoundVisit
  <2> QED
    BY <1>1, <2>1, Made, RequestsStay
<1>5. OneApplies'
  BY <1>1, <1>2, Made, ApplicationsStay DEF IInv
<1>6. VerificationsRunOut'
  <2> SUFFICES ASSUME NEW m \in Codes \ (loose \union clobbered)
               PROVE  /\ \A g, i \in ApplyingWith(m)' : g = i
                      /\ backed'[m] # 0 =>
                           /\ backed'[m] = 1
                           /\ \/ \E g \in ApplyingWith(m)' : visitor'[g].stage = "stored"
                              \/ ApplyingWith(m)' = {} /\ otp'.code # m
    BY <1>1 DEF VerificationsRunOut
  <2>1. /\ \A g, i \in ApplyingWith(m) : g = i
        /\ backed[m] # 0 =>
             /\ backed[m] = 1
             /\ \/ \E g \in ApplyingWith(m) : visitor[g].stage = "stored"
                \/ ApplyingWith(m) = {} /\ otp.code # m
    BY DEF IInv, VerificationsRunOut
  <2>2. otp'.code # m
    BY <1>1, Numbers
  <2>3. CASE m = n
    <3>1. ApplyingWith(m) = {h}
      BY <1>1, <2>1, <2>3 DEF ApplyingWith
    <3>2. ApplyingWith(m)' = {}
      BY <1>2, <3>1, Made DEF ApplyingWith
    <3> QED
      BY <1>1, <2>1, <2>2, <3>2
  <2>4. CASE m # n
    <3>1. ApplyingWith(m)' = ApplyingWith(m) /\ \A g \in ApplyingWith(m) : visitor'[g] = visitor[g]
      BY <1>1, <1>2, <2>4, Made DEF ApplyingWith
    <3> QED
      BY <1>1, <2>1, <2>2, <3>1
  <2> QED
    BY <2>3, <2>4
<1>7. GuessesAreCounted' /\ CodesAreCounted'
  BY <1>1, Numbers DEF IInv, GuessesAreCounted, CodesAreCounted
<1> QED
  BY <1>3, <1>4, <1>5, <1>6, <1>7 DEF IInv

(***************************************************************************)
(* The theorems.                                                           *)
(***************************************************************************)

\* For any number of handlers, postings, candidate ids and codes and any limits: the types,
\* who holds a verification and has passed the check for a posting
\* (app/api/routes/public.py), and what the row counts.
THEOREM ApplicationsInvariance == Spec => []IInv
<1>1. Init => IInv
  <2> SUFFICES ASSUME Init
               PROVE  IInv
    OBVIOUS
  <2>1. /\ otp = NoOtp /\ age = [n \in Codes |-> "cooling"]
        /\ candidates = [c \in Candidates |-> "none"] /\ visitor = [h \in Handlers |-> Idle]
        /\ issued = 0 /\ wrong = [n \in Codes |-> 0] /\ backed = [n \in Codes |-> 0]
        /\ clobbered = {} /\ loose = {} /\ overlapped = {} /\ forgotten = FALSE
    BY DEF Init
  <2>2. AppTypeOK
    <3>1. /\ visitor \in [Handlers -> Visiting] /\ age \in [Codes -> Ages]
          /\ candidates \in [Candidates -> Postings \union {"none"}] /\ issued \in 0..MaxCodes
      BY <2>1, Made, Numbers DEF Ages
    <3>2. wrong \in [Codes -> 0..MaxAttempts + 1] /\ backed \in [Codes -> 0..2]
      BY <2>1, Numbers
    <3> QED
      BY <2>1, <3>1, <3>2 DEF AppTypeOK
  <2>3. RequestsAreSound
    BY <2>1, Made, Otps DEF RequestsAreSound
  <2>4. OneApplies
    BY <2>1, Made, PostingsAssumption DEF OneApplies, CheckedFor
  <2>5. VerificationsRunOut
    BY <2>1, Made DEF VerificationsRunOut, ApplyingWith
  <2>6. GuessesAreCounted
    BY <2>1, Otps, Numbers DEF GuessesAreCounted
  <2>7. CodesAreCounted
    <3>1. IssuedLately = {}
      BY <2>1 DEF IssuedLately
    <3> QED
      BY <3>1, FS_EmptySet, Numbers DEF CodesAreCounted
  <2> QED
    BY <2>2, <2>3, <2>4, <2>5, <2>6, <2>7 DEF IInv
<1>2. IInv /\ [Next]_vars => IInv'
  <2> SUFFICES ASSUME IInv, [Next]_vars
               PROVE  IInv'
    OBVIOUS
  <2>1. ASSUME NEW h \in Handlers,
               RequestCode(h) \/ \E guess \in {"right", "wrong"} : CheckGuess(h, guess)
        PROVE  IInv'
    BY <2>1, Requests
  <2>2. ASSUME NEW h \in Handlers, Issue(h)
        PROVE  IInv'
    BY <2>2, Issues
  <2>3. ASSUME NEW h \in Handlers, RecordWrong(h) \/ RecordVerified(h)
        PROVE  IInv'
    BY <2>3, Guesses
  <2>4. ASSUME NEW h \in Handlers, NEW j \in Postings, CheckVerified(h, j)
        PROVE  IInv'
    BY <2>4, Checks
  <2>5. ASSUME NEW h \in Handlers, CheckNotApplied(h)
        PROVE  IInv'
    BY <2>5, Passes
  <2>6. ASSUME NEW h \in Handlers, NEW c \in Candidates, StoreCandidate(h, c)
        PROVE  IInv'
    BY <2>6, Stores
  <2>7. ASSUME NEW h \in Handlers, ConsumeVerification(h)
        PROVE  IInv'
    BY <2>7, Consumes
  <2>8. ASSUME NEW h \in Handlers, GiveUp(h)
        PROVE  IInv'
    BY <2>8, GivesUp
  <2>9. ASSUME NEW n \in Codes, GrowOlder(n)
        PROVE  IInv'
    BY <2>9, Ageing
  <2>10. CASE UNCHANGED vars
    <3>1. UNCHANGED <<otp, age, candidates, visitor, issued, wrong, backed, clobbered, loose,
                      overlapped, forgotten>>
      BY <2>10 DEF vars
    <3> QED
      BY <3>1 DEF IInv, AppTypeOK, RequestsAreSound, OneApplies, CheckedFor, AlreadyApplied,
         VerificationsRunOut, ApplyingWith, GuessesAreCounted, CodesAreCounted, IssuedLately
  <2> QED
    BY <2>1, <2>2, <2>3, <2>4, <2>5, <2>6, <2>7, <2>8, <2>9, <2>10 DEF Next
<1> QED
  BY <1>1, <1>2, PTL DEF Spec

\* A posting holds the applicant once, unless two applications for it had both passed the
\* check before either was stored.
THEOREM OncePerPosting == Spec => []OneApplication
<1>1. IInv => OneApplication
  <2> SUFFICES ASSUME IInv, NEW j \in Postings \ overlapped
               PROVE  Cardinality({c \in Candidates : candidates[c] = j}) <= 1
    BY DEF OneApplication
  <2> DEFINE those == {c \in Candidates : candidates[c] = j}
  <2>1. \A c, d \in those : c = d
    BY DEF IInv, OneApplies
  <2>2. those = {} \/ \E c : those = {c}
    BY <2>1
  <2> HIDE DEF those
  <2>3. Cardinality(those) = 0 \/ Cardinality(those) = 1
    BY <2>2, FS_EmptySet, FS_Singleton
  <2>4. Cardinality(those) <= 1
    BY <2>3
  <2> QED
    BY <2>4 DEF those
<1> QED
  BY <1>1, ApplicationsInvariance, PTL

\* A verification backs one application, unless two held it at once, the first died before
\* deleting the row, or a copy of the row was written back over its deletion.
THEOREM UsedOnce == Spec => []VerificationIsUsedOnce
<1>1. IInv => VerificationIsUsedOnce
  <2> SUFFICES ASSUME IInv, NEW n \in Codes \ (loose \union clobbered)
               PROVE  backed[n] <= 1
    BY DEF VerificationIsUsedOnce
  <2>1. backed[n] # 0 => backed[n] = 1
    BY DEF IInv, VerificationsRunOut
  <2> QED
    BY <2>1
<1> QED
  BY <1>1, ApplicationsInvariance, PTL

\* The wrong guesses per code and the codes issued per hour stay within their limits, except
\* for rows written from a stale copy and, for the hour, once the row was deleted.
THEOREM LimitsHold == Spec => []OtpLimitsHold
<1>1. IInv => OtpLimitsHold
  <2> SUFFICES ASSUME IInv
               PROVE  OtpLimitsHold
    OBVIOUS
  <2>1. \A n \in Codes \ clobbered : wrong[n] <= MaxAttempts
    BY DEF IInv, GuessesAreCounted
  <2>2. Cardinality(IssuedLately) \in Nat
    BY LatelyIsFinite, FS_CardinalityType
  <2>3. Cardinality(IssuedLately) > PerHour => forgotten \/ clobbered # {}
    BY <2>2, Numbers DEF IInv, CodesAreCounted
  <2> QED
    BY <2>1, <2>3 DEF OtpLimitsHold
<1> QED
  BY <1>1, ApplicationsInvariance, PTL

(***************************************************************************)
(* TestInvites: the requests, and what their steps write.                  *)
(***************************************************************************)

\* What a request may be doing, by its stage.
LEMMA RequestFields ==
    ASSUME NEW q \in Request
    PROVE  /\ q.stage \in {"idle", "checked", "stored", "merging", "graded"}
           /\ q.stage = "idle" <=> q = NoRequest
           /\ q.stage \in {"checked", "stored", "merging"} =>
                q.op \in Op /\ q.seen \in 0..MaxViolations + 1 /\ q.late \in BOOLEAN
           /\ q.stage = "merging" => q.copy \in Invite
           /\ q.stage = "graded" => q.result \in Result
BY DEF Request, NoRequest

\* The requests that a step brings about.
LEMMA RequestsMade ==
    /\ NoRequest \in Request /\ NoRequest.stage = "idle"
    /\ \A op \in Op, seen \in 0..MaxViolations + 1 :
         [stage |-> "checked", op |-> op, seen |-> seen, copy |-> Unread, late |-> FALSE] \in Request
    /\ \A q \in Request :
         /\ q.stage = "checked" => [q EXCEPT !.stage = "stored"] \in Request
         /\ q.stage \in {"checked", "stored"} =>
              \A row \in Invite : [q EXCEPT !.stage = "merging", !.copy = row] \in Request
         /\ q.stage \in {"checked", "stored", "merging"} => [q EXCEPT !.late = TRUE] \in Request
    /\ \A res \in Result : [stage |-> "graded", result |-> res] \in Request
<1>1. /\ NoRequest \in Request /\ NoRequest.stage = "idle"
      /\ \A res \in Result : [stage |-> "graded", result |-> res] \in Request
  BY DEF Request, NoRequest
<1>2. \A op \in Op, seen \in 0..MaxViolations + 1 :
         [stage |-> "checked", op |-> op, seen |-> seen, copy |-> Unread, late |-> FALSE] \in Request
  BY DEF Request
<1>3. ASSUME NEW q \in Request
      PROVE  /\ q.stage = "checked" => [q EXCEPT !.stage = "stored"] \in Request
             /\ q.stage \in {"checked", "stored"} =>
                  \A row \in Invite : [q EXCEPT !.stage = "merging", !.copy = row] \in Request
             /\ q.stage \in {"checked", "stored", "merging"} => [q EXCEPT !.late = TRUE] \in Request
  <2> DEFINE Early == [stage : {"checked", "stored"}, op : Op, seen : 0..MaxViolations + 1,
                       copy : {Unread}, late : BOOLEAN]
             Late == [stage : {"merging"}, op : Op, seen : 0..MaxViolations + 1,
                      copy : Invite, late : BOOLEAN]
  <2>1. /\ q.stage \in {"checked", "stored"} => q \in Early
        /\ q.stage = "merging" => q \in Late
    BY DEF Request, NoRequest
  <2>2. Early \subseteq Request /\ Late \subseteq Request
    BY DEF Request
  <2>3. /\ q \in Early => [q EXCEPT !.stage = "stored"] \in Early
        /\ q \in Early => [q EXCEPT !.late = TRUE] \in Early
        /\ q \in Late => [q EXCEPT !.late = TRUE] \in Late
    OBVIOUS
  <2>4. ASSUME q \in Early, NEW row \in Invite
        PROVE  [q EXCEPT !.stage = "merging", !.copy = row] \in Late
    BY <2>4
  <2> HIDE DEF Early, Late
  <2> QED
    BY <2>1, <2>2, <2>3, <2>4
<1> QED
  BY <1>1, <1>2, <1>3

\* What an endpoint writes is an invite, with the violations it counted.
LEMMA WritesAnInvite ==
    ASSUME NEW op \in Op, NEW seen \in 0..MaxViolations + 1,
           NEW row \in Invite
    PROVE  /\ Violations(op, seen) \in 0..MaxViolations + 1
           /\ Grade(op, seen) \in Result
           /\ Grade(op, seen).passed => Violations(op, seen) < MaxViolations
           /\ Changed(op, seen, row) \in Invite
<1>0. MaxViolations \in Nat \ {0}
  BY ViolationsAssumption
<1>1. op.kind \in {"start", "violation", "submit", "link", "file", "grade"}
  BY DEF Op
<1>2. op.kind = "submit" => op.claimed \in {0, MaxViolations} /\ op.enough \in BOOLEAN
  BY DEF Op
<1>3. op.kind \in {"link", "file"} => op.work \in Works
  BY DEF Op
<1>4. Violations(op, seen) \in 0..MaxViolations + 1
  BY <1>0, <1>1, <1>2 DEF Violations
<1>5. Grade(op, seen) \in Result /\ (Grade(op, seen).passed => Violations(op, seen) < MaxViolations)
  <2> DEFINE out == Violations(op, seen) >= MaxViolations
             enough == op.enough /\ kind # "take-home"
  <2>1. out \in BOOLEAN /\ enough \in BOOLEAN /\ (enough /\ ~out) \in BOOLEAN
    OBVIOUS
  <2>2. Grade(op, seen) = [given |-> TRUE, enough |-> enough, disqualified |-> out,
                           passed |-> enough /\ ~out]
    BY DEF Grade
  <2>3. Grade(op, seen).passed => ~out
    <3>1. CASE out
      <4>1. (enough /\ ~out) = FALSE
        BY <3>1
      <4> HIDE DEF out, enough
      <4>2. Grade(op, seen) = [given |-> TRUE, enough |-> enough, disqualified |-> out, passed |-> FALSE]
        BY <2>2, <4>1
      <4> QED
        BY <4>2
    <3> QED
      BY <3>1
  <2>4. ~out => Violations(op, seen) < MaxViolations
    BY <1>0, <1>4
  <2> HIDE DEF out, enough
  <2>5. Grade(op, seen) \in Result
    BY <2>1, <2>2 DEF Result
  <2> QED
    BY <2>3, <2>4, <2>5
<1>6. Changed(op, seen, row) \in Invite
  <2>1. CASE op.kind = "start"
    BY <2>1 DEF Changed, Invite
  <2>2. CASE op.kind = "violation"
    BY <1>4, <2>2 DEF Changed, Invite
  <2>3. CASE op.kind = "submit"
    <3>1. Changed(op, seen, row) = [row EXCEPT !.status = "Completed", !.result = Grade(op, seen),
                                               !.violations = Violations(op, seen)]
      BY <2>3 DEF Changed
    <3> QED
      BY <1>4, <1>5, <3>1 DEF Invite
  <2>4. CASE op.kind \in {"link", "file"}
    BY <1>3, <2>4 DEF Changed, Invite
  <2>5. CASE op.kind = "grade"
    BY <2>5 DEF Changed, Invite
  <2> QED
    BY <1>1, <2>1, <2>2, <2>3, <2>4, <2>5
<1> QED
  BY <1>4, <1>5, <1>6

\* An invite that nobody has opened.
LEMMA TestStarts ==
    ASSUME TestInit
    PROVE  TestIInv
<1>1. TestTypeOK
  <2>1. invite \in Invite
    BY ViolationsAssumption DEF TestInit, Invite
  <2>2. solver \in [Solvers -> Request]
    BY RequestsMade DEF TestInit
  <2>3. told \in [result : Result \union {NoResult}, file : Works \union {"none"},
                  link : Works \union {"none"}]
    BY DEF TestInit
  <2>4. iqRows \in Seq(Result)
    BY DEF TestInit
  <2> QED
    BY <2>1, <2>2, <2>3, <2>4 DEF TestInit, TestTypeOK
<1>2. \A s \in Solvers : solver[s].stage = "idle"
  BY DEF TestInit, NoRequest
<1>3. ChecksStand /\ FilesAreStored /\ ResultsAreDue
  BY <1>2 DEF ChecksStand, FilesAreStored, ResultsAreDue, InFlight
<1>4. RowsAreFinal /\ AnswersStand
  BY DEF TestInit, RowsAreFinal, AnswersStand
<1> QED
  BY <1>1, <1>3, <1>4 DEF TestIInv

\* A request reads the invite.
LEMMA LoadKeepsTest ==
    ASSUME TestIInv, NEW s \in Solvers, NEW op \in Op, Load(s, op)
    PROVE  TestIInv'
<1> DEFINE new == [stage |-> "checked", op |-> op, seen |-> invite.violations,
                   copy |-> Unread, late |-> FALSE]
<1>1. /\ Accepts(op) /\ solver' = [solver EXCEPT ![s] = new]
      /\ UNCHANGED <<kind, invite, iqRows, stored, open, told, raced>>
  BY DEF Load
<1>2. TestTypeOK /\ ChecksStand /\ FilesAreStored /\ ResultsAreDue /\ RowsAreFinal /\ AnswersStand
  BY DEF TestIInv
<1>3. new \in Request
  <2>1. invite.violations \in 0..MaxViolations + 1
    BY <1>2 DEF TestTypeOK, Invite
  <2> QED
    BY <2>1, RequestsMade
<1>4. new.stage = "checked" /\ new.op = op /\ new.seen = invite.violations
  OBVIOUS
<1> HIDE DEF new
<1>5. \A r \in Solvers : solver'[r] = IF r = s THEN new ELSE solver[r]
  BY <1>1, <1>2 DEF TestTypeOK
<1>6. TestTypeOK'
  BY <1>1, <1>2, <1>3 DEF TestTypeOK
<1>7. ChecksStand'
  <2>1. IF op.kind \in {"start", "violation", "submit"}
        THEN invite.status \notin _TERMINAL ELSE kind = "take-home"
    <3>1. op.kind \in {"start", "violation", "submit", "link", "file", "grade"}
      BY DEF Op
    <3> QED
      BY <1>1, <3>1 DEF Accepts
  <2> QED
    BY <1>1, <1>2, <1>4, <1>5, <2>1 DEF ChecksStand, InFlight
<1>8. FilesAreStored'
  BY <1>1, <1>2, <1>4, <1>5 DEF FilesAreStored, InFlight
<1>9. ResultsAreDue'
  BY <1>1, <1>2, <1>4, <1>5 DEF ResultsAreDue
<1>10. RowsAreFinal' /\ AnswersStand'
  BY <1>1, <1>2 DEF RowsAreFinal, AnswersStand
<1> QED
  BY <1>6, <1>7, <1>8, <1>9, <1>10 DEF TestIInv

\* It stores the work it was sent.
LEMMA StoreKeepsTest ==
    ASSUME TestIInv, NEW s \in Solvers, StoreSubmission(s)
    PROVE  TestIInv'
<1> DEFINE new == [solver[s] EXCEPT !.stage = "stored"]
<1>1. /\ solver[s].stage = "checked" /\ solver[s].op.kind = "file"
      /\ stored' = stored \union {solver[s].op.work}
      /\ solver' = [solver EXCEPT ![s] = new]
      /\ UNCHANGED <<kind, invite, iqRows, open, told, raced>>
  BY DEF StoreSubmission
<1>2. TestTypeOK /\ ChecksStand /\ FilesAreStored /\ ResultsAreDue /\ RowsAreFinal /\ AnswersStand
  BY DEF TestIInv
<1>3. solver[s] \in Request
  BY <1>2 DEF TestTypeOK
<1>4. new \in Request
  BY <1>1, <1>3, RequestsMade
<1>5. /\ new.stage = "stored" /\ new.op = solver[s].op /\ new.seen = solver[s].seen
      /\ new.late = solver[s].late
  BY <1>1, <1>3 DEF Request, NoRequest
<1> HIDE DEF new
<1>6. \A r \in Solvers : solver'[r] = IF r = s THEN new ELSE solver[r]
  BY <1>1, <1>2 DEF TestTypeOK
<1>7. solver[s].op.work \in Works
  BY <1>1, <1>3, RequestFields DEF Op
<1>8. TestTypeOK'
  BY <1>1, <1>2, <1>4, <1>7 DEF TestTypeOK
<1>9. ChecksStand'
  BY <1>1, <1>2, <1>5, <1>6 DEF ChecksStand, InFlight
<1>10. FilesAreStored'
  BY <1>1, <1>2, <1>5, <1>6 DEF FilesAreStored, InFlight
<1>11. ResultsAreDue'
  BY <1>1, <1>2, <1>5, <1>6 DEF ResultsAreDue
<1>12. RowsAreFinal' /\ AnswersStand'
  BY <1>1, <1>2 DEF RowsAreFinal, AnswersStand
<1> QED
  BY <1>8, <1>9, <1>10, <1>11, <1>12 DEF TestIInv

\* It reads the invite again, for the merge.
LEMMA MergeReadKeepsTest ==
    ASSUME TestIInv, NEW s \in Solvers, MergeRead(s)
    PROVE  TestIInv'
<1> DEFINE new == [solver[s] EXCEPT !.stage = "merging", !.copy = invite]
<1>1. /\ solver[s].stage \in {"checked", "stored"}
      /\ solver[s].stage = "checked" => solver[s].op.kind # "file"
      /\ solver' = [solver EXCEPT ![s] = new]
      /\ UNCHANGED <<kind, invite, iqRows, stored, open, told, raced>>
  BY DEF MergeRead
<1>2. TestTypeOK /\ ChecksStand /\ FilesAreStored /\ ResultsAreDue /\ RowsAreFinal /\ AnswersStand
  BY DEF TestIInv
<1>3. solver[s] \in Request /\ invite \in Invite
  BY <1>2 DEF TestTypeOK
<1>4. new \in Request
  BY <1>1, <1>3, RequestsMade
<1>5. /\ new.stage = "merging" /\ new.op = solver[s].op /\ new.seen = solver[s].seen
      /\ new.late = solver[s].late /\ new.copy = invite
  BY <1>1, <1>3 DEF Request, NoRequest
<1> HIDE DEF new
<1>6. \A r \in Solvers : solver'[r] = IF r = s THEN new ELSE solver[r]
  BY <1>1, <1>2 DEF TestTypeOK
<1>7. TestTypeOK'
  BY <1>1, <1>2, <1>4 DEF TestTypeOK
<1>8. ChecksStand'
  BY <1>1, <1>2, <1>5, <1>6 DEF ChecksStand, InFlight
<1>9. FilesAreStored'
  BY <1>1, <1>2, <1>5, <1>6 DEF FilesAreStored, InFlight
<1>10. ResultsAreDue'
  BY <1>1, <1>2, <1>5, <1>6 DEF ResultsAreDue
<1>11. RowsAreFinal' /\ AnswersStand'
  BY <1>1, <1>2 DEF RowsAreFinal, AnswersStand
<1> QED
  BY <1>7, <1>8, <1>9, <1>10, <1>11 DEF TestIInv

\* A patch that somebody overtook only leaves its mark; any other is decided on the invite.
LEMMA PatchKeepsTest ==
    ASSUME TestIInv, NEW s \in Solvers, Patch(s)
    PROVE  TestIInv'
<1> DEFINE op == solver[s].op
           seen == solver[s].seen
           row == solver[s].copy
           after == IF op.kind = "submit" /\ kind = "iq"
                    THEN [stage |-> "graded", result |-> Grade(op, seen)] ELSE NoRequest
<1>1. /\ solver[s].stage = "merging"
      /\ invite' = Changed(op, seen, row)
      /\ raced' = (raced \/ solver[s].late)
      /\ told' = CASE op.kind = "submit" /\ kind # "iq" -> [told EXCEPT !.result = Grade(op, seen)]
                   [] op.kind = "link" -> [told EXCEPT !.link = op.work]
                   [] op.kind = "file" -> [told EXCEPT !.file = op.work]
                   [] OTHER -> told
      /\ solver' = [t \in Solvers |-> IF t = s THEN after
                                      ELSE IF InFlight(t) THEN [solver[t] EXCEPT !.late = TRUE]
                                      ELSE solver[t]]
      /\ UNCHANGED <<kind, iqRows, stored, open>>
  BY DEF Patch
<1>2. TestTypeOK /\ ChecksStand /\ FilesAreStored /\ ResultsAreDue /\ RowsAreFinal /\ AnswersStand
  BY DEF TestIInv
<1>3. \A r \in Solvers : solver[r] \in Request
  BY <1>2 DEF TestTypeOK
<1>4. /\ op \in Op /\ seen \in 0..MaxViolations + 1 /\ row \in Invite /\ solver[s].late \in BOOLEAN
  BY <1>1, <1>3, RequestFields
<1> HIDE DEF op, seen, row
<1>5. /\ Violations(op, seen) \in 0..MaxViolations + 1 /\ Grade(op, seen) \in Result
      /\ Grade(op, seen).passed => Violations(op, seen) < MaxViolations
      /\ Changed(op, seen, row) \in Invite
  BY <1>4, WritesAnInvite
<1>6. /\ op.kind \in {"start", "violation", "submit", "link", "file", "grade"}
      /\ op.kind \in {"link", "file"} => op.work \in Works
  BY <1>4 DEF Op
<1>7. after \in Request /\ after.stage \in {"idle", "graded"}
  BY <1>5, RequestsMade DEF NoRequest
<1>8. \A r \in Solvers \ {s} :
        /\ InFlight(r) => /\ solver'[r] = [solver[r] EXCEPT !.late = TRUE]
                          /\ solver'[r] \in Request /\ solver'[r].late
                          /\ solver'[r].stage = solver[r].stage /\ solver'[r].op = solver[r].op
        /\ ~InFlight(r) => solver'[r] = solver[r]
  <2> SUFFICES ASSUME NEW r \in Solvers \ {s}
               PROVE  /\ InFlight(r) => /\ solver'[r] = [solver[r] EXCEPT !.late = TRUE]
                                        /\ solver'[r] \in Request /\ solver'[r].late
                                        /\ solver'[r].stage = solver[r].stage
                                        /\ solver'[r].op = solver[r].op
                      /\ ~InFlight(r) => solver'[r] = solver[r]
    OBVIOUS
  <2>1. solver'[r] = IF InFlight(r) THEN [solver[r] EXCEPT !.late = TRUE] ELSE solver[r]
    BY <1>1
  <2>2. InFlight(r) => [solver[r] EXCEPT !.late = TRUE] \in Request
    BY <1>3, RequestsMade DEF InFlight
  <2>3. InFlight(r) => /\ [solver[r] EXCEPT !.late = TRUE].late
                       /\ [solver[r] EXCEPT !.late = TRUE].stage = solver[r].stage
                       /\ [solver[r] EXCEPT !.late = TRUE].op = solver[r].op
    <3>1. solver[r] \in Request
      BY <1>3
    <3> QED
      BY <3>1 DEF InFlight, Request, NoRequest
  <2> QED
    BY <2>1, <2>2, <2>3
<1>9. solver'[s] = after
  BY <1>1
<1>10. /\ \A r \in Solvers : ~InFlight(s) \/ TRUE
       /\ told \in [result : Result \union {NoResult}, file : Works \union {"none"},
                    link : Works \union {"none"}]
  BY <1>2 DEF TestTypeOK
<1>11. TestTypeOK'
  <2>1. solver' \in [Solvers -> Request]
    <3>1. \A r \in Solvers : solver'[r] \in Request
      BY <1>3, <1>7, <1>8, <1>9
    <3>2. solver' = [r \in Solvers |-> solver'[r]]
      BY <1>1
    <3> QED
      BY <3>1, <3>2
  <2>2. told' \in [result : Result \union {NoResult}, file : Works \union {"none"},
                   link : Works \union {"none"}]
    BY <1>1, <1>5, <1>6, <1>10
  <2>3. raced' \in BOOLEAN
    BY <1>1
  <2> QED
    BY <1>1, <1>2, <1>5, <2>1, <2>2, <2>3 DEF TestTypeOK
<1> HIDE DEF after
<1>12. ChecksStand'
  BY <1>7, <1>8, <1>9 DEF ChecksStand, InFlight
<1>13. FilesAreStored'
  BY <1>1, <1>2, <1>7, <1>8, <1>9 DEF FilesAreStored, InFlight
<1>14. CASE raced \/ solver[s].late
  <2>1. raced'
    BY <1>1, <1>14
  <2>2. ResultsAreDue' /\ RowsAreFinal' /\ AnswersStand'
    BY <2>1 DEF ResultsAreDue, RowsAreFinal, AnswersStand
  <2> QED
    BY <1>11, <1>12, <1>13, <2>2 DEF TestIInv
<1>15. CASE ~raced /\ ~solver[s].late
  <2>1. InFlight(s)
    BY <1>1 DEF InFlight
  <2>2. /\ seen = invite.violations /\ row = invite
        /\ IF op.kind \in {"start", "violation", "submit"}
           THEN invite.status \notin _TERMINAL ELSE kind = "take-home"
    BY <1>1, <1>2, <1>15, <2>1 DEF ChecksStand, op, seen, row
  <2>3. invite' = Changed(op, seen, invite) /\ invite \in Invite
    BY <1>1, <1>2, <2>2 DEF TestTypeOK
  <2>4. /\ op.kind = "submit" => /\ invite'.status = "Completed"
                                 /\ invite'.result = Grade(op, seen)
                                 /\ invite'.violations = Violations(op, seen)
        /\ op.kind # "submit" => invite'.result = invite.result
        /\ op.kind # "link" => invite'.link = invite.link
        /\ op.kind # "file" => invite'.file = invite.file
        /\ op.kind = "link" => invite'.link = op.work
        /\ op.kind = "file" => invite'.file = op.work
    <3>1. ASSUME NEW v, NEW g
          PROVE  LET new == [invite EXCEPT !.status = "Completed", !.result = g, !.violations = v]
                 IN /\ new.status = "Completed" /\ new.result = g /\ new.violations = v
                    /\ new.file = invite.file /\ new.link = invite.link
      BY <2>3 DEF Invite
    <3>2. op.kind = "submit" =>
            invite' = [invite EXCEPT !.status = "Completed", !.result = Grade(op, seen),
                                     !.violations = Violations(op, seen)]
      BY <2>3 DEF Changed
    <3>3. op.kind = "submit" =>
            /\ invite'.status = "Completed" /\ invite'.result = Grade(op, seen)
            /\ invite'.violations = Violations(op, seen)
            /\ invite'.file = invite.file /\ invite'.link = invite.link
      <4> DEFINE g == Grade(op, seen)
                 v == Violations(op, seen)
      <4> HIDE DEF g, v
      <4>1. op.kind = "submit" =>
              invite' = [invite EXCEPT !.status = "Completed", !.result = g, !.violations = v]
        BY <3>2 DEF g, v
      <4> DEFINE new == [invite EXCEPT !.status = "Completed", !.result = g, !.violations = v]
      <4>2. /\ new.status = "Completed" /\ new.result = g /\ new.violations = v
            /\ new.file = invite.file /\ new.link = invite.link
        BY <3>1, Zenon
      <4>3. op.kind = "submit" => invite' = new
        BY <4>1, Zenon
      <4> HIDE DEF new
      <4> QED
        BY <4>2, <4>3 DEF g, v
    <3>4. op.kind = "start" => /\ invite'.result = invite.result /\ invite'.file = invite.file
                               /\ invite'.link = invite.link
      BY <2>3 DEF Changed, Invite
    <3>5. op.kind = "violation" => /\ invite'.result = invite.result /\ invite'.file = invite.file
                                   /\ invite'.link = invite.link
      BY <2>3 DEF Changed, Invite
    <3>6. op.kind = "link" => /\ invite'.result = invite.result /\ invite'.file = invite.file
                              /\ invite'.link = op.work
      BY <2>3 DEF Changed, Invite
    <3>7. op.kind = "file" => /\ invite'.result = invite.result /\ invite'.file = op.work
                              /\ invite'.link = invite.link
      BY <2>3 DEF Changed, Invite
    <3>8. op.kind = "grade" => /\ invite'.result = invite.result /\ invite'.file = invite.file
                               /\ invite'.link = invite.link
      BY <2>3 DEF Changed, Invite
    <3> QED
      BY <1>6, <3>3, <3>4, <3>5, <3>6, <3>7, <3>8
  <2>5. /\ op.kind = "submit" /\ kind # "iq" => told'.result = Grade(op, seen)
        /\ op.kind # "submit" \/ kind = "iq" => told'.result = told.result
        /\ told'.file = IF op.kind = "file" THEN op.work ELSE told.file
        /\ told'.link = IF op.kind = "link" THEN op.work ELSE told.link
    BY <1>1, <1>6, <1>10
  <2>6. kind # "take-home" => /\ invite.status \notin _TERMINAL
                              /\ op.kind \in {"start", "violation", "submit"}
                              /\ told.result = NoResult
    BY <1>2, <1>6, <1>15, <2>2 DEF AnswersStand, _TERMINAL
  <2>7. kind = "iq" => iqRows = <<>> /\ \A r \in Solvers : solver[r].stage # "graded"
    BY <1>2, <1>15, <2>6 DEF ResultsAreDue, RowsAreFinal, _TERMINAL
  <2>8. ResultsAreDue'
    <3> SUFFICES ASSUME NEW r \in Solvers, solver'[r].stage = "graded"
                 PROVE  /\ kind = "iq" /\ iqRows = <<>>
                        /\ invite'.status = "Completed" /\ invite'.result = solver'[r].result
                        /\ invite'.result.passed => invite'.violations < MaxViolations
                        /\ \A q \in Solvers : solver'[q].stage = "graded" => q = r
      BY <1>1 DEF ResultsAreDue
    <3>1. \A q \in Solvers \ {s} : solver'[q].stage = "graded" => solver[q].stage = "graded"
      BY <1>8 DEF InFlight
    <3>2. CASE r # s
      BY <1>2, <1>15, <2>6, <2>7, <3>1, <3>2 DEF ResultsAreDue
    <3>3. CASE r = s
      <4>1. /\ kind = "iq" /\ op.kind = "submit"
            /\ solver'[s].result = Grade(op, seen)
        BY <1>9, <3>3 DEF after, NoRequest
      <4> QED
        BY <1>5, <2>4, <2>7, <3>1, <3>3, <4>1
    <3> QED
      BY <3>2, <3>3
  <2>9. RowsAreFinal'
    BY <1>1, <2>7 DEF RowsAreFinal
  <2>10. AnswersStand'
    <3>1. invite.file = told.file /\ invite.link = told.link /\ invite.file \in stored \union {"none"}
      BY <1>2, <1>15 DEF AnswersStand
    <3>2. op.kind = "file" => op.work \in stored
      BY <1>1, <1>2, <2>1 DEF FilesAreStored, op
    <3>3. invite'.file = told'.file /\ invite'.link = told'.link
      BY <2>4, <2>5, <3>1
    <3>4. invite'.file \in stored \union {"none"}
      BY <2>4, <3>1, <3>2
    <3>5. told'.result # NoResult /\ kind # "take-home" =>
            /\ invite'.status = "Completed" /\ invite'.result = told'.result
            /\ invite'.result.passed => invite'.violations < MaxViolations
      BY <1>5, <2>4, <2>5, <2>6
    <3> QED
      BY <1>1, <2>7, <3>3, <3>4, <3>5 DEF AnswersStand
  <2> QED
    BY <1>11, <1>12, <1>13, <2>8, <2>9, <2>10 DEF TestIInv
<1> QED
  BY <1>14, <1>15

\* It writes the result row.
LEMMA RowKeepsTest ==
    ASSUME TestIInv, NEW s \in Solvers, CreateIqRow(s)
    PROVE  TestIInv'
<1>1. /\ solver[s].stage = "graded"
      /\ iqRows' = Append(iqRows, solver[s].result)
      /\ told' = [told EXCEPT !.result = solver[s].result]
      /\ solver' = [solver EXCEPT ![s] = NoRequest]
      /\ UNCHANGED <<kind, invite, stored, open, raced>>
  BY DEF CreateIqRow
<1>2. TestTypeOK /\ ChecksStand /\ FilesAreStored /\ ResultsAreDue /\ RowsAreFinal /\ AnswersStand
  BY DEF TestIInv
<1>3. solver[s].result \in Result
  BY <1>1, <1>2, RequestFields DEF TestTypeOK
<1>4. \A r \in Solvers : solver'[r] = IF r = s THEN NoRequest ELSE solver[r]
  BY <1>1, <1>2 DEF TestTypeOK
<1>5. NoRequest \in Request /\ NoRequest.stage = "idle"
  BY RequestsMade
<1>6. TestTypeOK'
  <2>1. iqRows' \in Seq(Result)
    BY <1>1, <1>2, <1>3 DEF TestTypeOK
  <2> QED
    BY <1>1, <1>2, <1>3, <1>5, <2>1 DEF TestTypeOK
<1>7. ChecksStand'
  BY <1>1, <1>2, <1>4, <1>5 DEF ChecksStand, InFlight
<1>8. FilesAreStored'
  BY <1>1, <1>2, <1>4, <1>5 DEF FilesAreStored, InFlight
<1>9. ~raced => /\ kind = "iq" /\ iqRows = <<>>
                /\ invite.status = "Completed" /\ invite.result = solver[s].result
                /\ invite.result.passed => invite.violations < MaxViolations
                /\ \A r \in Solvers : solver[r].stage = "graded" => r = s
  BY <1>1, <1>2 DEF ResultsAreDue
<1>10. ResultsAreDue'
  BY <1>1, <1>4, <1>5, <1>9 DEF ResultsAreDue
<1>11. RowsAreFinal'
  BY <1>1, <1>9 DEF RowsAreFinal
<1>12. AnswersStand'
  <2>1. ~raced => iqRows' = <<invite.result>>
    BY <1>1, <1>9
  <2>2. told'.result = solver[s].result /\ told'.file = told.file /\ told'.link = told.link
    BY <1>1, <1>2 DEF TestTypeOK
  <2> QED
    BY <1>1, <1>2, <1>9, <2>1, <2>2 DEF AnswersStand
<1> QED
  BY <1>6, <1>7, <1>8, <1>10, <1>11, <1>12 DEF TestIInv

\* It ends.
LEMMA EndKeepsTest ==
    ASSUME TestIInv, NEW s \in Solvers, EndRequest(s)
    PROVE  TestIInv'
<1>1. /\ solver' = [solver EXCEPT ![s] = NoRequest]
      /\ UNCHANGED <<kind, invite, iqRows, stored, open, told, raced>>
  BY DEF EndRequest
<1>2. TestTypeOK /\ ChecksStand /\ FilesAreStored /\ ResultsAreDue /\ RowsAreFinal /\ AnswersStand
  BY DEF TestIInv
<1>3. \A r \in Solvers : solver'[r] = IF r = s THEN NoRequest ELSE solver[r]
  BY <1>1, <1>2 DEF TestTypeOK
<1>4. NoRequest \in Request /\ NoRequest.stage = "idle"
  BY RequestsMade
<1>5. TestTypeOK'
  BY <1>1, <1>2, <1>4 DEF TestTypeOK
<1>6. ChecksStand' /\ FilesAreStored'
  BY <1>1, <1>2, <1>3, <1>4 DEF ChecksStand, FilesAreStored, InFlight
<1>7. ResultsAreDue'
  BY <1>1, <1>2, <1>3, <1>4 DEF ResultsAreDue
<1>8. RowsAreFinal' /\ AnswersStand'
  BY <1>1, <1>2 DEF RowsAreFinal, AnswersStand
<1> QED
  BY <1>5, <1>6, <1>7, <1>8 DEF TestIInv

\* A passing deadline, or no step: nothing the invariant speaks of changes but open.
LEMMA DeadlineKeepsTest ==
    ASSUME TestIInv, open' \in BOOLEAN,
           UNCHANGED <<kind, invite, iqRows, stored, solver, told, raced>>
    PROVE  TestIInv'
<1>1. TestTypeOK /\ ChecksStand /\ FilesAreStored /\ ResultsAreDue /\ RowsAreFinal /\ AnswersStand
  BY DEF TestIInv
<1>2. TestTypeOK'
  BY <1>1 DEF TestTypeOK
<1>3. ChecksStand' /\ FilesAreStored'
  BY <1>1 DEF ChecksStand, FilesAreStored, InFlight
<1>4. ResultsAreDue' /\ RowsAreFinal' /\ AnswersStand'
  BY <1>1 DEF ResultsAreDue, RowsAreFinal, AnswersStand
<1> QED
  BY <1>2, <1>3, <1>4 DEF TestIInv

\* Every step of a test keeps the invariant.
LEMMA TestSteps ==
    ASSUME TestIInv, [TestNext]_testVars
    PROVE  TestIInv'
<1>1. CASE \E s \in Solvers :
             \/ \E op \in Op : Load(s, op)
             \/ StoreSubmission(s) \/ MergeRead(s) \/ Patch(s) \/ CreateIqRow(s) \/ EndRequest(s)
  BY <1>1, LoadKeepsTest, StoreKeepsTest, MergeReadKeepsTest, PatchKeepsTest, RowKeepsTest,
     EndKeepsTest
<1>2. CASE DeadlinePasses
  BY <1>2, DeadlineKeepsTest DEF DeadlinePasses
<1>3. CASE UNCHANGED testVars
  <2>1. open' \in BOOLEAN
    BY <1>3 DEF TestIInv, TestTypeOK, testVars
  <2> QED
    BY <1>3, <2>1, DeadlineKeepsTest DEF testVars
<1> QED
  BY <1>1, <1>2, <1>3 DEF TestNext

\* The inductive invariant of a test: a request that passed its checks still stands on what
\* it read unless another one got between, and what a row or an invite names was stored
\* (candidate_test_service.py, take_home_service.py).
THEOREM TestsInvariance == TestSpec => []TestIInv
<1>1. TestInit => TestIInv
  BY TestStarts
<1>2. TestIInv /\ [TestNext]_testVars => TestIInv'
  BY TestSteps
<1> QED
  BY <1>1, <1>2, PTL DEF TestSpec

\* Once a submission has been accepted, the candidate's answers and the grade stay as they
\* are, unless two requests for the same test were on their way at once.
THEOREM WhatWasAnsweredStands == TestSpec => []AnswersStand
<1>1. TestIInv => AnswersStand
  BY DEF TestIInv
<1> QED
  BY <1>1, TestsInvariance, PTL

(***************************************************************************)
(* RateLimiter: sets of numbers, and the windows of an address.            *)
(***************************************************************************)

\* A set of numbers has a least one.
LEMMA LeastOf ==
    ASSUME NEW T, T \subseteq Nat, T # {}
    PROVE  \E x \in T : \A y \in T : x <= y
<1>1. PICK x \in T : \A y \in T : ~(<<y, x>> \in OpToRel(<, Nat))
  BY NatLessThanWellFounded, WFMin
<1>2. \A y \in T : ~(y < x)
  BY <1>1 DEF OpToRel
<1> QED
  BY <1>2

\* A finite set of numbers has a bound.
LEMMA FiniteIsBounded ==
    ASSUME NEW S \in SUBSET Nat, IsFiniteSet(S)
    PROVE  \E b \in Nat : \A x \in S : x <= b
<1>1. PICK n \in Nat : ExistsBijection(1..n, S)
  BY FS_NatBijection
<1>2. PICK f \in Bijection(1..n, S) : TRUE
  BY <1>1 DEF ExistsBijection
<1>3. f \in [1..n -> S] /\ \A x \in S : \E i \in 1..n : f[i] = x
  BY <1>2 DEF Bijection, Injection, Surjection
<1> DEFINE Bounded(m) == \E b \in Nat : \A i \in 1..m : f[i] <= b
           T == {m \in Nat : m <= n /\ ~Bounded(m)}
<1>4. T = {}
  <2>1. SUFFICES ASSUME T # {} PROVE FALSE
    OBVIOUS
  <2>2. PICK m \in T : \A k \in T : m <= k
    <3>1. T \subseteq Nat
      OBVIOUS
    <3> QED
      BY <2>1, <3>1, LeastOf
  <2>m. m \in Nat /\ m <= n /\ ~Bounded(m)
    BY <2>2
  <2>3. m # 0
    <3>1. Bounded(0)
      <4>1. 0 \in Nat /\ \A i \in 1..0 : f[i] <= 0
        OBVIOUS
      <4> QED
        BY <4>1
    <3> QED
      BY <3>1, <2>m
  <2>4. m - 1 \in Nat /\ m - 1 <= n /\ m - 1 \notin T
    <3> HIDE DEF T, Bounded
    <3>1. m - 1 \in Nat /\ m - 1 <= n /\ ~(m <= m - 1)
      BY <2>m, <2>3
    <3> QED
      BY <2>2, <3>1
  <2>5. PICK b \in Nat : \A i \in 1..(m - 1) : f[i] <= b
    BY <2>4
  <2>6. m \in 1..n
    BY <2>m, <2>3
  <2>f. \A i \in 1..n : f[i] \in Nat
    BY <1>3
  <2>7. PICK c \in Nat : f[m] = c
    BY <2>6, <2>f
  <2>8. ASSUME NEW i \in 1..m
        PROVE  f[i] <= b + c
    <3>0. i \in 1..n
      BY <1>1, <2>6
    <3>1. PICK x \in Nat : f[i] = x
      BY <2>f, <3>0
    <3>2. i \in 1..(m - 1) => x <= b
      BY <2>5, <3>1
    <3>3. i \in 1..(m - 1) \/ i = m
      BY <2>6
    <3>4. i = m => x = c
      BY <2>7, <3>1
    <3>5. b \in Nat
      BY <2>5
    <3>6. x <= b + c
      BY <2>7, <3>1, <3>2, <3>3, <3>4, <3>5
    <3> QED
      BY <3>1, <3>6
  <2>9. b + c \in Nat
    BY <2>5, <2>7
  <2>10. Bounded(m)
    BY <2>8, <2>9
  <2> QED
    BY <2>10, <2>m
<1>5. n \notin T
  BY <1>4
<1>6. Bounded(n)
  BY <1>5
<1> QED
  BY <1>3, <1>6

\* A finite set of numbers has a largest.
LEMMA MaxOfFinite ==
    ASSUME NEW S \in SUBSET Nat, IsFiniteSet(S), S # {}
    PROVE  Max(S) \in S /\ \A x \in S : Max(S) >= x
<1>1. PICK b \in Nat : \A x \in S : x <= b
  BY FiniteIsBounded
<1> DEFINE T == {b - x : x \in S}
<1>2. T \subseteq Nat /\ T # {}
  <2>1. \A x \in S : x \in Nat /\ b - x \in Nat
    BY <1>1
  <2> QED
    BY <2>1
<1>3. PICK y \in T : \A z \in T : y <= z
  <2> HIDE DEF T
  <2> QED
    BY <1>2, LeastOf
<1>4. PICK x \in S : y = b - x
  BY <1>3
<1>5. ASSUME NEW z \in S
      PROVE  x >= z
  <2>1. x \in Nat /\ z \in Nat /\ b - z \in T
    OBVIOUS
  <2>2. b - x <= b - z
    BY <1>3, <1>4, <2>1
  <2> QED
    BY <1>1, <2>1, <2>2
<1> QED
  BY <1>4, <1>5 DEF Max

\* The longest window of a limiter is a positive number no rule exceeds.
LEMMA LongestWindow ==
    ASSUME NEW l \in Limiters
    PROVE  /\ MaxWindow(l) \in Nat \ {0}
           /\ \A rule \in Rules[l] : /\ rule.window \in Nat \ {0} /\ rule.max \in Nat
                                     /\ rule.window <= MaxWindow(l)
<1> DEFINE W == {rule.window : rule \in Rules[l]}
<1>1. Rules[l] # {} /\ IsFiniteSet(Rules[l]) /\ Rules[l] \subseteq [max : Nat, window : Nat \ {0}]
  BY LimiterAssumption
<1>2. W \subseteq Nat \ {0} /\ W # {}
  BY <1>1
<1>3. IsFiniteSet(W)
  <2> DEFINE f == [rule \in Rules[l] |-> rule.window]
  <2>1. f \in Surjection(Rules[l], W)
    BY DEF Surjection
  <2> QED
    BY <1>1, <2>1, FS_Surjection
<1>4. Max(W) \in W /\ \A w \in W : Max(W) >= w
  <2> HIDE DEF W
  <2>1. W \in SUBSET Nat
    BY <1>2
  <2> QED
    BY <1>2, <1>3, <2>1, MaxOfFinite
<1>5. \A rule \in Rules[l] : rule.window \in W /\ rule.window \in Nat \ {0} /\ rule.max \in Nat
  BY <1>1
<1>6. MaxWindow(l) = Max(W)
  BY DEF MaxWindow
<1> HIDE DEF W
<1>7. Max(W) \in Nat \ {0}
  BY <1>2, <1>4
<1>8. \A rule \in Rules[l] : Max(W) >= rule.window
  BY <1>4, <1>5
<1> QED
  BY <1>5, <1>6, <1>7, <1>8

\* What is newer than one moment, of what is newer than an earlier one.
LEMMA AfterAfter ==
    ASSUME NEW some \in SUBSET Hit, NEW a \in Int, NEW b \in Int, a <= b
    PROVE  After(After(some, a), b) = After(some, b)
<1>1. \A hit \in some : hit.at \in Int
  BY DEF Hit
<1> QED
  BY <1>1 DEF After

\* No hit is kept to begin with.
LEMMA LimiterStarts ==
    ASSUME LimiterInit
    PROVE  LimiterIInv
<1>1. LimiterTypeOK
  BY LimiterAssumption DEF LimiterInit, LimiterTypeOK
<1>2. GrantsAreNumbered
  BY FS_EmptySet DEF LimiterInit, GrantsAreNumbered
<1>3. WindowsHold
  <2> SUFFICES ASSUME NEW l \in Limiters, NEW ip \in Addresses
               PROVE  /\ \A rule \in Rules[l], t \in 0..now :
                           Cardinality({hit \in granted[l][ip] :
                              t - rule.window < hit.at /\ hit.at <= t}) <= rule.max
                      /\ After(hits[l][ip], now - MaxWindow(l))
                           = After(granted[l][ip], now - MaxWindow(l))
    BY DEF WindowsHold
  <2>1. hits[l][ip] = {} /\ granted[l][ip] = {}
    BY DEF LimiterInit
  <2>2. \A rule \in Rules[l], t \in 0..now :
          {hit \in granted[l][ip] : t - rule.window < hit.at /\ hit.at <= t} = {}
    BY <2>1
  <2>3. \A rule \in Rules[l] : 0 <= rule.max
    BY LongestWindow
  <2> QED
    BY <2>1, <2>2, <2>3, FS_EmptySet
<1> QED
  BY <1>1, <1>2, <1>3 DEF LimiterIInv

\* A request that is let through is new, and what it adds to a window is one.
LEMMA GrantGrows ==
    ASSUME NEW some, IsFiniteSet(some), NEW moment,
           \A hit \in some : hit.no < Cardinality(some)
    PROVE  LET new == [at |-> moment, no |-> Cardinality(some)]
           IN /\ new \notin some
              /\ IsFiniteSet(some \union {new})
              /\ Cardinality(some) \in Nat
              /\ Cardinality(some \union {new}) = Cardinality(some) + 1
<1> DEFINE new == [at |-> moment, no |-> Cardinality(some)]
<1>1. Cardinality(some) \in Nat
  BY FS_CardinalityType
<1>2. new \notin some
  <2>1. ~(Cardinality(some) < Cardinality(some))
    BY <1>1
  <2>2. new.no = Cardinality(some)
    OBVIOUS
  <2> QED
    BY <2>1, <2>2
<1> HIDE DEF new
<1>3. IsFiniteSet(some \union {new}) /\ Cardinality(some \union {new}) = Cardinality(some) + 1
  BY <1>2, FS_AddElement
<1> QED
  BY <1>1, <1>2, <1>3 DEF new

\* allow lets a request through.
LEMMA GrantKeeps ==
    ASSUME LimiterIInv, NEW l \in Limiters, NEW ip \in Addresses,
           WithinRules(l, Recent(l, ip)), Allow(l, ip), now' = now
    PROVE  LimiterIInv'
<1> DEFINE recent == Recent(l, ip)
           hit == [at |-> now, no |-> Cardinality(granted[l][ip])]
           MW(k) == MaxWindow(k)
<1>1. /\ hits' = [hits EXCEPT ![l] = Collected(l, [@ EXCEPT ![ip] = recent \union {hit}])]
      /\ lastGc' = [lastGc EXCEPT ![l] = IF now - @ < GcEvery THEN @ ELSE now]
      /\ granted' = [granted EXCEPT ![l][ip] = @ \union {hit}]
  BY DEF Allow
<1>2. LimiterTypeOK /\ GrantsAreNumbered /\ WindowsHold
  BY DEF LimiterIInv
<1>3. /\ now \in 0..MaxNow /\ now \in Nat
      /\ \A k \in Limiters, a \in Addresses : hits[k][a] \in SUBSET Hit /\ granted[k][a] \in SUBSET Hit
  BY <1>2, LimiterAssumption DEF LimiterTypeOK
<1>4. /\ IsFiniteSet(granted[l][ip])
      /\ \A g \in granted[l][ip] : g.at <= now /\ g.no < Cardinality(granted[l][ip])
  BY <1>2 DEF GrantsAreNumbered
<1>5. /\ hit \notin granted[l][ip] /\ IsFiniteSet(granted[l][ip] \union {hit})
      /\ Cardinality(granted[l][ip]) \in Nat
      /\ Cardinality(granted[l][ip] \union {hit}) = Cardinality(granted[l][ip]) + 1
  BY <1>4, GrantGrows
<1>6. hit \in Hit /\ hit.at = now
  BY <1>3, <1>5 DEF Hit
<1>7. recent \in SUBSET Hit
  BY <1>3 DEF Recent, After
<1> HIDE DEF hit, recent
<1>8. /\ granted'[l][ip] = granted[l][ip] \union {hit}
      /\ \A k \in Limiters, a \in Addresses : k # l \/ a # ip => granted'[k][a] = granted[k][a]
  BY <1>1, <1>2 DEF LimiterTypeOK
<1>9. /\ \A k \in Limiters, a \in Addresses : k # l => hits'[k][a] = hits[k][a]
      /\ \/ /\ hits'[l][ip] = recent \union {hit}
            /\ \A a \in Addresses : a # ip => hits'[l][a] = hits[l][a]
         \/ /\ hits'[l][ip] = After(recent \union {hit}, now - MW(l))
            /\ \A a \in Addresses : a # ip => hits'[l][a] = After(hits[l][a], now - MW(l))
  <2>1. hits \in [Limiters -> [Addresses -> SUBSET Hit]]
    BY <1>2 DEF LimiterTypeOK
  <2> QED
    BY <1>1, <2>1 DEF Collected
<1>10. hits' \in [Limiters -> [Addresses -> SUBSET Hit]]
  <2>1. hits \in [Limiters -> [Addresses -> SUBSET Hit]]
    BY <1>2 DEF LimiterTypeOK
  <2>2. [hits[l] EXCEPT ![ip] = recent \union {hit}] \in [Addresses -> SUBSET Hit]
    BY <1>6, <1>7, <2>1
  <2>3. Collected(l, [hits[l] EXCEPT ![ip] = recent \union {hit}]) \in [Addresses -> SUBSET Hit]
    BY <2>2 DEF Collected, After
  <2> QED
    BY <1>1, <2>1, <2>3
<1>11. LimiterTypeOK'
  <2>1. granted' \in [Limiters -> [Addresses -> SUBSET Hit]]
    BY <1>1, <1>2, <1>6 DEF LimiterTypeOK
  <2>2. lastGc' \in [Limiters -> 0..MaxNow]
    BY <1>1, <1>2, <1>3 DEF LimiterTypeOK
  <2> QED
    BY <1>3, <1>10, <2>1, <2>2 DEF LimiterTypeOK
<1>12. GrantsAreNumbered'
  <2> SUFFICES ASSUME NEW k \in Limiters, NEW a \in Addresses
               PROVE  /\ IsFiniteSet(granted'[k][a])
                      /\ \A g \in granted'[k][a] :
                           g.at <= now' /\ g.no < Cardinality(granted'[k][a])
    BY DEF GrantsAreNumbered
  <2>1. CASE k = l /\ a = ip
    <3>1. hit.at <= now /\ hit.no = Cardinality(granted[l][ip])
      BY <1>3 DEF hit
    <3>2. \A g \in granted[l][ip] : g \in Hit /\ g.no \in Nat
      BY <1>3 DEF Hit
    <3>3. granted'[k][a] = granted[l][ip] \union {hit}
      BY <1>8, <2>1
    <3>4. \A g \in granted'[k][a] : g.at <= now /\ g.no < Cardinality(granted[l][ip]) + 1
      <4> HIDE DEF GrantsAreNumbered
      <4>1. \A g \in granted[l][ip] : g.at <= now /\ g.no < Cardinality(granted[l][ip]) + 1
        BY <1>4, <1>5, <3>2
      <4>2. hit.at <= now /\ hit.no < Cardinality(granted[l][ip]) + 1
        BY <1>3, <1>5, <3>1
      <4> QED
        BY <3>3, <4>1, <4>2
    <3> QED
      BY <1>5, <3>3, <3>4
  <2>2. CASE ~(k = l /\ a = ip)
    BY <1>2, <1>8, <2>2 DEF GrantsAreNumbered
  <2> QED
    BY <2>1, <2>2
<1>13. WindowsHold'
  <2> SUFFICES ASSUME NEW k \in Limiters, NEW a \in Addresses
               PROVE  /\ \A rule \in Rules[k], t \in 0..now :
                           Cardinality({g \in granted'[k][a] :
                              t - rule.window < g.at /\ g.at <= t}) <= rule.max
                      /\ After(hits'[k][a], now - MW(k)) = After(granted'[k][a], now - MW(k))
    BY DEF WindowsHold, MaxWindow
  <2>0. /\ MW(k) \in Nat \ {0}
        /\ \A rule \in Rules[k] : rule.window \in Nat \ {0} /\ rule.max \in Nat /\ rule.window <= MW(k)
    BY LongestWindow
  <2> HIDE DEF MW
  <2>1. After(hits[k][a], now - MW(k)) = After(granted[k][a], now - MW(k))
    BY <1>2 DEF WindowsHold, MW
  <2>2. \A rule \in Rules[k], t \in 0..now :
          Cardinality({g \in granted[k][a] : t - rule.window < g.at /\ g.at <= t}) <= rule.max
    BY <1>2 DEF WindowsHold
  <2>3. After(hits'[k][a], now - MW(k)) = After(granted'[k][a], now - MW(k))
    <3>0. now - MW(k) \in Int /\ now > now - MW(k)
      BY <1>3, <2>0
    <3>1. CASE k # l
      BY <1>8, <1>9, <2>1, <3>1
    <3>2. CASE k = l /\ a # ip
      <4>1. After(After(hits[k][a], now - MW(k)), now - MW(k)) = After(hits[k][a], now - MW(k))
        BY DEF After
      <4> QED
        BY <1>8, <1>9, <2>1, <3>2, <4>1
    <3>3. CASE k = l /\ a = ip
      <4>1. recent = After(granted[l][ip], now - MW(l))
        BY <2>1, <3>3 DEF recent, Recent, MW
      <4>2. After(recent \union {hit}, now - MW(l)) = recent \union {hit}
        BY <1>6, <3>0, <3>3, <4>1 DEF After
      <4>3. After(granted[l][ip] \union {hit}, now - MW(l)) = recent \union {hit}
        BY <1>6, <3>0, <3>3, <4>1 DEF After
      <4> QED
        BY <1>8, <1>9, <3>3, <4>2, <4>3
    <3> QED
      BY <3>1, <3>2, <3>3
  <2>4. ASSUME NEW rule \in Rules[k], NEW t \in 0..now
        PROVE  Cardinality({g \in granted'[k][a] : t - rule.window < g.at /\ g.at <= t}) <= rule.max
    <3>1. CASE ~(k = l /\ a = ip)
      BY <1>8, <2>2, <3>1
    <3>2. CASE k = l /\ a = ip /\ t # now
      <4>1. ~(hit.at <= t)
        BY <1>3, <1>6, <3>2
      <4>2. {g \in granted'[k][a] : t - rule.window < g.at /\ g.at <= t}
              = {g \in granted[k][a] : t - rule.window < g.at /\ g.at <= t}
        BY <1>8, <3>2, <4>1
      <4> QED
        BY <2>2, <4>2
    <3>3. CASE k = l /\ a = ip /\ t = now
      <4> DEFINE S == After(recent, now - rule.window)
      <4>0. now - MW(l) \in Int /\ now - rule.window \in Int /\ now - MW(l) <= now - rule.window
        BY <1>3, <2>0, <3>3
      <4>1. recent = After(granted[l][ip], now - MW(l))
        BY <2>1, <3>3 DEF recent, Recent, MW
      <4>2. S = After(granted[l][ip], now - rule.window)
        <5>1. granted[l][ip] \in SUBSET Hit
          BY <1>3
        <5> QED
          BY <4>0, <4>1, <5>1, AfterAfter
      <4>3. {g \in granted'[k][a] : t - rule.window < g.at /\ g.at <= t} \subseteq S \union {hit}
        <5>1. \A g \in Hit : g.at \in Int
          BY DEF Hit
        <5>2. granted'[k][a] = granted[l][ip] \union {hit} /\ granted[l][ip] \subseteq Hit
          BY <1>3, <1>8, <3>3
        <5> QED
          BY <3>3, <4>0, <4>2, <5>1, <5>2 DEF After
      <4>4. Cardinality(S) < rule.max
        BY <3>3 DEF WithinRules, recent
      <4>5. IsFiniteSet(S)
        <5>1. S \subseteq granted[l][ip]
          BY <4>2 DEF After
        <5> QED
          BY <1>4, <5>1, FS_Subset
      <4> HIDE DEF S
      <4>6. IsFiniteSet(S \union {hit}) /\ Cardinality(S \union {hit}) <= Cardinality(S) + 1
            /\ Cardinality(S) \in Nat
        <5>1. Cardinality(S) \in Nat
          BY <4>5, FS_CardinalityType
        <5> QED
          BY <4>5, <5>1, FS_AddElement
      <4>7. /\ Cardinality({g \in granted'[k][a] : t - rule.window < g.at /\ g.at <= t})
                 <= Cardinality(S \union {hit})
            /\ Cardinality(S \union {hit}) \in Nat
            /\ Cardinality({g \in granted'[k][a] : t - rule.window < g.at /\ g.at <= t}) \in Nat
        BY <4>3, <4>6, FS_Subset, FS_CardinalityType
      <4> QED
        BY <2>0, <4>4, <4>6, <4>7
    <3> QED
      BY <3>1, <3>2, <3>3
  <2> QED
    BY <2>3, <2>4
<1> QED
  BY <1>11, <1>12, <1>13 DEF LimiterIInv

\* It refuses one: the old hits of the address are dropped.
LEMMA RefusalKeeps ==
    ASSUME LimiterIInv, NEW l \in Limiters, NEW ip \in Addresses,
           ~WithinRules(l, Recent(l, ip)), Allow(l, ip), now' = now
    PROVE  LimiterIInv'
<1>1. /\ hits' = [hits EXCEPT ![l][ip] = Recent(l, ip)]
      /\ lastGc' = lastGc /\ granted' = granted /\ now' = now
  BY DEF Allow
<1>2. LimiterTypeOK /\ GrantsAreNumbered /\ WindowsHold
  BY DEF LimiterIInv
<1>3. Recent(l, ip) \in SUBSET Hit
  BY <1>2 DEF LimiterTypeOK, Recent, After
<1>4. LimiterTypeOK'
  BY <1>1, <1>2, <1>3 DEF LimiterTypeOK
<1>5. GrantsAreNumbered'
  BY <1>1, <1>2 DEF GrantsAreNumbered
<1>6. ASSUME NEW k \in Limiters, NEW a \in Addresses
      PROVE  After(hits'[k][a], now - MaxWindow(k)) = After(hits[k][a], now - MaxWindow(k))
  <2>1. hits'[k][a] = IF k = l /\ a = ip THEN Recent(l, ip) ELSE hits[k][a]
    BY <1>1, <1>2 DEF LimiterTypeOK
  <2>2. After(Recent(l, ip), now - MaxWindow(l)) = Recent(l, ip)
    BY DEF Recent, After
  <2> QED
    BY <2>1, <2>2 DEF Recent
<1>7. WindowsHold'
  <2> SUFFICES ASSUME NEW k \in Limiters, NEW a \in Addresses
               PROVE  /\ \A rule \in Rules[k], t \in 0..now :
                           Cardinality({g \in granted[k][a] :
                              t - rule.window < g.at /\ g.at <= t}) <= rule.max
                      /\ After(hits'[k][a], now - MaxWindow(k))
                           = After(granted[k][a], now - MaxWindow(k))
    BY <1>1 DEF WindowsHold, MaxWindow
  <2>1. After(hits'[k][a], now - MaxWindow(k)) = After(hits[k][a], now - MaxWindow(k))
    BY <1>6
  <2> QED
    BY <1>2, <2>1 DEF WindowsHold
<1> QED
  BY <1>4, <1>5, <1>7 DEF LimiterIInv

\* The clock ticks: the windows move on, and what they hold only shrinks.
LEMMA TickKeeps ==
    ASSUME LimiterIInv, Tick
    PROVE  LimiterIInv'
<1>1. now < MaxNow /\ now' = now + 1 /\ hits' = hits /\ lastGc' = lastGc /\ granted' = granted
  BY DEF Tick
<1>2. LimiterTypeOK /\ GrantsAreNumbered /\ WindowsHold
  BY DEF LimiterIInv
<1>3. now \in Nat /\ MaxNow \in Nat
  BY <1>2, LimiterAssumption DEF LimiterTypeOK
<1>4. LimiterTypeOK'
  BY <1>1, <1>2, <1>3 DEF LimiterTypeOK
<1>5. \A k \in Limiters, a \in Addresses : granted[k][a] \subseteq Hit /\ hits[k][a] \subseteq Hit
  BY <1>2 DEF LimiterTypeOK
<1>6. \A g \in Hit : g.at \in Nat
  BY DEF Hit
<1>7. GrantsAreNumbered'
  <2> SUFFICES ASSUME NEW k \in Limiters, NEW a \in Addresses
               PROVE  /\ IsFiniteSet(granted[k][a])
                      /\ \A g \in granted[k][a] :
                           g.at <= now + 1 /\ g.no < Cardinality(granted[k][a])
    BY <1>1 DEF GrantsAreNumbered
  <2>1. /\ IsFiniteSet(granted[k][a])
        /\ \A g \in granted[k][a] : g.at <= now /\ g.no < Cardinality(granted[k][a])
    BY <1>2 DEF GrantsAreNumbered
  <2>2. \A g \in granted[k][a] : g.at \in Nat
    BY <1>5, <1>6
  <2> QED
    BY <1>3, <2>1, <2>2
<1>8. WindowsHold'
  <2> SUFFICES ASSUME NEW k \in Limiters, NEW a \in Addresses
               PROVE  /\ \A rule \in Rules[k], t \in 0..now' :
                           Cardinality({g \in granted'[k][a] :
                              t - rule.window < g.at /\ g.at <= t}) <= rule.max
                      /\ After(hits'[k][a], now' - MaxWindow(k))
                           = After(granted'[k][a], now' - MaxWindow(k))
    BY DEF WindowsHold, MaxWindow
  <2>0. /\ MaxWindow(k) \in Nat \ {0}
        /\ \A rule \in Rules[k] : rule.window \in Nat \ {0} /\ rule.max \in Nat
    BY LongestWindow
  <2>1. After(hits[k][a], now - MaxWindow(k)) = After(granted[k][a], now - MaxWindow(k))
    BY <1>2 DEF WindowsHold
  <2>2. \A rule \in Rules[k], t \in 0..now :
          Cardinality({g \in granted[k][a] : t - rule.window < g.at /\ g.at <= t}) <= rule.max
    BY <1>2 DEF WindowsHold
  <2>3. After(hits[k][a], now + 1 - MaxWindow(k)) = After(granted[k][a], now + 1 - MaxWindow(k))
    <3>1. /\ now - MaxWindow(k) \in Int /\ now + 1 - MaxWindow(k) \in Int
          /\ now - MaxWindow(k) <= now + 1 - MaxWindow(k)
      BY <1>3, <2>0
    <3>2. hits[k][a] \in SUBSET Hit /\ granted[k][a] \in SUBSET Hit
      BY <1>5
    <3>3. /\ After(After(hits[k][a], now - MaxWindow(k)), now + 1 - MaxWindow(k))
               = After(hits[k][a], now + 1 - MaxWindow(k))
          /\ After(After(granted[k][a], now - MaxWindow(k)), now + 1 - MaxWindow(k))
               = After(granted[k][a], now + 1 - MaxWindow(k))
      BY <3>1, <3>2, AfterAfter
    <3> QED
      BY <2>1, <3>3
  <2>4. ASSUME NEW rule \in Rules[k], NEW t \in 0..(now + 1)
        PROVE  Cardinality({g \in granted[k][a] : t - rule.window < g.at /\ g.at <= t}) <= rule.max
    <3>1. CASE t \in 0..now
      BY <2>2, <3>1
    <3>2. CASE t = now + 1
      <4> DEFINE S == {g \in granted[k][a] : now - rule.window < g.at /\ g.at <= now}
                 T == {g \in granted[k][a] : t - rule.window < g.at /\ g.at <= t}
      <4>1. T \subseteq S
        <5>1. \A g \in granted[k][a] : g.at \in Nat /\ g.at <= now
          BY <1>2, <1>5, <1>6 DEF GrantsAreNumbered
        <5>2. rule.window \in Nat
          BY <2>0
        <5> QED
          BY <1>3, <3>2, <5>1, <5>2
      <4>2. IsFiniteSet(S)
        BY <1>2, FS_Subset DEF GrantsAreNumbered
      <4>3. Cardinality(S) <= rule.max
        <5>1. now \in 0..now
          BY <1>3
        <5> QED
          BY <2>2, <5>1
      <4> HIDE DEF S, T
      <4>4. Cardinality(T) <= Cardinality(S) /\ Cardinality(T) \in Nat /\ Cardinality(S) \in Nat
        BY <4>1, <4>2, FS_Subset, FS_CardinalityType
      <4>5. Cardinality(T) <= rule.max
        BY <2>0, <4>3, <4>4
      <4> QED
        BY <4>5 DEF T
    <3> QED
      BY <1>3, <3>1, <3>2
  <2>5. After(hits'[k][a], now' - MaxWindow(k)) = After(granted'[k][a], now' - MaxWindow(k))
    <3>1. now' - MaxWindow(k) = now + 1 - MaxWindow(k)
      BY <1>1, <1>3, <2>0
    <3>2. hits'[k][a] = hits[k][a] /\ granted'[k][a] = granted[k][a]
      BY <1>1
    <3> QED
      BY <2>3, <3>1, <3>2, Zenon
  <2>6. ASSUME NEW rule \in Rules[k], NEW t \in 0..now'
        PROVE  Cardinality({g \in granted'[k][a] : t - rule.window < g.at /\ g.at <= t}) <= rule.max
    <3>1. t \in 0..(now + 1) /\ granted'[k][a] = granted[k][a]
      BY <1>1
    <3> QED
      BY <2>4, <3>1
  <2> QED
    BY <2>5, <2>6
<1> QED
  BY <1>4, <1>7, <1>8 DEF LimiterIInv

\* Nothing happens.
LEMMA LimiterStutters ==
    ASSUME LimiterIInv, UNCHANGED limiterVars
    PROVE  LimiterIInv'
<1>1. now' = now /\ hits' = hits /\ lastGc' = lastGc /\ granted' = granted
  BY DEF limiterVars
<1>2. LimiterTypeOK /\ GrantsAreNumbered /\ WindowsHold
  BY DEF LimiterIInv
<1>3. LimiterTypeOK'
  BY <1>1, <1>2 DEF LimiterTypeOK
<1>4. GrantsAreNumbered'
  BY <1>1, <1>2 DEF GrantsAreNumbered
<1>5. WindowsHold'
  BY <1>1, <1>2 DEF WindowsHold, MaxWindow
<1> QED
  BY <1>3, <1>4, <1>5 DEF LimiterIInv

\* Every step of a limiter keeps the invariant.
LEMMA LimiterSteps ==
    ASSUME LimiterIInv, [LimiterNext]_limiterVars
    PROVE  LimiterIInv'
<1>1. ASSUME NEW ip \in Addresses, NEW path \in Paths, NEW trusted \in BOOLEAN,
             HandleRequest(ip, path, trusted)
      PROVE  LimiterIInv'
  <2>1. CASE Exempt(path, trusted)
    <3>1. UNCHANGED limiterVars
      BY <1>1, <2>1 DEF HandleRequest, limiterVars
    <3> QED
      BY <3>1, LimiterStutters
  <2>2. CASE ~Exempt(path, trusted)
    <3>1. Allow(LimiterOf[path], ip) /\ now' = now /\ LimiterOf[path] \in Limiters
      BY <1>1, <2>2 DEF HandleRequest, Limiters
    <3> QED
      BY <3>1, GrantKeeps, RefusalKeeps
  <2> QED
    BY <2>1, <2>2
<1> QED
  BY <1>1, TickKeeps, LimiterStutters DEF LimiterNext

\* The inductive invariant of a limiter: the hits of an address are those of the requests
\* that were let through and are not older than the longest window, and no window holds
\* more of them than its rule allows (RateLimiter).
THEOREM LimiterInvariance == LimiterSpec => []LimiterIInv
<1>1. LimiterInit => LimiterIInv
  BY LimiterStarts
<1>2. LimiterIInv /\ [LimiterNext]_limiterVars => LimiterIInv'
  BY LimiterSteps
<1> QED
  BY <1>1, <1>2, PTL DEF LimiterSpec

\* However the requests come, no address is let through more often in any window than a
\* rule of its limiter allows: what gc drops was too old to count.
THEOREM NoWindowOverflows == LimiterSpec => []WindowsHold
<1>1. LimiterIInv => WindowsHold
  BY DEF LimiterIInv
<1> QED
  BY <1>1, LimiterInvariance, PTL

(***************************************************************************)
(* ScreeningScores: how a call and a form rate the same answers.           *)
(***************************************************************************)

\* The questions of a list by their type.
LEMMA QuestionTypes ==
    ASSUME NEW question \in Questions
    PROVE  /\ question.type \in {"yesno", "choice", "text"}
           /\ question.type = "choice" => Allowed(question) = Options
           /\ question.type = "yesno" => Allowed(question) = {"Yes", "No"}
           /\ question.type # "text" => Unclear \notin Allowed(question)
<1>1. question \in Question
  BY ScoreAssumption
<1>2. question.type \in {"yesno", "choice", "text"}
  BY <1>1 DEF Question
<1>3. Unclear \notin Options /\ Unclear \notin {"Yes", "No"}
  BY ScoreAssumption DEF Unclear
<1> QED
  BY <1>2, <1>3 DEF Allowed

\* A call passes an answer that is on the list just when a form does, and no other.
LEMMA CallAndFormAgree ==
    ASSUME NEW question \in Questions, NEW answer
    PROVE  /\ Answered(question, answer) =>
                (CallPassed(question, answer) <=> Passed(question, answer))
           /\ ~Answered(question, answer) =>
                ~CallPassed(question, answer) /\ Validated(question, answer) = Unclear
<1>1. CASE question.type = "text"
  BY <1>1 DEF Answered, CallPassed, Passed
<1>2. CASE question.type # "text" /\ answer \in Allowed(question)
  BY <1>2, QuestionTypes DEF Answered, CallPassed, Validated
<1>3. CASE question.type # "text" /\ answer \notin Allowed(question)
  BY <1>3 DEF Answered, CallPassed, Validated
<1> QED
  BY <1>1, <1>2, <1>3

\* Passing more questions never lowers a rating.
LEMMA FitGrows ==
    ASSUME NEW questions \in Seq(Questions), NEW few \in SUBSET DOMAIN questions,
           NEW many \in SUBSET DOMAIN questions, few \subseteq many
    PROVE  Rank[Fit(questions, few)] <= Rank[Fit(questions, many)]
<1> DEFINE of(importance) == {i \in DOMAIN questions : questions[i].importance = importance}
           good == of("Good to Have")
<1>1. IsFiniteSet(DOMAIN questions)
  <2>1. DOMAIN questions = 1..Len(questions) /\ Len(questions) \in Nat
    OBVIOUS
  <2> QED
    BY <2>1, FS_Interval
<1>2. IsFiniteSet(good) /\ IsFiniteSet(good \intersect few) /\ IsFiniteSet(good \intersect many)
  BY <1>1, FS_Subset
<1>3. good \intersect few \subseteq good \intersect many
  OBVIOUS
<1>4. Fit(questions, few) = IF \E i \in of("Must Have") : i \notin few THEN "Unfit"
        ELSE IF 10 * Cardinality(good \intersect few) >= 6 * Cardinality(good) THEN "Fit"
        ELSE "Borderline"
  BY DEF Fit
<1>5. Fit(questions, many) = IF \E i \in of("Must Have") : i \notin many THEN "Unfit"
        ELSE IF 10 * Cardinality(good \intersect many) >= 6 * Cardinality(good) THEN "Fit"
        ELSE "Borderline"
  BY DEF Fit
<1>6. (\E i \in of("Must Have") : i \notin many) => \E i \in of("Must Have") : i \notin few
  OBVIOUS
<1> HIDE DEF of, good
<1>7. /\ Cardinality(good) \in Nat /\ Cardinality(good \intersect few) \in Nat
      /\ Cardinality(good \intersect many) \in Nat
      /\ Cardinality(good \intersect few) <= Cardinality(good \intersect many)
  BY <1>2, <1>3, FS_CardinalityType, FS_Subset
<1>8. 10 * Cardinality(good \intersect few) >= 6 * Cardinality(good)
        => 10 * Cardinality(good \intersect many) >= 6 * Cardinality(good)
  BY <1>7
<1>9. Rank["Unfit"] = 0 /\ Rank["Borderline"] = 1 /\ Rank["Fit"] = 2
  BY DEF Rank
<1>10. Fit(questions, few) \in {"Unfit", "Borderline", "Fit"}
       /\ Fit(questions, many) \in {"Unfit", "Borderline", "Fit"}
  BY <1>4, <1>5
<1>11. CASE Fit(questions, few) = "Unfit"
  BY <1>9, <1>10, <1>11
<1>12. CASE Fit(questions, few) = "Borderline"
  <2>1. Fit(questions, many) \in {"Borderline", "Fit"}
    BY <1>4, <1>5, <1>6, <1>12
  <2> QED
    BY <1>9, <1>12, <2>1
<1>13. CASE Fit(questions, few) = "Fit"
  <2>1. Fit(questions, many) = "Fit"
    BY <1>4, <1>5, <1>6, <1>8, <1>13
  <2> QED
    BY <1>9, <1>13, <2>1
<1> QED
  BY <1>10, <1>11, <1>12, <1>13

\* Sarvam's variables, read by position, are the answers that were said, as long as every
\* question is worded and none is past the tenth.
LEMMA SarvamReads ==
    ASSUME NEW questions \in Seq(Questions), Len(questions) <= MaxQuestions,
           \A i \in DOMAIN questions : questions[i].worded,
           NEW answers \in [DOMAIN questions -> Answers]
    PROVE  SarvamAnswers(questions, answers) = answers
<1>0. MaxQuestions \in Nat /\ Len(questions) \in Nat /\ DOMAIN questions = 1..Len(questions)
  BY ScoreAssumption
<1>1. Given(questions) = 1..Len(questions)
  BY <1>0 DEF Given
<1>2. \A i \in 1..Len(questions) : NumberOf(questions, i) = i
  <2> TAKE i \in 1..Len(questions)
  <2>1. {j \in Given(questions) : j <= i} = 1..i
    BY <1>0, <1>1
  <2>2. Cardinality(1..i) = i
    BY <1>0, FS_Interval
  <2> QED
    BY <2>1, <2>2 DEF NumberOf
<1>3. ASSUME NEW i \in DOMAIN questions
      PROVE  SarvamAnswers(questions, answers)[i] = answers[i]
  <2>1. i \in 1..MaxQuestions /\ i <= MaxQuestions
    BY <1>0
  <2>2. {k \in Given(questions) : NumberOf(questions, k) = i} = {i}
    BY <1>0, <1>1, <1>2
  <2>3. Variables(questions, answers)[i] = answers[i]
    <3>1. (CHOOSE k \in {i} : TRUE) = i
      OBVIOUS
    <3>2. Variables(questions, answers)[i] =
            LET meant == {k \in Given(questions) : NumberOf(questions, k) = i}
            IN IF meant = {} THEN Blank ELSE answers[CHOOSE k \in meant : TRUE]
      BY <2>1 DEF Variables
    <3> QED
      BY <2>2, <3>1, <3>2
  <2> QED
    BY <2>1, <2>3 DEF SarvamAnswers
<1>4. SarvamAnswers(questions, answers) = [i \in DOMAIN questions |-> SarvamAnswers(questions, answers)[i]]
  BY DEF SarvamAnswers
<1> QED
  BY <1>3, <1>4

\* What a call makes of the answers it heard.
LEMMA CallsRateAlike ==
    ASSUME NEW questions \in Seq(Questions),
           NEW answers \in [DOMAIN questions -> Answers]
    PROVE  LET clear == {i \in DOMAIN questions : Answered(questions[i], answers[i])} IN
           /\ clear = DOMAIN questions => CallFit(questions, answers) = FormFit(questions, answers)
           /\ clear # DOMAIN questions => NeedsReview(questions, answers)
           /\ \A better \in [DOMAIN questions \ clear -> Options \union {"Yes", "No"}] :
                Rank[CallFit(questions, answers)] <= Rank[FormFit(questions, With(answers, better))]
<1> DEFINE clear == {i \in DOMAIN questions : Answered(questions[i], answers[i])}
           heard == {i \in DOMAIN questions : CallPassed(questions[i], answers[i])}
<1>1. \A i \in DOMAIN questions : questions[i] \in Questions
  OBVIOUS
<1>2. ASSUME clear = DOMAIN questions
      PROVE  CallFit(questions, answers) = FormFit(questions, answers)
  <2>1. heard = {i \in DOMAIN questions : Passed(questions[i], answers[i])}
    BY <1>1, <1>2, CallAndFormAgree
  <2> QED
    BY <2>1 DEF CallFit, FormFit
<1>3. ASSUME clear # DOMAIN questions
      PROVE  NeedsReview(questions, answers)
  <2>1. PICK i \in DOMAIN questions : ~Answered(questions[i], answers[i])
    BY <1>3
  <2> QED
    BY <1>1, <2>1, CallAndFormAgree DEF NeedsReview
<1>4. ASSUME NEW better \in [DOMAIN questions \ clear -> Options \union {"Yes", "No"}]
      PROVE  Rank[CallFit(questions, answers)] <= Rank[FormFit(questions, With(answers, better))]
  <2> DEFINE form == {i \in DOMAIN questions : Passed(questions[i], With(answers, better)[i])}
  <2>1. \A i \in clear : With(answers, better)[i] = answers[i]
    BY DEF With
  <2>2. heard \subseteq form
    <3> SUFFICES ASSUME NEW i \in DOMAIN questions, CallPassed(questions[i], answers[i])
                 PROVE  Passed(questions[i], With(answers, better)[i])
      OBVIOUS
    <3>1. Answered(questions[i], answers[i])
      BY <1>1, CallAndFormAgree
    <3>2. With(answers, better)[i] = answers[i]
      BY <2>1, <3>1
    <3> QED
      BY <1>1, <3>1, <3>2, CallAndFormAgree
  <2>3. CallFit(questions, answers) = Fit(questions, heard)
        /\ FormFit(questions, With(answers, better)) = Fit(questions, form)
    BY DEF CallFit, FormFit
  <2> QED
    BY <2>2, <2>3, FitGrows
<1> QED
  BY <1>2, <1>3, <1>4

\* A fit is a rating.
LEMMA FitIsARating ==
    ASSUME NEW questions, NEW passed
    PROVE  Fit(questions, passed) \in Ratings
BY DEF Fit, Ratings

\* Nothing has been asked.
LEMMA ScoreStarts ==
    ASSUME ScoreInit
    PROVE  ScoreIInv
<1>1. PICK n \in 1..MaxAsked : asked \in [1..n -> Questions]
  BY DEF ScoreInit
<1>2. asked \in Seq(Questions) /\ Len(asked) <= MaxAsked
  BY <1>1, ScoreAssumption
<1>3. ScoreTypeOK
  BY <1>2 DEF ScoreInit, ScoreTypeOK
<1>4. CallsAreRatedLikeForms
  BY DEF ScoreInit, CallsAreRatedLikeForms, Unrated
<1> QED
  BY <1>3, <1>4 DEF ScoreIInv

\* Every step of a screening keeps the invariant.
LEMMA ScoreSteps ==
    ASSUME ScoreIInv, [ScoreNext]_scoreVars
    PROVE  ScoreIInv'
<1>1. ScoreTypeOK /\ CallsAreRatedLikeForms
  BY DEF ScoreIInv
<1>2. asked \in Seq(Questions) /\ said \in [DOMAIN asked -> Answers] /\ declined \in BOOLEAN
  BY <1>1 DEF ScoreTypeOK
<1>3. CASE RateForm
  <2>1. /\ result' = [by |-> "form", fit |-> FormFit(asked, said), review |-> FALSE]
        /\ asked' = asked /\ said' = said /\ declined' = declined
    BY <1>3 DEF RateForm
  <2>2. FormFit(asked, said) \in Ratings
    BY FitIsARating DEF FormFit
  <2>3. ScoreTypeOK'
    BY <1>1, <2>1, <2>2 DEF ScoreTypeOK
  <2>4. CallsAreRatedLikeForms'
    BY <2>1 DEF CallsAreRatedLikeForms
  <2> QED
    BY <2>3, <2>4 DEF ScoreIInv
<1>4. ASSUME NEW by \in {"Vapi", "Sarvam"}, RateCall(by)
      PROVE  ScoreIInv'
  <2> DEFINE answers == IF by = "Sarvam" THEN SarvamAnswers(asked, said) ELSE said
  <2>1. /\ result' = IF declined THEN [by |-> by, fit |-> "none", review |-> FALSE]
                     ELSE [by |-> by, fit |-> CallFit(asked, answers),
                           review |-> NeedsReview(asked, answers)]
        /\ asked' = asked /\ said' = said /\ declined' = declined
    BY <1>4 DEF RateCall
  <2>2. CallFit(asked, answers) \in Ratings /\ NeedsReview(asked, answers) \in BOOLEAN
    BY FitIsARating DEF CallFit, NeedsReview
  <2>3. ScoreTypeOK'
    <3> HIDE DEF answers
    <3>1. result' \in [by : {"form", "Vapi", "Sarvam"}, fit : Ratings \union {"none"}, review : BOOLEAN]
      BY <2>1, <2>2
    <3> QED
      BY <1>1, <2>1, <3>1 DEF ScoreTypeOK
  <2>4. CallsAreRatedLikeForms'
    <3> SUFFICES ASSUME by = "Vapi" \/ (by = "Sarvam" /\ Len(asked) <= MaxQuestions /\ AllWorded),
                        ~declined
                 PROVE  LET clear == {i \in DOMAIN asked : Answered(asked[i], said[i])} IN
                        /\ clear = DOMAIN asked => result'.fit = FormFit(asked, said)
                        /\ clear # DOMAIN asked => result'.review
                        /\ \A better \in [DOMAIN asked \ clear -> Options \union {"Yes", "No"}] :
                             Rank[result'.fit] <= Rank[FormFit(asked, With(said, better))]
      BY <2>1 DEF CallsAreRatedLikeForms, AllWorded
    <3>1. answers = said
      BY <1>2, SarvamReads DEF AllWorded
    <3>2. result'.fit = CallFit(asked, said) /\ result'.review = NeedsReview(asked, said)
      BY <2>1, <3>1
    <3> QED
      BY <1>2, <3>2, CallsRateAlike
  <2> QED
    BY <2>3, <2>4 DEF ScoreIInv
<1>5. CASE UNCHANGED scoreVars
  <2>1. ScoreTypeOK'
    BY <1>1, <1>5 DEF ScoreTypeOK, scoreVars
  <2>2. CallsAreRatedLikeForms'
    BY <1>1, <1>5 DEF CallsAreRatedLikeForms, AllWorded, scoreVars
  <2> QED
    BY <2>1, <2>2 DEF ScoreIInv
<1> QED
  BY <1>3, <1>4, <1>5 DEF ScoreNext

\* The inductive invariant of a screening: what was asked, said and made of it is well
\* typed, and the calls made of it are rated like forms (services/screening.py).
THEOREM ScoresInvariance == ScoreSpec => []ScoreIInv
<1>1. ScoreInit => ScoreIInv
  BY ScoreStarts
<1>2. ScoreIInv /\ [ScoreNext]_scoreVars => ScoreIInv'
  BY ScoreSteps
<1> QED
  BY <1>1, <1>2, PTL DEF ScoreSpec

\* Whatever is asked and answered, a call is rated as the form with the same answers would
\* be, from both providers, with the exceptions the property names.
THEOREM FormsAndCallsAgree == ScoreSpec => []CallsAreRatedLikeForms
<1>1. ScoreIInv => CallsAreRatedLikeForms
  BY DEF ScoreIInv
<1> QED
  BY <1>1, ScoresInvariance, PTL
=============================================================================
