---------------------------- MODULE Office_proofs ----------------------------
(***************************************************************************)
(* Proofs about the office side, for any employees, documents, addresses,  *)
(* events, threads and bounds: each of the components that MCStaff brings  *)
(* together keeps its inductive invariant, and its property follows.       *)
(***************************************************************************)
EXTENDS MCStaff, Accounts_proofs, WellFoundedInduction

(***************************************************************************)
(* EmployeeCodes: the numbers of employee codes.                           *)
(***************************************************************************)

LEMMA MaxOfSome ==
    ASSUME NEW b \in Nat, NEW S \in SUBSET (0..b), S # {}
    PROVE  Max(S) \in S /\ \A x \in S : Max(S) >= x
<1> DEFINE T == {b - x : x \in S}
<1>1. T \subseteq Nat /\ T # {}
  <2>1. \A x \in S : x \in 0..b /\ b - x \in Nat
    OBVIOUS
  <2> QED
    BY <2>1
<1>2. PICK y \in T : \A z \in T : ~(<<z, y>> \in OpToRel(<, Nat))
  BY <1>1, NatLessThanWellFounded, WFMin
<1>3. \A z \in T : ~(z < y)
  BY <1>1, <1>2 DEF OpToRel
<1>4. PICK x \in S : y = b - x
  BY <1>2
<1>5. ASSUME NEW z \in S
      PROVE  x >= z
  <2>1. x \in 0..b /\ z \in 0..b
    OBVIOUS
  <2>2. ~(b - z < b - x)
    BY <1>3, <1>4
  <2> QED
    BY <2>1, <2>2
<1> QED
  BY <1>4, <1>5 DEF Max

\* What a session may be doing, by its stage.
LEMMA SessionFields ==
    ASSUME CodesTypeOK, NEW s \in Sessions
    PROVE  /\ session[s] = NoWork <=> session[s].stage = "idle"
           /\ session[s].stage \in {"idle", "draw", "drawn", "booting"}
           /\ session[s].stage \in {"draw", "drawn"} => session[s].tries \in 0..MaxDraws
           /\ session[s].stage = "drawn" => session[s].number \in Numbers
           /\ session[s].stage = "booting" => session[s].seen \in Numbers /\ session[s].target \in Numbers
BY DEF CodesTypeOK, Working, NoWork

\* A step of one session that leaves the table and the sequence alone, and draws nothing.
LEMMA SessionStep ==
    ASSUME CodesIInv, NEW s \in Sessions, NEW state \in Working,
           session' = [session EXCEPT ![s] = state],
           state.stage = "draw" => state.tries < MaxDraws,
           state.stage = "booting" => state.target >= state.seen,
           state.stage # "drawn",
           UNCHANGED <<last, employees, given>>, exposed' = exposed
    PROVE  CodesIInv'
<1>1. session \in [Sessions -> Working]
  BY DEF CodesIInv, CodesTypeOK
<1>2. session' \in [Sessions -> Working] /\ session'[s] = state
      /\ \A t \in Sessions : t # s => session'[t] = session[t]
  BY <1>1
<1>3. CodesTypeOK'
  BY <1>2 DEF CodesIInv, CodesTypeOK, Numbers
<1>4. SessionsFollow'
  BY <1>2 DEF CodesIInv, SessionsFollow
<1>5. \A t \in Sessions, n \in Numbers : Drawn(t, n)' => Drawn(t, n)
  BY <1>2 DEF Drawn
<1>6. ASSUME NEW n \in Numbers \ exposed
      PROVE  NumberIsSingle(n)'
  <2>1. NumberIsSingle(n)
    BY DEF CodesIInv
  <2> QED
    BY <2>1, <1>5 DEF NumberIsSingle
<1> QED
  BY <1>3, <1>4, <1>6 DEF CodesIInv, Numbers

\* A number can be drawn by one session alone.
LEMMA Draws ==
    ASSUME CodesIInv, NEW s \in Sessions, Draw(s)
    PROVE  CodesIInv'
<1> DEFINE state == [stage |-> "drawn", tries |-> session[s].tries + 1, number |-> last + 1]
<1>1. /\ session \in [Sessions -> Working] /\ last \in Nat /\ last + 1 \in Numbers
      /\ session[s].stage = "draw" /\ session[s].tries \in 0..MaxDraws
      /\ session[s].tries < MaxDraws
  BY SessionFields, CodeBounds DEF CodesIInv, CodesTypeOK, SessionsFollow, Draw, Numbers
<1>2. state \in Working
  BY <1>1, CodeBounds DEF Working
<1>3. /\ session' \in [Sessions -> Working] /\ session'[s] = state
      /\ \A t \in Sessions : t # s => session'[t] = session[t]
      /\ last' = last + 1 /\ UNCHANGED <<employees, given, exposed>>
  BY <1>1, <1>2 DEF Draw
<1>4. CodesTypeOK'
  BY <1>1, <1>3 DEF CodesIInv, CodesTypeOK, Numbers
<1>5. SessionsFollow'
  BY <1>3 DEF CodesIInv, SessionsFollow
<1>6. \A t \in Sessions, n \in Numbers : Drawn(t, n)' <=> IF t = s THEN n = last + 1 ELSE Drawn(t, n)
  BY <1>1, <1>3 DEF Drawn
<1>7. ASSUME NEW n \in Numbers \ exposed
      PROVE  NumberIsSingle(n)'
  <2>1. NumberIsSingle(n) /\ n \in Nat
    BY DEF CodesIInv, Numbers
  <2>2. CASE n = last + 1
    <3>1. \A t \in Sessions : ~Drawn(t, n) \/ n \in Legacy
      BY <2>1, <2>2, <1>1 DEF NumberIsSingle
    <3>2. given[n] # 1 \/ n \in Legacy
      BY <2>1, <2>2, <1>1 DEF NumberIsSingle
    <3> QED
      BY <2>1, <2>2, <3>1, <3>2, <1>1, <1>3, <1>6 DEF NumberIsSingle
  <2>3. CASE n # last + 1
    BY <2>1, <2>3, <1>1, <1>3, <1>6 DEF NumberIsSingle
  <2> QED
    BY <2>2, <2>3
<1> QED
  BY <1>3, <1>4, <1>5, <1>7 DEF CodesIInv, Numbers

\* A number that is returned was not given before, and nobody else has drawn it.
LEMMA Returns ==
    ASSUME CodesIInv, NEW s \in Sessions, Return(s)
    PROVE  CodesIInv'
<1> DEFINE number == session[s].number
<1>1. /\ session \in [Sessions -> Working] /\ given \in [Numbers -> 0..2]
      /\ session[s].stage = "drawn" /\ number \in Numbers /\ number \notin employees
  BY SessionFields DEF CodesIInv, CodesTypeOK, Return
<1>2. NoWork \in Working /\ NoWork.stage = "idle"
  BY DEF Working, NoWork
<1>3. /\ session' \in [Sessions -> Working] /\ session'[s] = NoWork
      /\ \A t \in Sessions : t # s => session'[t] = session[t]
      /\ given' \in [Numbers -> 0..2]
      /\ \A n \in Numbers : n # number => given'[n] = given[n]
      /\ given'[number] <= given[number] + 1
      /\ UNCHANGED <<last, employees, exposed>>
  BY <1>1, <1>2 DEF Return
<1>4. CodesTypeOK'
  BY <1>3 DEF CodesIInv, CodesTypeOK, Numbers
<1>5. SessionsFollow'
  BY <1>2, <1>3 DEF CodesIInv, SessionsFollow
<1>6. \A t \in Sessions, n \in Numbers : Drawn(t, n)' <=> t # s /\ Drawn(t, n)
  BY <1>2, <1>3 DEF Drawn
<1>7. Drawn(s, number)
  BY <1>1 DEF Drawn
<1>8. ASSUME NEW n \in Numbers \ exposed
      PROVE  NumberIsSingle(n)'
  <2>1. NumberIsSingle(n) /\ given[n] \in 0..2
    BY <1>1 DEF CodesIInv
  <2>2. CASE n = number
    <3>1. n \notin Legacy
      BY <2>1, <2>2, <1>1 DEF NumberIsSingle
    <3>2. given[n] = 0 /\ n <= last /\ \A t \in Sessions : Drawn(t, n) => t = s
      BY <2>1, <2>2, <3>1, <1>7 DEF NumberIsSingle
    <3> QED
      BY <2>2, <3>1, <3>2, <1>3, <1>6 DEF NumberIsSingle
  <2>3. CASE n # number
    BY <2>1, <2>3, <1>3, <1>6 DEF NumberIsSingle
  <2> QED
    BY <2>2, <2>3
<1> QED
  BY <1>3, <1>4, <1>5, <1>8 DEF CodesIInv, Numbers

\* The sequence goes back over numbers that are exposed, or not at all.
LEMMA GoesBack ==
    ASSUME CodesIInv, NEW s \in Sessions, BootSet(s)
    PROVE  CodesIInv'
<1>1. /\ session \in [Sessions -> Working] /\ last \in Numbers
      /\ session[s].stage = "booting" /\ session[s].seen \in Numbers
      /\ session[s].target \in Numbers /\ session[s].target >= session[s].seen
  BY SessionFields DEF CodesIInv, CodesTypeOK, SessionsFollow, BootSet
<1>2. NoWork \in Working /\ NoWork.stage = "idle"
  BY DEF Working, NoWork
<1>3. /\ session' \in [Sessions -> Working] /\ session'[s] = NoWork
      /\ \A t \in Sessions : t # s => session'[t] = session[t]
      /\ last' = session[s].target /\ UNCHANGED <<employees, given>>
      /\ exposed' = exposed \union (session[s].seen + 1 .. last)
  BY <1>1, <1>2 DEF BootSet
<1>4. CodesTypeOK'
  <2>1. session[s].seen + 1 .. last \subseteq Numbers
    BY <1>1, CodeBounds DEF Numbers
  <2> QED
    BY <2>1, <1>1, <1>3 DEF CodesIInv, CodesTypeOK, Numbers
<1>5. SessionsFollow'
  BY <1>2, <1>3 DEF CodesIInv, SessionsFollow
<1>6. \A t \in Sessions, n \in Numbers : Drawn(t, n)' => Drawn(t, n)
  BY <1>2, <1>3 DEF Drawn
<1>7. ASSUME NEW n \in Numbers \ exposed'
      PROVE  NumberIsSingle(n)'
  <2>1. NumberIsSingle(n) /\ n \in Nat /\ n \notin session[s].seen + 1 .. last
    BY <1>3 DEF CodesIInv, Numbers
  <2>2. n <= last => n <= last'
    BY <2>1, <1>1, <1>3, CodeBounds DEF Numbers
  <2> QED
    BY <2>1, <2>2, <1>3, <1>6 DEF NumberIsSingle
<1> QED
  BY <1>4, <1>5, <1>7 DEF CodesIInv, Numbers

\* Every other step of a session keeps the sequence and the table.
LEMMA SessionsGoOn ==
    ASSUME CodesIInv, NEW s \in Sessions,
           Allocate(s) \/ TryAgain(s) \/ BootRead(s) \/ Drop(s)
    PROVE  CodesIInv'
<1>1. /\ last \in Numbers /\ employees \subseteq Numbers /\ MaxDraws \in Nat \ {0}
      /\ MaxNumber \in Nat /\ 0 \in Numbers
  BY CodeBounds DEF CodesIInv, CodesTypeOK, Numbers
<1>2. NoWork \in Working /\ NoWork.stage = "idle"
  BY DEF Working, NoWork
<1>3. CASE Allocate(s)
  <2> DEFINE state == [stage |-> "draw", tries |-> 0]
  <2>1. /\ state \in Working /\ state.stage = "draw" /\ state.tries < MaxDraws
        /\ session' = [session EXCEPT ![s] = state] /\ UNCHANGED <<last, employees, given, exposed>>
    BY <1>1, <1>3 DEF Working, Allocate
  <2> HIDE DEF state
  <2> QED
    BY <2>1, SessionStep
<1>4. CASE TryAgain(s)
  <2> DEFINE again == [stage |-> "draw", tries |-> session[s].tries]
             state == IF session[s].tries = MaxDraws THEN NoWork ELSE again
  <2>1. session[s].stage = "drawn" /\ session[s].tries \in 0..MaxDraws
    BY <1>4, SessionFields DEF TryAgain, CodesIInv
  <2>2. again \in Working
    BY <2>1 DEF Working
  <2>3. session' = [session EXCEPT ![s] = state] /\ UNCHANGED <<last, employees, given, exposed>>
    BY <1>4 DEF TryAgain
  <2>4. state \in Working /\ state.stage # "drawn" /\ state.stage # "booting"
        /\ (state.stage = "draw" => state.tries < MaxDraws)
    BY <1>1, <1>2, <2>1, <2>2
  <2> HIDE DEF state
  <2> QED
    BY <2>3, <2>4, SessionStep
<1>5. CASE BootRead(s)
  <2> DEFINE all == employees \union {last, 0}
             state == [stage |-> "booting", seen |-> last, target |-> Max(all)]
  <2>1. all \in SUBSET (0..MaxNumber) /\ all # {}
    BY <1>1 DEF Numbers
  <2>2. Max(all) \in all /\ Max(all) >= last
    <3> HIDE DEF all
    <3>1. last \in all
      BY DEF all
    <3> QED
      BY <1>1, <2>1, <3>1, MaxOfSome
  <2>3. Max(all) \in Numbers
    BY <2>1, <2>2 DEF Numbers
  <2>4. session' = [session EXCEPT ![s] = state] /\ UNCHANGED <<last, employees, given, exposed>>
    BY <1>5 DEF BootRead
  <2> HIDE DEF all
  <2>5. state \in Working /\ state.stage = "booting" /\ state.target >= state.seen
    BY <1>1, <2>2, <2>3 DEF Working
  <2> HIDE DEF state
  <2> QED
    BY <2>4, <2>5, SessionStep
<1>6. CASE Drop(s)
  BY <1>2, <1>6, SessionStep DEF Drop
<1> QED
  BY <1>3, <1>4, <1>5, <1>6

\* The table: only what was given is saved, and what goes of the old scheme is exposed.
LEMMA TableChanges ==
    ASSUME CodesIInv, NEW n \in Numbers, SaveEmployee(n) \/ DeleteEmployee(n)
    PROVE  CodesIInv'
<1>1. /\ UNCHANGED <<last, session, given>> /\ exposed' \subseteq exposed \union {n}
      /\ exposed \subseteq exposed' /\ employees' \subseteq employees \union {n}
      /\ \A m \in Numbers : m \in Legacy /\ m \notin exposed' /\ m \in employees => m \in employees'
  BY DEF SaveEmployee, DeleteEmployee
<1>2. CodesTypeOK'
  BY <1>1 DEF CodesIInv, CodesTypeOK, Numbers
<1>3. SessionsFollow'
  BY <1>1 DEF CodesIInv, SessionsFollow
<1>4. ASSUME NEW m \in Numbers \ exposed'
      PROVE  NumberIsSingle(m)'
  <2>1. NumberIsSingle(m)
    BY <1>1 DEF CodesIInv
  <2>2. \A t \in Sessions : Drawn(t, m)' <=> Drawn(t, m)
    BY <1>1 DEF Drawn
  <2> QED
    BY <1>1, <2>1, <2>2 DEF NumberIsSingle
<1> QED
  BY <1>2, <1>3, <1>4 DEF CodesIInv, Numbers

\* CodesIInv holds in every state: a number that is not exposed is drawn by one session alone,
\* given once and behind the sequence, or an employee's under the old scheme.
THEOREM CodesInvariance == CodesSpec => []CodesIInv
<1>1. CodesInit => CodesIInv
  <2> SUFFICES ASSUME CodesInit
               PROVE  CodesIInv
    OBVIOUS
  <2>1. 0 \in Numbers /\ Legacy \subseteq Numbers /\ NoWork \in Working /\ NoWork.stage = "idle"
    BY CodeBounds DEF Numbers, Working, NoWork
  <2>2. CodesTypeOK
    BY <2>1 DEF CodesInit, CodesTypeOK
  <2>3. SessionsFollow
    BY <2>1 DEF CodesInit, SessionsFollow
  <2>4. ASSUME NEW n \in Numbers
        PROVE  NumberIsSingle(n)
    <3>1. \A s \in Sessions : ~Drawn(s, n)
      BY <2>1 DEF CodesInit, Drawn
    <3> QED
      BY <3>1 DEF CodesInit, NumberIsSingle
  <2> QED
    BY <2>2, <2>3, <2>4 DEF CodesIInv
<1>2. CodesIInv /\ [CodesNext]_codeVars => CodesIInv'
  <2> SUFFICES ASSUME CodesIInv, [CodesNext]_codeVars
               PROVE  CodesIInv'
    OBVIOUS
  <2>1. ASSUME NEW s \in Sessions, Draw(s)
        PROVE  CodesIInv'
    BY <2>1, Draws
  <2>2. ASSUME NEW s \in Sessions, Return(s)
        PROVE  CodesIInv'
    BY <2>2, Returns
  <2>3. ASSUME NEW s \in Sessions, BootSet(s)
        PROVE  CodesIInv'
    BY <2>3, GoesBack
  <2>4. ASSUME NEW s \in Sessions, Allocate(s) \/ TryAgain(s) \/ BootRead(s) \/ Drop(s)
        PROVE  CodesIInv'
    BY <2>4, SessionsGoOn
  <2>5. ASSUME NEW n \in Numbers, SaveEmployee(n) \/ DeleteEmployee(n)
        PROVE  CodesIInv'
    BY <2>5, TableChanges
  <2>6. CASE UNCHANGED codeVars
    BY <2>6 DEF codeVars, CodesIInv, CodesTypeOK, SessionsFollow, NumberIsSingle, Drawn, Numbers
  <2> QED
    BY <2>1, <2>2, <2>3, <2>4, <2>5, <2>6 DEF CodesNext
<1> QED
  BY <1>1, <1>2, PTL DEF CodesSpec

\* CodesAreIssuedOnce: allocate_employee_code (services/employee_codes.py) gives a number to one
\* employee, except a number drawn while a boot was about to set the sequence, or one of the old
\* scheme whose row has been deleted.
THEOREM CodesOnce == CodesSpec => []CodesAreIssuedOnce
<1>1. CodesIInv => CodesAreIssuedOnce
  BY DEF CodesIInv, NumberIsSingle, CodesAreIssuedOnce
<1> QED
  BY <1>1, CodesInvariance, PTL

(***************************************************************************)
(* SeenSignatures: the replay cache of signed events.                      *)
(***************************************************************************)

\* What a request carries, by its stage.
LEMMA Deliverings ==
    /\ Waiting \in Delivering /\ Waiting.stage = "none"
    /\ \A e \in Events, stage \in {"checked", "applied"} :
         LET state == [stage |-> stage, event |-> e]
         IN  state \in Delivering /\ state # Waiting /\ state.stage = stage /\ state.event = e
    /\ \A state \in Delivering :
         /\ state = Waiting <=> state.stage = "none"
         /\ state # Waiting => state.stage \in {"checked", "applied"} /\ state.event \in Events
BY DEF Delivering, Waiting

\* The numbers the clock and the timestamps take.
LEMMA Clocks ==
    ASSUME SignatureTypeOK
    PROVE  /\ clock \in Nat /\ clock <= MaxClock /\ Tolerance \in Nat /\ MaxClock \in Nat
           /\ \A e \in Events : /\ stamp[e] \in Nat /\ acted[e] \in 0..2
                                /\ seen[e] \in Nat \union {NotSeen}
BY ClockAssumption DEF SignatureTypeOK, Times

\* Eviction forgets only what is no longer fresh.
LEMMA Evicts ==
    ASSUME SignatureTypeOK, NEW e \in Events
    PROVE  /\ Evicted[e] \in {seen[e], NotSeen}
           /\ seen[e] # NotSeen /\ Evicted[e] = NotSeen => seen[e] + Tolerance < clock
           /\ Evicted \in [Events -> Times \union {NotSeen}]
<1>1. Evicted[e] = IF seen[e] # NotSeen /\ seen[e] < clock - Tolerance THEN NotSeen ELSE seen[e]
  BY DEF Evicted
<1>2. seen[e] \in Nat \union {NotSeen} /\ clock \in Nat /\ Tolerance \in Nat
  BY Clocks
<1>3. Evicted \in [Events -> Times \union {NotSeen}]
  BY DEF Evicted, SignatureTypeOK
<1> QED
  BY <1>1, <1>2, <1>3 DEF NotSeen

\* An event whose count and requests stay as they are, while time passes and entries go.
LEMMA EventStays ==
    ASSUME SignatureTypeOK, NEW e \in Events, EventIsSingle(e),
           acted'[e] = acted[e], stamp' = stamp, clock' \in Nat, clock <= clock',
           \A d \in Deliveries :
             (delivery'[d] # Waiting /\ delivery'[d].event = e) <=>
                 (delivery[d] # Waiting /\ delivery[d].event = e),
           \A d \in Deliveries, stage \in {"checked", "applied"} :
             At(d, stage, e)' => At(d, stage, e),
           acted[e] = 1 => \/ seen'[e] = seen[e]
                           \/ seen'[e] = NotSeen /\ seen[e] + Tolerance < clock
    PROVE  EventIsSingle(e)'
<1>1. Carried(e)' <=> Carried(e)
  BY DEF Carried
<1>2. /\ clock \in Nat /\ Tolerance \in Nat /\ stamp[e] \in Nat /\ acted[e] \in 0..2
      /\ seen[e] \in Nat \union {NotSeen}
  BY Clocks
<1>3. acted'[e] <= 1 /\ (Carried(e)' \/ acted'[e] = 1 => stamp'[e] <= clock')
  BY <1>1, <1>2 DEF EventIsSingle
<1>4. \A d \in Deliveries :
         /\ At(d, "checked", e)' => acted'[e] = 0
         /\ At(d, "applied", e)' => acted'[e] = 1
         /\ \A c \in Deliveries :
              c # d /\ delivery'[c] # Waiting /\ delivery'[d] # Waiting =>
                  delivery'[c].event # e \/ delivery'[d].event # e
  BY DEF EventIsSingle
<1>5. ASSUME acted'[e] = 1, ~Carried(e)'
      PROVE  \/ seen'[e] # NotSeen /\ stamp'[e] <= seen'[e]
             \/ stamp'[e] + Tolerance < clock'
  <2>1. \/ seen[e] # NotSeen /\ stamp[e] <= seen[e]
        \/ stamp[e] + Tolerance < clock
    BY <1>1, <1>5 DEF EventIsSingle
  <2> QED
    BY <2>1, <1>2, <1>5 DEF NotSeen
<1> QED
  BY <1>3, <1>4, <1>5 DEF EventIsSingle

\* One request takes up, or puts down, something.
LEMMA OneDelivery ==
    ASSUME SignatureTypeOK, NEW d \in Deliveries, NEW state \in Delivering,
           delivery' = [delivery EXCEPT ![d] = state]
    PROVE  /\ delivery' \in [Deliveries -> Delivering] /\ delivery'[d] = state
           /\ \A c \in Deliveries : c # d => delivery'[c] = delivery[c]
BY DEF SignatureTypeOK

LEMMA Receives ==
    ASSUME SignatureIInv, NEW d \in Deliveries, NEW e \in Events, Receive(d, e)
    PROVE  SignatureIInv'
<1> DEFINE state == [stage |-> "checked", event |-> e]
<1>1. SignatureTypeOK
  BY DEF SignatureIInv
<1>2. /\ state \in Delivering /\ state # Waiting /\ state.stage = "checked" /\ state.event = e
      /\ delivery' = [delivery EXCEPT ![d] = state]
  BY Deliverings DEF Receive
<1>3. /\ delivery' \in [Deliveries -> Delivering] /\ delivery'[d] = state
      /\ \A c \in Deliveries : c # d => delivery'[c] = delivery[c]
  <2> HIDE DEF state
  <2> QED
    BY <1>1, <1>2, OneDelivery
<1>4. /\ delivery[d] = Waiting /\ Fresh(e) /\ seen' = Evicted /\ seen'[e] = NotSeen
      /\ UNCHANGED <<clock, stamp, acted>>
      /\ doubtful' = IF Carried(e) \/ stamp[e] > clock THEN doubtful \union {e} ELSE doubtful
  BY DEF Receive
<1>5. SignatureTypeOK'
  BY <1>1, <1>3, <1>4, Evicts DEF SignatureTypeOK, Times
<1> HIDE DEF state
<1>6. /\ clock \in Nat /\ Tolerance \in Nat /\ stamp[e] \in Nat /\ acted[e] \in 0..2
      /\ seen[e] \in Nat \union {NotSeen} /\ delivery[d].stage = "none"
  BY <1>1, <1>4, Clocks, Deliverings DEF SignatureTypeOK
<1>7. ASSUME NEW f \in Events \ doubtful'
      PROVE  EventIsSingle(f)'
  <2>1. EventIsSingle(f)
    BY <1>4 DEF SignatureIInv
  <2>2. CASE f # e
    <3>1. \A c \in Deliveries :
             (delivery'[c] # Waiting /\ delivery'[c].event = f) <=>
                 (delivery[c] # Waiting /\ delivery[c].event = f)
      BY <1>2, <1>3, <1>4, <2>2
    <3>2. \A c \in Deliveries, stage \in {"checked", "applied"} : At(c, stage, f)' => At(c, stage, f)
      BY <1>2, <1>3, <2>2 DEF At
    <3>3. seen'[f] = seen[f] \/ (seen'[f] = NotSeen /\ seen[f] + Tolerance < clock)
      BY <1>1, <1>4, Evicts
    <3> QED
      BY <1>1, <1>4, <1>6, <2>1, <3>1, <3>2, <3>3, EventStays
  <2>3. CASE f = e
    <3>1. ~Carried(e) /\ stamp[e] <= clock
      BY <1>4, <1>6, <2>3
    <3>2. acted[e] = 0
      <4>1. SUFFICES ASSUME acted[e] = 1
                     PROVE  FALSE
        BY <1>6, <2>1, <2>3 DEF EventIsSingle
      <4>2. \/ seen[e] # NotSeen /\ stamp[e] <= seen[e]
            \/ stamp[e] + Tolerance < clock
        BY <2>1, <2>3, <3>1, <4>1 DEF EventIsSingle
      <4>3. seen[e] # NotSeen => seen[e] + Tolerance < clock
        BY <1>1, <1>4, Evicts
      <4>4. stamp[e] - clock >= -Tolerance
        BY <1>4, <1>6 DEF Fresh
      <4> QED
        BY <1>6, <4>2, <4>3, <4>4 DEF NotSeen
    <3>3. \A c \in Deliveries : c # d => delivery'[c] = Waiting \/ delivery'[c].event # e
      BY <1>3, <3>1 DEF Carried
    <3>4. \A c \in Deliveries : ~At(c, "applied", e)'
      <4>1. \A c \in Deliveries : ~At(c, "applied", e) \/ c = d
        BY <3>1, Deliverings DEF Carried, At
      <4> QED
        BY <1>2, <1>3, <4>1 DEF At
    <3> QED
      BY <2>3, <1>2, <1>3, <1>4, <1>6, <3>1, <3>2, <3>3, <3>4 DEF EventIsSingle
  <2> QED
    BY <2>2, <2>3
<1> QED
  BY <1>5, <1>7 DEF SignatureIInv

LEMMA Applies ==
    ASSUME SignatureIInv, NEW d \in Deliveries, Apply(d)
    PROVE  SignatureIInv'
<1>1. SignatureTypeOK /\ delivery[d] \in Delivering /\ delivery[d].stage = "checked"
  BY DEF SignatureIInv, SignatureTypeOK, Apply
<1>2. PICK e \in Events : e = delivery[d].event /\ delivery[d] # Waiting
  BY <1>1, Deliverings
<1> DEFINE state == [stage |-> "applied", event |-> e]
<1>3. [delivery[d] EXCEPT !.stage = "applied"] = state
  BY <1>1, <1>2 DEF Delivering, Waiting
<1>4. /\ state \in Delivering /\ state # Waiting /\ state.stage = "applied" /\ state.event = e
      /\ delivery' = [delivery EXCEPT ![d] = state]
  BY <1>1, <1>2, <1>3, Deliverings DEF Apply, SignatureTypeOK
<1> HIDE DEF state
<1>5. /\ delivery' \in [Deliveries -> Delivering] /\ delivery'[d] = state
      /\ \A c \in Deliveries : c # d => delivery'[c] = delivery[c]
  BY <1>1, <1>4, OneDelivery
<1>6. /\ acted' \in [Events -> 0..2] /\ \A f \in Events : f # e => acted'[f] = acted[f]
      /\ acted[e] = 0 => acted'[e] = 1
      /\ UNCHANGED <<clock, seen, stamp, doubtful>>
  <2>1. acted \in [Events -> 0..2]
    BY <1>1 DEF SignatureTypeOK
  <2>2. acted' = [acted EXCEPT ![e] = IF @ = 2 THEN 2 ELSE @ + 1]
        /\ UNCHANGED <<clock, seen, stamp, doubtful>>
    BY <1>2 DEF Apply
  <2> QED
    BY <1>2, <2>1, <2>2
<1>7. SignatureTypeOK'
  BY <1>1, <1>5, <1>6 DEF SignatureTypeOK, Times
<1>8. ASSUME NEW f \in Events \ doubtful'
      PROVE  EventIsSingle(f)'
  <2>1. EventIsSingle(f)
    BY <1>6 DEF SignatureIInv
  <2>2. clock \in Nat /\ clock' = clock
    BY <1>1, <1>6, Clocks
  <2>3. \A c \in Deliveries :
             (delivery'[c] # Waiting /\ delivery'[c].event = f) <=>
                 (delivery[c] # Waiting /\ delivery[c].event = f)
    BY <1>2, <1>4, <1>5
  <2>4. CASE f # e
    <3>1. \A c \in Deliveries, stage \in {"checked", "applied"} : At(c, stage, f)' => At(c, stage, f)
      BY <1>4, <1>5, <2>4 DEF At
    <3> QED
      BY <1>1, <1>6, <2>1, <2>2, <2>3, <2>4, <3>1, EventStays
  <2>5. CASE f = e
    <3>1. Carried(e) /\ Carried(e)'
      BY <1>2, <1>4, <1>5 DEF Carried
    <3>2. At(d, "checked", e)
      BY <1>1, <1>2 DEF At
    <3>3. acted[e] = 0 /\ stamp[e] <= clock
      BY <2>1, <2>5, <3>1, <3>2 DEF EventIsSingle
    <3>4. \A c \in Deliveries : c # d => delivery[c] = Waiting \/ delivery[c].event # e
      BY <1>2, <2>1, <2>5 DEF EventIsSingle
    <3>5. \A c \in Deliveries : ~At(c, "checked", e)'
      <4>1. \A c \in Deliveries : c # d => ~At(c, "checked", e)
        BY <3>4, Deliverings DEF At
      <4> QED
        BY <1>4, <1>5, <4>1 DEF At
    <3> QED
      BY <2>1, <2>3, <2>5, <1>6, <3>1, <3>3, <3>5 DEF EventIsSingle
  <2> QED
    BY <2>4, <2>5
<1> QED
  BY <1>7, <1>8 DEF SignatureIInv

LEMMA Remembers ==
    ASSUME SignatureIInv, NEW d \in Deliveries, Remember(d)
    PROVE  SignatureIInv'
<1>1. SignatureTypeOK /\ delivery[d] \in Delivering /\ delivery[d].stage = "applied"
  BY DEF SignatureIInv, SignatureTypeOK, Remember
<1>2. PICK e \in Events : e = delivery[d].event /\ delivery[d] # Waiting
  BY <1>1, Deliverings
<1>3. /\ delivery' \in [Deliveries -> Delivering] /\ delivery'[d] = Waiting
      /\ \A c \in Deliveries : c # d => delivery'[c] = delivery[c]
  BY <1>1, Deliverings, OneDelivery DEF Remember
<1>4. /\ seen' = [Evicted EXCEPT ![e] = clock] /\ UNCHANGED <<clock, stamp, acted, doubtful>>
  BY <1>2 DEF Remember
<1>5. clock \in Nat /\ clock \in Times
  BY <1>1, Clocks DEF SignatureTypeOK
<1>6. /\ Evicted \in [Events -> Times \union {NotSeen}]
      /\ seen' \in [Events -> Times \union {NotSeen}] /\ seen'[e] = clock
      /\ \A f \in Events : f # e => seen'[f] = Evicted[f]
  BY <1>1, <1>2, <1>4, <1>5, Evicts
<1>7. SignatureTypeOK'
  BY <1>1, <1>3, <1>4, <1>6 DEF SignatureTypeOK, Times
<1>8. ASSUME NEW f \in Events \ doubtful'
      PROVE  EventIsSingle(f)'
  <2>1. EventIsSingle(f)
    BY <1>4 DEF SignatureIInv
  <2>2. CASE f # e
    <3>1. \A c \in Deliveries :
             (delivery'[c] # Waiting /\ delivery'[c].event = f) <=>
                 (delivery[c] # Waiting /\ delivery[c].event = f)
      BY <1>2, <1>3, <2>2
    <3>2. \A c \in Deliveries, stage \in {"checked", "applied"} : At(c, stage, f)' => At(c, stage, f)
      BY <1>3, Deliverings DEF At
    <3>3. seen'[f] = seen[f] \/ (seen'[f] = NotSeen /\ seen[f] + Tolerance < clock)
      BY <1>1, <1>6, <2>2, Evicts
    <3> QED
      BY <1>1, <1>4, <1>5, <2>1, <3>1, <3>2, <3>3, EventStays
  <2>3. CASE f = e
    <3>1. Carried(e)
      BY <1>2 DEF Carried
    <3>2. At(d, "applied", e)
      BY <1>1, <1>2 DEF At
    <3>3. acted[e] = 1 /\ stamp[e] <= clock
      BY <2>1, <2>3, <3>1, <3>2 DEF EventIsSingle
    <3>4. \A c \in Deliveries : delivery'[c] = Waiting \/ delivery'[c].event # e
      BY <1>2, <1>3, <2>1, <2>3 DEF EventIsSingle
    <3>5. ~Carried(e)' /\ \A c \in Deliveries : ~At(c, "checked", e)'
      BY <3>4, Deliverings DEF Carried, At
    <3> QED
      BY <2>3, <1>4, <1>5, <1>6, <3>3, <3>4, <3>5 DEF EventIsSingle, NotSeen
  <2> QED
    BY <2>2, <2>3
<1> QED
  BY <1>7, <1>8 DEF SignatureIInv

LEMMA Fails ==
    ASSUME SignatureIInv, NEW d \in Deliveries, Fail(d)
    PROVE  SignatureIInv'
<1>1. SignatureTypeOK /\ delivery[d] \in Delivering /\ delivery[d] # Waiting
  BY DEF SignatureIInv, SignatureTypeOK, Fail
<1>2. PICK e \in Events : e = delivery[d].event /\ delivery[d].stage \in {"checked", "applied"}
  BY <1>1, Deliverings
<1>3. /\ delivery' \in [Deliveries -> Delivering] /\ delivery'[d] = Waiting
      /\ \A c \in Deliveries : c # d => delivery'[c] = delivery[c]
  BY <1>1, Deliverings, OneDelivery DEF Fail
<1>4. /\ UNCHANGED <<clock, seen, stamp, acted>>
      /\ doubtful' = IF delivery[d].stage = "applied" THEN doubtful \union {e} ELSE doubtful
  BY <1>2 DEF Fail
<1>5. SignatureTypeOK'
  BY <1>1, <1>2, <1>3, <1>4 DEF SignatureTypeOK, Times
<1>6. ASSUME NEW f \in Events \ doubtful'
      PROVE  EventIsSingle(f)'
  <2>1. EventIsSingle(f) /\ clock \in Nat
    BY <1>1, <1>4, Clocks DEF SignatureIInv
  <2>2. \A c \in Deliveries, stage \in {"checked", "applied"} : At(c, stage, f)' => At(c, stage, f)
    BY <1>3, Deliverings DEF At
  <2>3. CASE f # e
    <3>1. \A c \in Deliveries :
             (delivery'[c] # Waiting /\ delivery'[c].event = f) <=>
                 (delivery[c] # Waiting /\ delivery[c].event = f)
      BY <1>2, <1>3, <2>3
    <3> QED
      BY <1>1, <1>4, <2>1, <2>2, <3>1, EventStays
  <2>4. CASE f = e
    <3>1. At(d, "checked", e) /\ Carried(e)
      BY <1>1, <1>2, <1>4, <2>4 DEF At, Carried
    <3>2. acted[e] = 0
      BY <2>1, <2>4, <3>1 DEF EventIsSingle
    <3>3. \A c \in Deliveries : delivery'[c] = Waiting \/ delivery'[c].event # e
      BY <1>1, <1>2, <1>3, <2>1, <2>4 DEF EventIsSingle
    <3>4. ~Carried(e)' /\ \A c \in Deliveries : ~At(c, "applied", e)'
      BY <3>3, Deliverings DEF Carried, At
    <3> QED
      BY <2>4, <1>4, <3>2, <3>3, <3>4 DEF EventIsSingle
  <2> QED
    BY <2>3, <2>4
<1> QED
  BY <1>5, <1>6 DEF SignatureIInv

LEMMA Restarts ==
    ASSUME SignatureIInv, Restart
    PROVE  SignatureIInv'
<1>1. SignatureTypeOK
  BY DEF SignatureIInv
<1>2. /\ seen' = [e \in Events |-> NotSeen] /\ delivery' = [d \in Deliveries |-> Waiting]
      /\ UNCHANGED <<clock, stamp, acted>> /\ doubtful \subseteq doubtful'
      /\ \A e \in Events : seen[e] # NotSeen => e \in doubtful'
      /\ \A d \in Deliveries : delivery[d].stage = "applied" => delivery[d].event \in doubtful'
  BY DEF Restart
<1>3. doubtful' \subseteq Events
  <2>1. \A d \in Deliveries : delivery[d].stage = "applied" => delivery[d].event \in Events
    BY <1>1, Deliverings DEF SignatureTypeOK
  <2> QED
    BY <1>1, <2>1 DEF Restart, SignatureTypeOK
<1>4. SignatureTypeOK'
  BY <1>1, <1>2, <1>3, Deliverings DEF SignatureTypeOK, Times
<1>5. ASSUME NEW e \in Events \ doubtful'
      PROVE  EventIsSingle(e)'
  <2>1. EventIsSingle(e) /\ acted[e] \in 0..2
    BY <1>1, <1>2, Clocks DEF SignatureIInv
  <2>2. ~Carried(e)' /\ \A d \in Deliveries : delivery'[d] = Waiting /\ delivery'[d].stage = "none"
    BY <1>2, Deliverings DEF Carried
  <2>3. acted[e] = 1 => stamp[e] + Tolerance < clock
    <3> SUFFICES ASSUME acted[e] = 1
                 PROVE  stamp[e] + Tolerance < clock
      OBVIOUS
    <3>1. ~Carried(e)
      <4> SUFFICES ASSUME NEW d \in Deliveries, delivery[d] # Waiting, delivery[d].event = e
                   PROVE  FALSE
        BY DEF Carried
      <4>1. delivery[d].stage \in {"checked", "applied"}
        BY <1>1, Deliverings DEF SignatureTypeOK
      <4> QED
        BY <1>2, <2>1, <4>1 DEF EventIsSingle, At
    <3> QED
      BY <1>2, <2>1, <3>1 DEF EventIsSingle
  <2> QED
    BY <1>2, <2>1, <2>2, <2>3 DEF EventIsSingle, At
<1> QED
  BY <1>4, <1>5 DEF SignatureIInv

LEMMA OthersPass ==
    ASSUME SignatureIInv,
           \/ \E e \in Events : RefuseUsed(e)
           \/ Pass
           \/ UNCHANGED signatureVars
    PROVE  SignatureIInv'
<1>1. SignatureTypeOK /\ clock \in Nat /\ MaxClock \in Nat
  BY Clocks DEF SignatureIInv
<1>2. /\ UNCHANGED <<delivery, stamp, acted, doubtful>>
      /\ clock' \in {clock, clock + 1} /\ clock' \in Times
      /\ seen' \in {seen, Evicted}
  BY <1>1 DEF RefuseUsed, Pass, signatureVars, Times, SignatureTypeOK
<1>3. SignatureTypeOK'
  <2>1. seen' \in [Events -> Times \union {NotSeen}]
    BY <1>1, <1>2 DEF SignatureTypeOK, Evicted
  <2> QED
    BY <1>1, <1>2, <2>1 DEF SignatureTypeOK, Times
<1>4. ASSUME NEW e \in Events \ doubtful'
      PROVE  EventIsSingle(e)'
  <2>1. EventIsSingle(e)
    BY <1>2 DEF SignatureIInv
  <2>2. seen'[e] = seen[e] \/ (seen'[e] = NotSeen /\ seen[e] + Tolerance < clock)
    BY <1>1, <1>2, Evicts
  <2>3. clock' \in Nat /\ clock <= clock'
    BY <1>1, <1>2
  <2>4. \A d \in Deliveries, stage \in {"checked", "applied"} : At(d, stage, e)' => At(d, stage, e)
    BY <1>2 DEF At
  <2> QED
    BY <1>1, <1>2, <2>1, <2>2, <2>3, <2>4, EventStays
<1> QED
  BY <1>3, <1>4 DEF SignatureIInv

\* SignatureIInv holds in every state: an event that was applied is carried by the request that
\* applied it, remembered from a moment no earlier than its timestamp, or no longer fresh.
THEOREM SignatureInvariance == SignatureSpec => []SignatureIInv
<1>1. SignatureInit => SignatureIInv
  <2> SUFFICES ASSUME SignatureInit
               PROVE  SignatureIInv
    OBVIOUS
  <2>1. SignatureTypeOK
    BY ClockAssumption, Deliverings DEF SignatureInit, SignatureTypeOK, Times
  <2>2. ASSUME NEW e \in Events
        PROVE  EventIsSingle(e)
    <3>1. ~Carried(e) /\ acted[e] = 0 /\ \A d \in Deliveries : delivery[d] = Waiting /\ delivery[d].stage = "none"
      BY Deliverings DEF SignatureInit, Carried
    <3> QED
      BY <3>1 DEF EventIsSingle, At
  <2> QED
    BY <2>1, <2>2 DEF SignatureIInv
<1>2. SignatureIInv /\ [SignatureNext]_signatureVars => SignatureIInv'
  <2> SUFFICES ASSUME SignatureIInv, [SignatureNext]_signatureVars
               PROVE  SignatureIInv'
    OBVIOUS
  <2>1. ASSUME NEW d \in Deliveries, NEW e \in Events, Receive(d, e)
        PROVE  SignatureIInv'
    BY <2>1, Receives
  <2>2. ASSUME NEW d \in Deliveries, Apply(d)
        PROVE  SignatureIInv'
    BY <2>2, Applies
  <2>3. ASSUME NEW d \in Deliveries, Remember(d)
        PROVE  SignatureIInv'
    BY <2>3, Remembers
  <2>4. ASSUME NEW d \in Deliveries, Fail(d)
        PROVE  SignatureIInv'
    BY <2>4, Fails
  <2>5. CASE Restart
    BY <2>5, Restarts
  <2>6. CASE (\E e \in Events : RefuseUsed(e)) \/ Pass \/ UNCHANGED signatureVars
    BY <2>6, OthersPass
  <2> QED
    BY <2>1, <2>2, <2>3, <2>4, <2>5, <2>6 DEF SignatureNext
<1> QED
  BY <1>1, <1>2, PTL DEF SignatureSpec

\* AppliedOnce: the signatures that webhook_auth.py remembers keep an event from being applied
\* twice, unless two requests carried it at once, one died after the handler, the process was
\* restarted, or Vapi's clock was ahead.
THEOREM AppliedAtMostOnce == SignatureSpec => []AppliedOnce
<1>1. SignatureIInv => AppliedOnce
  BY DEF SignatureIInv, EventIsSingle, AppliedOnce
<1> QED
  BY <1>1, SignatureInvariance, PTL

(***************************************************************************)
(* CompanyEmails: the backfill of company addresses.                       *)
(***************************************************************************)

\* Moves keeps what was proposed, and gives no address twice.
LEMMA MovesAreSingle ==
    ASSUME NEW proposed, \A e \in DOMAIN proposed : proposed[e] \in Move
    PROVE  /\ DOMAIN Moves(proposed) \subseteq DOMAIN proposed
           /\ \A e \in DOMAIN Moves(proposed) : Moves(proposed)[e] = proposed[e]
           /\ \A e, f \in DOMAIN Moves(proposed) :
                Moves(proposed)[e].new = Moves(proposed)[f].new => e = f
BY DEF Moves

\* The plan of one read of the tables: unclaimed company addresses, one for each.
LEMMA Plans ==
    ASSUME EmailIInv, MakePlan
    PROVE  EmailIInv'
<1>1. PICK choice \in [Staff -> {records[r] : r \in Records} \union {NoOnboarding}] :
        plan' = Moves([e \in {x \in Staff : Proposed(x, choice[x])} |->
                         [old |-> staff[e].email, new |-> choice[e].allocation]])
  BY DEF MakePlan
<1> DEFINE chosen == {x \in Staff : Proposed(x, choice[x])}
           proposed == [e \in chosen |-> [old |-> staff[e].email, new |-> choice[e].allocation]]
<1>2. /\ phase = "new" /\ phase' = "apply" /\ UNCHANGED <<staff, records, current, edits, touched>>
      /\ plan' = Moves(proposed)
  BY <1>1 DEF MakePlan
<1>3. staff \in [Staff -> Employee]
  BY DEF EmailIInv, EmailTypeOK
<1>4. ASSUME NEW e \in chosen
      PROVE  /\ proposed[e] \in Move /\ proposed[e].new \in Company
             /\ \A f \in Staff : staff[f].email # proposed[e].new
  <2>1. staff[e].email \in Addresses
    BY <1>3 DEF Employee
  <2>2. choice[e].allocation \in Company \ Taken
    BY DEF Proposed
  <2>3. proposed[e] = [old |-> staff[e].email, new |-> choice[e].allocation]
    OBVIOUS
  <2>4. \A f \in Staff : staff[f].email \in Taken
    BY DEF Taken
  <2>5. proposed[e] \in Move
    BY <2>1, <2>2, <2>3 DEF Move, Addresses
  <2>6. proposed[e].new = choice[e].allocation
    BY <2>3
  <2> QED
    BY <2>2, <2>4, <2>5, <2>6
<1>5. DOMAIN proposed = chosen
  OBVIOUS
<1> HIDE DEF proposed
<1>6. /\ DOMAIN plan' \subseteq chosen
      /\ \A e \in DOMAIN plan' : plan'[e] = proposed[e]
      /\ \A e, f \in DOMAIN plan' : plan'[e].new = plan'[f].new => e = f
  BY <1>2, <1>4, <1>5, MovesAreSingle
<1>7. EmailTypeOK'
  BY <1>2, <1>4, <1>6 DEF EmailIInv, EmailTypeOK
<1>8. PhasesFollow'
  BY <1>2 DEF PhasesFollow
<1>9. ASSUME NEW a \in Company \ touched'
      PROVE  AddressIsSingle(a)'
  <2>1. \A e, f \in Staff : staff'[e].email = a /\ staff'[f].email = a => e = f
    BY <1>2 DEF EmailIInv, AddressIsSingle
  <2>2. Promised(a)' => \A e \in Staff : staff'[e].email # a
    BY <1>2, <1>4, <1>6 DEF Promised
  <2>3. \A e, f \in DOMAIN plan' : plan'[e].new = a /\ plan'[f].new = a => e = f
    BY <1>6
  <2> QED
    BY <1>2, <2>1, <2>2, <2>3 DEF AddressIsSingle
<1> QED
  BY <1>7, <1>8, <1>9 DEF EmailIInv

\* A promise goes from the plan to the script's hands, or is dropped.
LEMMA ReadsForMove ==
    ASSUME EmailIInv, NEW e \in Staff, ReadForMove(e)
    PROVE  EmailIInv'
<1>1. /\ phase = "apply" /\ e \in DOMAIN plan /\ UNCHANGED <<staff, records, edits, touched>>
      /\ plan' = [x \in DOMAIN plan \ {e} |-> plan[x]]
  BY DEF ReadForMove
<1>2. \/ /\ phase' = "write"
         /\ current' = [who |-> e, row |-> staff[e], new |-> plan[e].new]
      \/ UNCHANGED <<phase, current>>
  BY DEF ReadForMove
<1>3. /\ DOMAIN plan' = DOMAIN plan \ {e} /\ \A x \in DOMAIN plan' : plan'[x] = plan[x]
  BY <1>1
<1>4. phase' # "apply" =>
        /\ phase' = "write" /\ current' \in Reading
        /\ current'.new = plan[e].new
  <2> SUFFICES ASSUME phase' # "apply"
               PROVE  /\ phase' = "write" /\ current' \in Reading
                      /\ current'.new = plan[e].new
    OBVIOUS
  <2>1. plan[e].new \in Addresses /\ staff[e] \in Employee
    BY <1>1 DEF EmailIInv, EmailTypeOK, Move
  <2>2. current' = [who |-> e, row |-> staff[e], new |-> plan[e].new] /\ phase' = "write"
    BY <1>1, <1>2
  <2> QED
    BY <2>1, <2>2 DEF Reading
<1>5. phase' \in {"apply", "write"}
  BY <1>1, <1>2
<1>6. EmailTypeOK'
  <2>1. current' \in {NobodyRead} \union Reading
    BY <1>1, <1>2, <1>4 DEF EmailIInv, EmailTypeOK
  <2> QED
    BY <1>1, <1>3, <1>5, <2>1 DEF EmailIInv, EmailTypeOK
<1>7. PhasesFollow'
  BY <1>4, <1>5 DEF PhasesFollow
<1>8. ASSUME NEW a \in Company \ touched'
      PROVE  AddressIsSingle(a)'
  <2>1. AddressIsSingle(a)
    BY <1>1 DEF EmailIInv
  <2>2. Promised(a)' => Promised(a)
    BY <1>1, <1>3, <1>4, <1>5 DEF Promised
  <2>3. phase' = "write" /\ current'.new = a => \A x \in DOMAIN plan' : plan'[x].new # a
    BY <1>1, <1>3, <1>4, <2>1 DEF AddressIsSingle
  <2> QED
    BY <1>1, <1>3, <2>1, <2>2, <2>3 DEF AddressIsSingle
<1> QED
  BY <1>6, <1>7, <1>8 DEF EmailIInv

\* A promise is kept: the address is now one employee's.
LEMMA WritesAddress ==
    ASSUME EmailIInv, WriteMove
    PROVE  EmailIInv'
<1>1. /\ phase = "write" /\ phase' = "apply" /\ current' = NobodyRead
      /\ UNCHANGED <<records, plan, edits, touched>>
      /\ staff' = [staff EXCEPT ![current.who] = [current.row EXCEPT !.email = current.new]]
  BY DEF WriteMove
<1>2. current \in Reading /\ staff \in [Staff -> Employee]
  BY <1>1 DEF EmailIInv, PhasesFollow, EmailTypeOK
<1>3. /\ current.who \in Staff /\ current.new \in Addresses
      /\ [current.row EXCEPT !.email = current.new] \in Employee
      /\ [current.row EXCEPT !.email = current.new].email = current.new
  BY <1>2 DEF Reading, Employee
<1>4. /\ staff' \in [Staff -> Employee] /\ staff'[current.who].email = current.new
      /\ \A e \in Staff : e # current.who => staff'[e] = staff[e]
  BY <1>1, <1>2, <1>3
<1>5. EmailTypeOK'
  BY <1>1, <1>4 DEF EmailIInv, EmailTypeOK
<1>6. PhasesFollow'
  BY <1>1 DEF PhasesFollow
<1>7. ASSUME NEW a \in Company \ touched'
      PROVE  AddressIsSingle(a)'
  <2>1. AddressIsSingle(a)
    BY <1>1 DEF EmailIInv
  <2>2. CASE current.new = a
    <3>1. /\ \A e \in Staff : staff[e].email # a
          /\ \A e \in DOMAIN plan : plan[e].new # a
      BY <1>1, <2>1, <2>2 DEF AddressIsSingle, Promised
    <3> QED
      BY <1>1, <1>4, <2>2, <3>1 DEF AddressIsSingle, Promised
  <2>3. CASE current.new # a
    <3>1. \A e \in Staff : staff'[e].email = a => staff[e].email = a
      BY <1>4, <2>3
    <3>2. Promised(a)' => Promised(a)
      BY <1>1 DEF Promised
    <3> QED
      BY <1>1, <2>1, <3>1, <3>2 DEF AddressIsSingle
  <2> QED
    BY <2>2, <2>3
<1> QED
  BY <1>5, <1>6, <1>7 DEF EmailIInv

\* What is left of the plan is dropped.
LEMMA PlanEnds ==
    ASSUME EmailIInv, Finish
    PROVE  EmailIInv'
<1>1. /\ phase' = "new" /\ DOMAIN plan' = {} /\ current' = NobodyRead
      /\ UNCHANGED <<staff, records, edits, touched>>
  BY DEF Finish, NoMoves
<1>2. EmailTypeOK' /\ PhasesFollow'
  BY <1>1 DEF EmailIInv, EmailTypeOK, PhasesFollow
<1>3. ASSUME NEW a \in Company \ touched'
      PROVE  AddressIsSingle(a)'
  BY <1>1 DEF EmailIInv, AddressIsSingle, Promised
<1> QED
  BY <1>2, <1>3 DEF EmailIInv

\* HR gives nobody an address somebody has; an address that is promised it may.
LEMMA Edits ==
    ASSUME EmailIInv, NEW e \in Staff, NEW email \in Addresses, NEW offboarded \in BOOLEAN,
           EditEmployee(e, email, offboarded)
    PROVE  EmailIInv'
<1>1. /\ edits < MaxEdits /\ edits' = edits + 1 /\ UNCHANGED <<records, plan, phase, current>>
      /\ email \in Company => \A f \in Staff \ {e} : staff[f].email # email
      /\ staff' = [staff EXCEPT ![e].email = email, ![e].offboarded = offboarded]
      /\ touched' = IF phase = "new" \/ email = staff[e].email THEN touched
                    ELSE touched \union {email}
  BY DEF EditEmployee
<1>2. /\ staff \in [Staff -> Employee] /\ staff' \in [Staff -> Employee]
      /\ staff'[e].email = email /\ \A f \in Staff : f # e => staff'[f] = staff[f]
  <2>1. staff \in [Staff -> Employee]
    BY DEF EmailIInv, EmailTypeOK
  <2> DEFINE row == [staff[e] EXCEPT !.email = email, !.offboarded = offboarded]
  <2>2. staff' = [staff EXCEPT ![e] = row]
    BY <1>1, <2>1 DEF Employee
  <2>3. row \in Employee /\ row.email = email
    BY <2>1 DEF Employee
  <2> HIDE DEF row
  <2> QED
    BY <2>1, <2>2, <2>3
<1>3. EmailTypeOK'
  <2>1. edits' \in 0..MaxEdits /\ touched' \subseteq Addresses
    BY <1>1, EmailAssumption DEF EmailIInv, EmailTypeOK
  <2> QED
    BY <1>1, <1>2, <2>1 DEF EmailIInv, EmailTypeOK
<1>4. PhasesFollow'
  BY <1>1 DEF EmailIInv, PhasesFollow
<1>5. ASSUME NEW a \in Company \ touched'
      PROVE  AddressIsSingle(a)'
  <2>1. AddressIsSingle(a)
    BY <1>1 DEF EmailIInv
  <2>2. Promised(a)' <=> Promised(a)
    BY <1>1 DEF Promised
  <2>3. CASE email # a \/ email = staff[e].email
    <3>1. \A f \in Staff : staff'[f].email = a => staff[f].email = a
      BY <1>2, <2>3
    <3> QED
      BY <1>1, <2>1, <2>2, <3>1 DEF AddressIsSingle
  <2>4. CASE email = a /\ email # staff[e].email
    <3>1. phase = "new" /\ DOMAIN plan = {}
      BY <1>1, <2>4 DEF EmailIInv, PhasesFollow
    <3>2. ~Promised(a)
      BY <3>1 DEF Promised
    <3>3. \A f \in Staff : staff'[f].email = a => f = e
      BY <1>1, <1>2, <2>4
    <3> QED
      BY <1>1, <2>2, <3>1, <3>2, <3>3 DEF AddressIsSingle
  <2> QED
    BY <2>3, <2>4
<1> QED
  BY <1>3, <1>4, <1>5 DEF EmailIInv

\* EmailIInv holds in every state: an address on the domain is one employee's, or promised to one
\* employee and nobody's, unless HR gave it to somebody while a plan was being applied.
THEOREM EmailInvariance == EmailSpec => []EmailIInv
<1>1. EmailInit => EmailIInv
  <2> SUFFICES ASSUME EmailInit
               PROVE  EmailIInv
    OBVIOUS
  <2>1. DOMAIN plan = {} /\ phase = "new" /\ 0 \in 0..MaxEdits
    BY EmailAssumption DEF EmailInit, NoMoves
  <2>2. EmailTypeOK /\ PhasesFollow
    BY <2>1 DEF EmailInit, EmailTypeOK, PhasesFollow
  <2>3. ASSUME NEW a \in Company
        PROVE  AddressIsSingle(a)
    BY <2>1 DEF EmailInit, AddressIsSingle, Promised
  <2> QED
    BY <2>2, <2>3 DEF EmailIInv
<1>2. EmailIInv /\ [EmailNext]_emailVars => EmailIInv'
  <2> SUFFICES ASSUME EmailIInv, [EmailNext]_emailVars
               PROVE  EmailIInv'
    OBVIOUS
  <2>1. ASSUME NEW e \in Staff, NEW email \in Addresses, NEW offboarded \in BOOLEAN,
               EditEmployee(e, email, offboarded)
        PROVE  EmailIInv'
    BY <2>1, Edits
  <2>2. ASSUME NEW e \in Staff, ReadForMove(e)
        PROVE  EmailIInv'
    BY <2>2, ReadsForMove
  <2>3. CASE UNCHANGED emailVars
    BY <2>3 DEF emailVars, EmailIInv, EmailTypeOK, PhasesFollow, AddressIsSingle, Promised
  <2> QED
    BY <2>1, <2>2, <2>3, Plans, WritesAddress, PlanEnds DEF EmailNext
<1> QED
  BY <1>1, <1>2, PTL DEF EmailSpec

\* OneAddressEach: no two employees come to share an address on the domain by the backfill
\* (company_email_backfill.py), unless HR gave it to somebody while a plan was being applied.
THEOREM AddressesStaySingle == EmailSpec => []OneAddressEach
<1>1. EmailIInv => OneAddressEach
  <2> SUFFICES ASSUME EmailIInv, NEW e \in Staff, NEW f \in Staff, e # f,
                      staff[e].email = staff[f].email
               PROVE  staff[e].email \in Private \union touched
    BY DEF OneAddressEach
  <2>1. staff[e].email \in Company \union Private
    BY DEF EmailIInv, EmailTypeOK, Employee, Addresses
  <2> QED
    BY <2>1 DEF EmailIInv, AddressIsSingle
<1> QED
  BY <1>1, EmailInvariance, PTL

(***************************************************************************)
(* CalendarLinks: the app's events and Google's.                           *)
(***************************************************************************)

\* What a caller holds, by its stage.
LEMMA CallerFields ==
    ASSUME CalendarTypeOK
    PROVE  \A c \in Callers : caller[c] # AtRest =>
             /\ caller[c] \in Busy /\ caller[c].of \in AppEvents
             /\ caller[c].stage \in {"push", "pushed", "delete", "deleted", "clean"}
             /\ caller[c].id \in GoogleIds \union {0}
             /\ caller[c].user \in GoogleUsers \union {"none"}
BY DEF CalendarTypeOK, Busy

\* The states a request brings about.
LEMMA BusyState ==
    ASSUME NEW stage \in {"push", "pushed", "delete", "deleted", "clean"}, NEW e \in AppEvents,
           NEW user \in GoogleUsers \union {"none"}, NEW i \in GoogleIds \union {0}, NEW state,
           state = [stage |-> stage, of |-> e, user |-> user, id |-> i]
    PROVE  /\ state \in Busy /\ state # AtRest /\ state.stage = stage
           /\ state.of = e /\ state.user = user /\ state.id = i
<1>1. /\ state.stage = stage /\ state.of = e /\ state.user = user /\ state.id = i
  OBVIOUS
<1>2. state \in Busy
  BY DEF Busy
<1>3. AtRest.stage = "idle"
  BY DEF AtRest
<1> QED
  BY <1>1, <1>2, <1>3

LEMMA RestIsIdle == AtRest.stage = "idle"
BY DEF AtRest

\* One caller goes on to a state; the others stay where they are.
LEMMA OneCaller ==
    ASSUME CalendarTypeOK, NEW c \in Callers, NEW state \in Busy \union {AtRest},
           caller' = [caller EXCEPT ![c] = state]
    PROVE  /\ caller' \in [Callers -> {AtRest} \union Busy] /\ caller'[c] = state
           /\ \A d \in Callers : d # c => caller'[d] = caller[d]
BY DEF CalendarTypeOK

\* An event that the step of a caller is not about.
LEMMA EventApart ==
    ASSUME NEW f \in AppEvents, EventFollows(f), NEW c \in Callers,
           ~Handles(c, f), ~Handles(c, f)',
           \A d \in Callers : d # c => caller'[d] = caller[d],
           links'[f] = links[f], EventsOf(f)' = EventsOf(f)
    PROVE  EventFollows(f)'
<1>1. \A d \in Callers : Handles(d, f)' <=> Handles(d, f)
  BY DEF Handles
<1>2. \A d \in Callers : Handles(d, f)' => caller'[d] = caller[d]
  OBVIOUS
<1>3. InUse(f)' <=> InUse(f)
  BY <1>1 DEF InUse
<1> QED
  BY <1>1, <1>2, <1>3 DEF EventFollows

\* The one request about an event has come to its end.
LEMMA EventRests ==
    ASSUME NEW e \in AppEvents, EventFollows(e), NEW c \in Callers, Handles(c, e),
           caller'[c] = AtRest, \A d \in Callers : d # c => caller'[d] = caller[d],
           EventsOf(e)' = {links'[e]} \ {0}
    PROVE  EventFollows(e)'
<1>1. \A d \in Callers : ~Handles(d, e)'
  BY DEF EventFollows, Handles
<1> QED
  BY <1>1 DEF EventFollows, InUse

\* The one request about an event goes on to a next stage.
LEMMA EventGoesOn ==
    ASSUME NEW e \in AppEvents, NEW c \in Callers,
           \A d \in Callers : d # c => ~Handles(d, e) /\ caller'[d] = caller[d],
           caller'[c] # AtRest, caller'[c].of = e,
           caller'[c].stage \in {"push", "delete", "clean"} =>
              caller'[c].id = links'[e] /\ EventsOf(e)' = {links'[e]} \ {0},
           caller'[c].stage = "pushed" => caller'[c].id # 0 /\ EventsOf(e)' = {caller'[c].id},
           caller'[c].stage = "deleted" => EventsOf(e)' = {}
    PROVE  EventFollows(e)'
<1>1. \A d \in Callers : Handles(d, e)' <=> d = c
  BY DEF Handles
<1> QED
  BY <1>1 DEF EventFollows, InUse

\* What the invariant says to a caller about its event.
LEMMA OwnEvent ==
    ASSUME CalendarIInv, NEW c \in Callers, caller[c] # AtRest
    PROVE  /\ CalendarTypeOK /\ IdsAreKept
           /\ caller[c] \in Busy /\ caller[c].of \in AppEvents
           /\ Handles(c, caller[c].of)
           /\ caller[c].of \notin mixed =>
                /\ EventFollows(caller[c].of)
                /\ \A d \in Callers : d # c => ~Handles(d, caller[c].of)
BY CallerFields DEF CalendarIInv, Handles, EventFollows

\* The other events: nothing changes for them.
LEMMA OtherEvents ==
    ASSUME CalendarIInv, NEW c \in Callers, NEW e \in AppEvents,
           caller[c] # AtRest => caller[c].of = e, caller'[c] # AtRest => caller'[c].of = e,
           \A d \in Callers : d # c => caller'[d] = caller[d],
           mixed \subseteq mixed', 
           NEW f \in AppEvents \ mixed', f # e, links'[f] = links[f], EventsOf(f)' = EventsOf(f)
    PROVE  EventFollows(f)'
<1>1. EventFollows(f) /\ ~Handles(c, f) /\ ~Handles(c, f)'
  BY DEF CalendarIInv, Handles
<1> QED
  BY <1>1, EventApart

\* What an EXCEPT on the caller's stage, and id, makes of the caller.
LEMMA CallerGoesOn ==
    ASSUME CalendarTypeOK, NEW c \in Callers, caller[c] \in Busy,
           NEW stage \in {"pushed", "deleted"}, NEW i \in GoogleIds \union {0},
           \/ caller' = [caller EXCEPT ![c].stage = stage] /\ i = caller[c].id
           \/ caller' = [caller EXCEPT ![c].stage = stage, ![c].id = i]
    PROVE  /\ caller' \in [Callers -> {AtRest} \union Busy]
           /\ caller'[c] \in Busy /\ caller'[c] # AtRest /\ caller'[c].stage = stage
           /\ caller'[c].of = caller[c].of /\ caller'[c].user = caller[c].user
           /\ caller'[c].id = i
           /\ \A d \in Callers : d # c => caller'[d] = caller[d]
<1>1. caller \in [Callers -> {AtRest} \union Busy]
  BY DEF CalendarTypeOK
<1>2. PICK s \in {"push", "pushed", "delete", "deleted", "clean"}, e \in AppEvents,
           user \in GoogleUsers \union {"none"}, j \in GoogleIds \union {0} :
         caller[c] = [stage |-> s, of |-> e, user |-> user, id |-> j]
  BY DEF Busy
<1>3. caller[c].of = e /\ caller[c].user = user /\ caller[c].id = j
  BY <1>2
<1> DEFINE state == [stage |-> stage, of |-> e, user |-> user, id |-> i]
<1>4. state \in Busy /\ state # AtRest /\ state.stage = stage /\ state.of = e
      /\ state.user = user /\ state.id = i
  <2>1. stage \in {"push", "pushed", "delete", "deleted", "clean"}
    OBVIOUS
  <2>2. state = [stage |-> stage, of |-> e, user |-> user, id |-> i]
    OBVIOUS
  <2> HIDE DEF state
  <2> QED
    BY <2>1, <2>2, BusyState
<1>5. caller' = [caller EXCEPT ![c] = state]
  <2>1. CASE caller' = [caller EXCEPT ![c].stage = stage] /\ i = caller[c].id
    <3>1. [caller[c] EXCEPT !.stage = stage] = state
      BY <1>2, <1>3, <2>1
    <3>2. caller' = [caller EXCEPT ![c] = [caller[c] EXCEPT !.stage = stage]]
      BY <1>1, <2>1
    <3> QED
      BY <3>1, <3>2
  <2>2. CASE caller' = [caller EXCEPT ![c].stage = stage, ![c].id = i]
    <3> DEFINE next == [caller[c] EXCEPT !.stage = stage]
               half == [caller EXCEPT ![c] = next]
    <3>1. next = [stage |-> stage, of |-> e, user |-> user, id |-> j]
      BY <1>2
    <3>2. caller' = [half EXCEPT ![c].id = i] /\ half \in [Callers -> {AtRest} \union Busy \union {next}]
      BY <1>1, <2>2
    <3>3. half[c] = next
      BY <1>1
    <3> HIDE DEF next
    <3>4. [next EXCEPT !.id = i] = state
      BY <3>1
    <3>5. caller' = [half EXCEPT ![c] = state]
      <4> HIDE DEF half, state
      <4> QED
        BY <3>2, <3>3, <3>4
    <3> HIDE DEF state
    <3> QED
      BY <1>1, <3>5
  <2> QED
    BY <2>1, <2>2
<1> HIDE DEF state
<1> QED
  BY <1>3, <1>4, <1>5, OneCaller

\* A request comes to its end, and changes neither links nor events.
LEMMA CallerRests ==
    ASSUME CalendarIInv, NEW c \in Callers, caller[c] # AtRest,
           caller' = [caller EXCEPT ![c] = AtRest],
           UNCHANGED <<connection, links, google, made>>,
           \/ /\ mixed' = mixed
              /\ caller[c].stage \in {"push", "delete"}
           \/ mixed' = mixed \union {caller[c].of}
    PROVE  CalendarIInv'
<1>1. PICK e \in AppEvents : caller[c].of = e
  BY OwnEvent
<1>2. /\ CalendarTypeOK /\ IdsAreKept /\ Handles(c, e)
      /\ e \notin mixed => EventFollows(e)
      /\ mixed \subseteq mixed' /\ mixed' \subseteq mixed \union {e}
  BY <1>1, OwnEvent
<1>3. /\ caller' \in [Callers -> {AtRest} \union Busy] /\ caller'[c] = AtRest
      /\ \A d \in Callers : d # c => caller'[d] = caller[d]
  BY <1>2, OneCaller
<1>4. CalendarTypeOK'
  BY <1>2, <1>3 DEF CalendarTypeOK
<1>5. IdsAreKept'
  BY <1>2, <1>3 DEF IdsAreKept
<1>6. \A f \in AppEvents : EventsOf(f)' = EventsOf(f)
  BY DEF EventsOf
<1>7. ASSUME NEW f \in AppEvents \ mixed'
      PROVE  EventFollows(f)'
  <2>1. CASE f # e
    BY <1>1, <1>2, <1>3, <1>6, <2>1, OtherEvents
  <2>2. CASE f = e
    <3>1. caller[c].stage \in {"push", "delete"} /\ EventFollows(e)
      BY <1>1, <1>2, <2>2
    <3>2. EventsOf(e) = {links[e]} \ {0}
      BY <1>2, <3>1 DEF EventFollows
    <3> QED
      BY <1>2, <1>3, <1>6, <2>2, <3>1, <3>2, EventRests
  <2> QED
    BY <2>1, <2>2
<1> QED
  BY <1>4, <1>5, <1>7 DEF CalendarIInv

\* The link is written and the request is over.
LEMMA LinksUp ==
    ASSUME CalendarIInv, NEW c \in Callers, StoreLink(c) \/ DropLink(c)
    PROVE  CalendarIInv'
<1>1. /\ caller[c] # AtRest /\ caller[c].stage \in {"pushed", "deleted"}
      /\ caller' = [caller EXCEPT ![c] = AtRest] /\ UNCHANGED <<connection, google, made, mixed>>
  BY RestIsIdle DEF StoreLink, DropLink
<1>2. PICK e \in AppEvents : caller[c].of = e
  BY <1>1, OwnEvent
<1>3. /\ CalendarTypeOK /\ IdsAreKept /\ Handles(c, e) /\ caller[c] \in Busy
      /\ e \notin mixed => EventFollows(e)
  BY <1>1, <1>2, OwnEvent
<1>4. PICK i \in GoogleIds \union {0} :
        /\ i = IF caller[c].stage = "pushed" THEN caller[c].id ELSE 0
        /\ links' = [links EXCEPT ![e] = i]
  BY <1>1, <1>2, <1>3, CallerFields DEF StoreLink, DropLink
<1>5. /\ caller' \in [Callers -> {AtRest} \union Busy] /\ caller'[c] = AtRest
      /\ \A d \in Callers : d # c => caller'[d] = caller[d]
  BY <1>1, <1>3, OneCaller
<1>6. /\ links \in [AppEvents -> GoogleIds \union {0}] /\ links' \in [AppEvents -> GoogleIds \union {0}]
      /\ links'[e] = i /\ \A f \in AppEvents : f # e => links'[f] = links[f]
  BY <1>3, <1>4 DEF CalendarTypeOK
<1>7. CalendarTypeOK'
  BY <1>1, <1>3, <1>5, <1>6 DEF CalendarTypeOK
<1>8. IdsAreKept'
  <2>1. made \in Nat /\ \A g \in google : g.id # 0
    BY <1>3 DEF CalendarTypeOK, GoogleIds
  <2>2. i <= made /\ \A g \in google : g.id = i => g.of = e
    BY <1>1, <1>2, <1>3, <1>4, <2>1 DEF IdsAreKept
  <2> QED
    BY <1>1, <1>3, <1>5, <1>6, <2>2 DEF IdsAreKept
<1>9. \A f \in AppEvents : EventsOf(f)' = EventsOf(f)
  BY <1>1 DEF EventsOf
<1>10. ASSUME NEW f \in AppEvents \ mixed'
       PROVE  EventFollows(f)'
  <2>1. CASE f # e
    BY <1>1, <1>2, <1>5, <1>6, <1>9, <2>1, OtherEvents
  <2>2. CASE f = e
    <3>1. EventFollows(e)
      BY <1>1, <1>3, <2>2
    <3>2. EventsOf(e) = {i} \ {0}
      BY <1>1, <1>3, <1>4, <3>1 DEF EventFollows
    <3> QED
      BY <1>3, <1>5, <1>6, <1>9, <2>2, <3>1, <3>2, EventRests
  <2> QED
    BY <2>1, <2>2
<1> QED
  BY <1>7, <1>8, <1>10 DEF CalendarIInv

\* A request that reads the link; one more that does so at the same time mixes the event up.
LEMMA Engages ==
    ASSUME CalendarIInv, NEW c \in Callers, NEW e \in AppEvents,
           BeginPush(c, e) \/ BeginDelete(c, e) \/ BeginCleanup(c, e)
    PROVE  CalendarIInv'
<1>1. PICK stage \in {"push", "delete", "clean"} :
        Engage(c, e, stage) /\ (stage = "push" => connection # "none")
  BY DEF BeginPush, BeginDelete, BeginCleanup
<1> DEFINE state == [stage |-> stage, of |-> e, user |-> connection, id |-> links[e]]
<1>2. /\ caller[c] = AtRest /\ caller' = [caller EXCEPT ![c] = state]
      /\ mixed' = IF InUse(e) THEN mixed \union {e} ELSE mixed
      /\ UNCHANGED <<connection, links, google, made>>
  BY <1>1 DEF Engage
<1>3. CalendarTypeOK /\ IdsAreKept
  BY DEF CalendarIInv
<1>4. /\ state \in Busy /\ state # AtRest /\ state.stage = stage /\ state.of = e
      /\ state.user = connection /\ state.id = links[e]
  BY <1>3, BusyState DEF CalendarTypeOK
<1> HIDE DEF state
<1>5. /\ caller' \in [Callers -> {AtRest} \union Busy] /\ caller'[c] = state
      /\ \A d \in Callers : d # c => caller'[d] = caller[d]
  BY <1>2, <1>3, <1>4, OneCaller
<1>6. CalendarTypeOK'
  BY <1>2, <1>3, <1>5 DEF CalendarTypeOK
<1>7. IdsAreKept'
  <2>1. stage = "push" => connection \in GoogleUsers
    BY <1>1, <1>3 DEF CalendarTypeOK
  <2> QED
    BY <1>2, <1>3, <1>4, <1>5, <2>1 DEF IdsAreKept
<1>8. \A f \in AppEvents : EventsOf(f)' = EventsOf(f)
  BY <1>2 DEF EventsOf
<1>9. ASSUME NEW f \in AppEvents \ mixed'
      PROVE  EventFollows(f)'
  <2>1. CASE f # e
    BY <1>2, <1>4, <1>5, <1>8, <2>1, OtherEvents
  <2>2. CASE f = e
    <3>1. ~InUse(e) /\ e \notin mixed
      BY <1>2, <2>2
    <3>2. EventsOf(e) = {links[e]} \ {0} /\ \A d \in Callers : ~Handles(d, e)
      BY <3>1 DEF CalendarIInv, EventFollows, InUse
    <3> QED
      BY <1>2, <1>4, <1>5, <1>8, <2>2, <3>2, EventGoesOn
  <2> QED
    BY <2>1, <2>2
<1> QED
  BY <1>6, <1>7, <1>9 DEF CalendarIInv

\* Google has made an event, under an id of its own, and answers or is not heard.
LEMMA Inserts ==
    ASSUME CalendarIInv, NEW c \in Callers, Insert(c)
    PROVE  CalendarIInv'
<1>1. /\ caller[c] # AtRest /\ caller[c].stage = "push" /\ caller[c].id = 0 /\ made < MaxGoogle
      /\ made' = made + 1 /\ UNCHANGED <<connection, links>>
      /\ google' = google \union {[id |-> made + 1, of |-> caller[c].of, user |-> caller[c].user]}
      /\ \/ /\ caller' = [caller EXCEPT ![c].stage = "pushed", ![c].id = made + 1]
            /\ mixed' = mixed
         \/ /\ caller' = [caller EXCEPT ![c] = AtRest]
            /\ mixed' = mixed \union {caller[c].of}
  BY RestIsIdle DEF Insert, Lost
<1>2. PICK e \in AppEvents : caller[c].of = e
  BY <1>1, OwnEvent
<1>3. /\ CalendarTypeOK /\ IdsAreKept /\ Handles(c, e) /\ caller[c] \in Busy
      /\ e \notin mixed => EventFollows(e) /\ \A d \in Callers : d # c => ~Handles(d, e)
  BY <1>1, <1>2, OwnEvent
<1>4. PICK i \in GoogleIds : i = made + 1 /\ made \in Nat
  BY <1>1, <1>3, CalendarBounds DEF CalendarTypeOK, GoogleIds
<1>5. PICK user \in GoogleUsers : user = caller[c].user
  BY <1>1, <1>3 DEF IdsAreKept
<1> DEFINE new == [id |-> i, of |-> e, user |-> user]
<1>6. /\ google' = google \union {new} /\ new.id = i /\ new.of = e /\ new.user = user
      /\ new \in [id : GoogleIds, of : AppEvents, user : GoogleUsers]
  BY <1>1, <1>2, <1>4, <1>5
<1> HIDE DEF new
<1>7. /\ caller' \in [Callers -> {AtRest} \union Busy]
      /\ \A d \in Callers : d # c => caller'[d] = caller[d]
      /\ \/ caller'[c] = AtRest /\ mixed' = mixed \union {e}
         \/ /\ caller'[c] # AtRest /\ caller'[c].stage = "pushed" /\ caller'[c].of = e
            /\ caller'[c].id = i /\ mixed' = mixed
  <2>1. CASE caller' = [caller EXCEPT ![c] = AtRest] /\ mixed' = mixed \union {caller[c].of}
    BY <1>2, <1>3, <2>1, OneCaller
  <2>2. CASE caller' = [caller EXCEPT ![c].stage = "pushed", ![c].id = made + 1] /\ mixed' = mixed
    BY <1>2, <1>3, <1>4, <2>2, CallerGoesOn
  <2> QED
    BY <1>1, <2>1, <2>2
<1>8. CalendarTypeOK'
  <2>1. made' \in 0..MaxGoogle
    BY <1>1, <1>4, CalendarBounds
  <2> QED
    BY <1>1, <1>3, <1>6, <1>7, <2>1 DEF CalendarTypeOK
<1>9. IdsAreKept'
  <2>1. \A g \in google : g.id <= made /\ g.id \in Nat /\ g.id # i
    BY <1>3, <1>4 DEF IdsAreKept, CalendarTypeOK, GoogleIds
  <2>2. \A f \in AppEvents : links[f] <= made /\ links[f] \in Nat
    BY <1>3 DEF IdsAreKept, CalendarTypeOK, GoogleIds
  <2>3. \A d \in Callers : caller[d] # AtRest => caller[d].id <= made /\ caller[d].id \in Nat
    BY <1>3, CallerFields DEF IdsAreKept, GoogleIds
  <2>4. \A g \in google' :
         /\ g.id <= made'
         /\ \A h \in google' : h.id = g.id => h = g
         /\ \A f \in AppEvents : links'[f] = g.id => g.of = f
         /\ \A d \in Callers : caller'[d] # AtRest /\ caller'[d].id = g.id => g.of = caller'[d].of
    <3> SUFFICES ASSUME NEW g \in google'
                 PROVE  /\ g.id <= made'
                        /\ \A h \in google' : h.id = g.id => h = g
                        /\ \A f \in AppEvents : links'[f] = g.id => g.of = f
                        /\ \A d \in Callers :
                             caller'[d] # AtRest /\ caller'[d].id = g.id => g.of = caller'[d].of
      OBVIOUS
    <3>1. CASE g \in google
      BY <1>1, <1>3, <1>4, <1>6, <1>7, <2>1, <3>1 DEF IdsAreKept
    <3>2. CASE g = new
      BY <1>1, <1>3, <1>4, <1>6, <1>7, <2>1, <2>2, <2>3, <3>2
    <3> QED
      BY <1>6, <3>1, <3>2
  <2>5. \A f \in AppEvents : links'[f] <= made'
    BY <1>1, <1>4, <2>2
  <2>6. \A d \in Callers : caller'[d] # AtRest =>
          caller'[d].id <= made' /\ (caller'[d].stage = "push" => caller'[d].user \in GoogleUsers)
    BY <1>1, <1>3, <1>4, <1>7, <2>3 DEF IdsAreKept
  <2> QED
    BY <2>4, <2>5, <2>6 DEF IdsAreKept
<1>10. \A f \in AppEvents : EventsOf(f)' = IF f = e THEN EventsOf(f) \union {i} ELSE EventsOf(f)
  BY <1>6 DEF EventsOf
<1>11. ASSUME NEW f \in AppEvents \ mixed'
       PROVE  EventFollows(f)'
  <2>1. CASE f # e
    BY <1>1, <1>2, <1>7, <1>10, <2>1, OtherEvents
  <2>2. CASE f = e
    <3>1. /\ caller'[c] # AtRest /\ caller'[c].stage = "pushed" /\ caller'[c].of = e
          /\ caller'[c].id = i /\ mixed' = mixed
      BY <1>7, <2>2
    <3>2. EventsOf(e) = {}
      BY <1>1, <1>3, <2>2, <3>1 DEF EventFollows
    <3>3. EventsOf(e)' = {i} /\ i # 0
      BY <1>10, <3>2 DEF GoogleIds
    <3> QED
      BY <1>3, <1>7, <2>2, <3>1, <3>3, EventGoesOn
  <2> QED
    BY <2>1, <2>2
<1> QED
  BY <1>8, <1>9, <1>11 DEF CalendarIInv

\* Google has changed the event the link named.
LEMMA Patches ==
    ASSUME CalendarIInv, NEW c \in Callers, PatchEvent(c)
    PROVE  CalendarIInv'
<1>1. /\ caller[c] # AtRest /\ caller[c].stage = "push" /\ caller[c].id # 0
      /\ UNCHANGED <<connection, links, google, made, mixed>>
      /\ \/ caller' = [caller EXCEPT ![c] = AtRest]
         \/ caller' = [caller EXCEPT ![c].stage = "pushed"]
  BY RestIsIdle DEF PatchEvent
<1>2. PICK e \in AppEvents : caller[c].of = e
  BY <1>1, OwnEvent
<1>3. /\ CalendarTypeOK /\ IdsAreKept /\ Handles(c, e) /\ caller[c] \in Busy
      /\ e \notin mixed => EventFollows(e) /\ \A d \in Callers : d # c => ~Handles(d, e)
  BY <1>1, <1>2, OwnEvent
<1>4. CASE caller' = [caller EXCEPT ![c] = AtRest]
  BY <1>1, <1>4, CallerRests
<1>5. CASE caller' = [caller EXCEPT ![c].stage = "pushed"]
  <2>1. caller[c].id \in GoogleIds \union {0}
    BY <1>1, <1>3, CallerFields
  <2>2. /\ caller' \in [Callers -> {AtRest} \union Busy]
        /\ \A d \in Callers : d # c => caller'[d] = caller[d]
        /\ caller'[c] # AtRest /\ caller'[c].stage = "pushed" /\ caller'[c].of = e
        /\ caller'[c].id = caller[c].id
    BY <1>2, <1>3, <1>5, <2>1, CallerGoesOn
  <2>3. CalendarTypeOK'
    BY <1>1, <1>3, <2>2 DEF CalendarTypeOK
  <2>4. IdsAreKept'
    BY <1>1, <1>2, <1>3, <2>2 DEF IdsAreKept
  <2>5. \A f \in AppEvents : EventsOf(f)' = EventsOf(f)
    BY <1>1 DEF EventsOf
  <2>6. ASSUME NEW f \in AppEvents \ mixed'
        PROVE  EventFollows(f)'
    <3>1. CASE f # e
      BY <1>1, <1>2, <2>2, <2>5, <3>1, OtherEvents
    <3>2. CASE f = e
      <4>1. EventsOf(e) = {links[e]} \ {0} /\ caller[c].id = links[e]
        BY <1>1, <1>3, <3>2 DEF EventFollows
      <4> QED
        BY <1>1, <1>3, <2>2, <2>5, <3>2, <4>1, EventGoesOn
    <3> QED
      BY <3>1, <3>2
  <2> QED
    BY <2>3, <2>4, <2>6 DEF CalendarIInv
<1> QED
  BY <1>1, <1>4, <1>5

\* Google has deleted the event, had none by the id, or was not asked.
LEMMA Removes ==
    ASSUME CalendarIInv, NEW c \in Callers, DeleteAtGoogle(c) \/ CleanAtGoogle(c)
    PROVE  CalendarIInv'
<1>1. /\ caller[c] # AtRest /\ caller[c].stage \in {"delete", "clean"}
      /\ caller' = [caller EXCEPT ![c].stage = "deleted"] /\ UNCHANGED <<connection, links, made>>
      /\ \/ RemoveAtGoogle(c)
         \/ google' = google /\ mixed' = mixed \union {caller[c].of}
  BY RestIsIdle DEF DeleteAtGoogle, CleanAtGoogle, RemoveAtGoogle
<1>2. PICK e \in AppEvents : caller[c].of = e
  BY <1>1, OwnEvent
<1>3. /\ CalendarTypeOK /\ IdsAreKept /\ Handles(c, e) /\ caller[c] \in Busy
      /\ e \notin mixed => EventFollows(e) /\ \A d \in Callers : d # c => ~Handles(d, e)
      /\ caller[c].id \in GoogleIds \union {0}
  BY <1>1, <1>2, OwnEvent, CallerFields
<1>4. /\ caller' \in [Callers -> {AtRest} \union Busy]
      /\ \A d \in Callers : d # c => caller'[d] = caller[d]
      /\ caller'[c] # AtRest /\ caller'[c].stage = "deleted" /\ caller'[c].of = e
      /\ caller'[c].id = caller[c].id
  BY <1>1, <1>2, <1>3, CallerGoesOn
<1>5. /\ google' \subseteq google
      /\ \A g \in google \ google' : g.id = caller[c].id /\ g.of = e
      /\ mixed \subseteq mixed' /\ mixed' \subseteq mixed \union {e}
      /\ e \notin mixed' => \E g \in google \ google' : g.id = caller[c].id
  <2>1. CASE google' = google /\ mixed' = mixed \union {caller[c].of}
    BY <1>2, <2>1
  <2>2. CASE RemoveAtGoogle(c)
    <3>1. /\ google' = google \ OnCalendar(caller[c].user, caller[c].id)
          /\ mixed' = IF OnCalendar(caller[c].user, caller[c].id) = {}
                      THEN mixed \union {caller[c].of} ELSE mixed
      BY <2>2 DEF RemoveAtGoogle
    <3>2. \A g \in OnCalendar(caller[c].user, caller[c].id) : g \in google /\ g.id = caller[c].id
      BY DEF OnCalendar
    <3>3. \A g \in OnCalendar(caller[c].user, caller[c].id) : g.of = e
      BY <1>1, <1>2, <1>3, <3>2 DEF IdsAreKept
    <3> QED
      BY <1>2, <3>1, <3>2, <3>3
  <2> QED
    BY <1>1, <2>1, <2>2
<1>6. CalendarTypeOK'
  BY <1>1, <1>3, <1>4, <1>5 DEF CalendarTypeOK
<1>7. IdsAreKept'
  BY <1>1, <1>2, <1>3, <1>4, <1>5 DEF IdsAreKept
<1>8. \A f \in AppEvents : f # e => EventsOf(f)' = EventsOf(f)
  BY <1>5 DEF EventsOf
<1>9. ASSUME NEW f \in AppEvents \ mixed'
      PROVE  EventFollows(f)'
  <2>1. CASE f # e
    BY <1>1, <1>2, <1>4, <1>5, <1>8, <2>1, OtherEvents
  <2>2. CASE f = e
    <3>1. PICK g \in google \ google' : g.id = caller[c].id /\ g.of = e
      BY <1>5, <2>2
    <3>2. EventsOf(e) \subseteq {caller[c].id} /\ e \notin mixed
      BY <1>1, <1>3, <1>5, <2>2 DEF EventFollows
    <3>3. \A h \in google : h.of = e => h = g
      <4> SUFFICES ASSUME NEW h \in google, h.of = e
                   PROVE  h = g
        OBVIOUS
      <4>1. h.id \in EventsOf(e)
        BY DEF EventsOf
      <4> QED
        BY <1>3, <3>1, <3>2, <4>1 DEF IdsAreKept
    <3>4. EventsOf(e)' = {}
      BY <1>5, <3>1, <3>3 DEF EventsOf
    <3> QED
      BY <1>3, <1>4, <2>2, <3>2, <3>4, EventGoesOn
  <2> QED
    BY <2>1, <2>2
<1> QED
  BY <1>6, <1>7, <1>9 DEF CalendarIInv

\* What changes no event, link or request.
LEMMA Reconnects ==
    ASSUME CalendarIInv,
           \/ \E user \in GoogleUsers : Connect(user)
           \/ Disconnect
           \/ UNCHANGED calendarVars
    PROVE  CalendarIInv'
<1>1. /\ UNCHANGED <<links, google, made, caller, mixed>>
      /\ connection' \in GoogleUsers \union {"none"}
  BY DEF CalendarIInv, CalendarTypeOK, Connect, Disconnect, calendarVars
<1>2. CalendarTypeOK' /\ IdsAreKept'
  BY <1>1 DEF CalendarIInv, CalendarTypeOK, IdsAreKept
<1>3. ASSUME NEW e \in AppEvents \ mixed'
      PROVE  EventFollows(e)'
  <2>1. EventFollows(e)
    BY <1>1 DEF CalendarIInv
  <2> QED
    BY <1>1, <2>1 DEF EventFollows, EventsOf, Handles, InUse
<1> QED
  BY <1>2, <1>3 DEF CalendarIInv

\* CalendarIInv holds in every state: an id names one event wherever it is kept, and an event that
\* nothing has mixed up is where the one request about it has brought it.
THEOREM CalendarInvariance == CalendarSpec => []CalendarIInv
<1>1. CalendarInit => CalendarIInv
  <2> SUFFICES ASSUME CalendarInit
               PROVE  CalendarIInv
    OBVIOUS
  <2>1. CalendarTypeOK
    BY CalendarBounds DEF CalendarInit, CalendarTypeOK
  <2>2. IdsAreKept
    BY CalendarBounds DEF CalendarInit, IdsAreKept
  <2>3. ASSUME NEW e \in AppEvents
        PROVE  EventFollows(e)
    BY DEF CalendarInit, EventFollows, EventsOf, Handles, InUse
  <2> QED
    BY <2>1, <2>2, <2>3 DEF CalendarIInv
<1>2. CalendarIInv /\ [CalendarNext]_calendarVars => CalendarIInv'
  <2> SUFFICES ASSUME CalendarIInv, [CalendarNext]_calendarVars
               PROVE  CalendarIInv'
    OBVIOUS
  <2>1. CASE (\E user \in GoogleUsers : Connect(user)) \/ Disconnect \/ UNCHANGED calendarVars
    BY <2>1, Reconnects
  <2>2. ASSUME NEW c \in Callers, NEW e \in AppEvents,
               BeginPush(c, e) \/ BeginDelete(c, e) \/ BeginCleanup(c, e)
        PROVE  CalendarIInv'
    BY <2>2, Engages
  <2>3. ASSUME NEW c \in Callers, Insert(c)
        PROVE  CalendarIInv'
    BY <2>3, Inserts
  <2>4. ASSUME NEW c \in Callers, PatchEvent(c)
        PROVE  CalendarIInv'
    BY <2>4, Patches
  <2>5. ASSUME NEW c \in Callers, StoreLink(c) \/ DropLink(c)
        PROVE  CalendarIInv'
    BY <2>5, LinksUp
  <2>6. ASSUME NEW c \in Callers, DeleteAtGoogle(c) \/ CleanAtGoogle(c)
        PROVE  CalendarIInv'
    BY <2>6, Removes
  <2>7. ASSUME NEW c \in Callers, Refused(c) \/ DieHalfway(c)
        PROVE  CalendarIInv'
    BY <2>7, CallerRests, RestIsIdle DEF Refused, DieHalfway, Lost
  <2> QED
    BY <2>1, <2>2, <2>3, <2>4, <2>5, <2>6, <2>7 DEF CalendarNext
<1> QED
  BY <1>1, <1>2, PTL DEF CalendarSpec

\* CalendarAgrees: what Google has for an app event is the event its link names (calendar.py), and
\* nothing without a link, except while a request is about it and once requests overlapped, died
\* halfway, or met another account.
THEOREM GoogleAgrees == CalendarSpec => []CalendarAgrees
<1>1. CalendarIInv => CalendarAgrees
  BY DEF CalendarIInv, EventFollows, CalendarAgrees
<1> QED
  BY <1>1, CalendarInvariance, PTL

(***************************************************************************)
(* HandoverLink: the row of an exit handover.                              *)
(***************************************************************************)

RequestOps == {"submit", "upload", "stored", "purge", "patch"}
RequestStates == [op : RequestOps, item : Items \union {0}, copy : Handover]

\* What a request is, by its kind.
LEMMA RequestFields ==
    ASSUME HandoverTypeOK, NEW r \in Requests, request[r] # Nothing
    PROVE  /\ request[r] \in RequestStates
           /\ request[r].op \in RequestOps /\ request[r].item \in Items \union {0}
           /\ request[r].copy \in Handover
BY DEF HandoverTypeOK, RequestStates, RequestOps

LEMMA NothingHasNone == Nothing.op = "none"
BY DEF Nothing

\* What a row is.
LEMMA RowFields ==
    ASSUME NEW row \in Handover
    PROVE  row.link \in Links /\ row.creds \in Items \union {0} /\ row.files \in SUBSET Items
BY DEF Handover

\* The requests of the next state are those of this one, the same or with a change that
\* leaves their items and copies; whatever request ends is nobody's concern.
LEMMA RequestsKeep ==
    ASSUME HandoverIInv, HandoverTypeOK', library \subseteq library',
           brought' = brought,
           \A r \in Requests : request'[r] # Nothing =>
              /\ request[r] # Nothing /\ request'[r].item = request[r].item
              /\ request'[r].copy = request[r].copy
              /\ request'[r].op = "submit" => request[r].op = "submit"
              /\ request'[r].op = "upload" => request[r].op = "upload"
              /\ request'[r].op = "stored" => request[r].op = "stored" \/ request[r].item \in library',
           NEW ends \in SUBSET Requests,
           \A r \in ends : request'[r] = Nothing /\ request[r] # Nothing,
           \A i \in purged' : i \in purged \/ \E r \in ends : i = request[r].copy.creds,
           \/ handover'.creds \in {handover.creds, 0}
           \/ \E r \in ends : handover'.creds = request[r].copy.creds
           \/ \E r \in ends : handover'.creds = request[r].item /\ request[r].op = "submit",
           HandoverAddsUp'
    PROVE  HandoverIInv'
<1>1. /\ HandoverTypeOK /\ NothingElse
      /\ \A q \in Requests : OwnItem(q) /\ FileComes(q)
  BY DEF HandoverIInv
<1>2. brought \in Nat
  BY <1>1, HandoverBounds DEF HandoverTypeOK
<1>3. NothingElse'
  BY <1>1, <1>2 DEF NothingElse
<1>4. ASSUME NEW q \in Requests
      PROVE  OwnItem(q)' /\ FileComes(q)'
  <2>1. CASE request'[q] = Nothing
    BY <2>1, NothingHasNone DEF OwnItem, FileComes
  <2>2. CASE request'[q] # Nothing
    <3>1. FileComes(q)'
      BY <1>1, <2>2 DEF FileComes
    <3>2. ASSUME request'[q].op = "submit"
          PROVE  /\ request'[q].item \in 1..brought'
                 /\ request'[q].item \notin purged' /\ handover'.creds # request'[q].item
                 /\ \A p \in Requests : request'[p] # Nothing => request'[p].copy.creds # request'[q].item
                 /\ \A p \in Requests \ {q} : request'[p] # Nothing => request'[p].item # request'[q].item
      <4> DEFINE item == request[q].item
      <4>1. /\ item \in 1..brought /\ item \notin purged /\ handover.creds # item
            /\ \A p \in Requests : request[p] # Nothing => request[p].copy.creds # item
            /\ \A p \in Requests \ {q} : request[p] # Nothing => request[p].item # item
        BY <1>1, <2>2, <3>2 DEF OwnItem
      <4>2. request'[q].item = item /\ item # 0 /\ q \notin ends
        BY <1>2, <2>2, <4>1
      <4> HIDE DEF item
      <4>3. item \notin purged' /\ handover'.creds # item
        BY <4>1, <4>2
      <4> QED
        BY <4>1, <4>2, <4>3
    <3> QED
      BY <3>1, <3>2 DEF OwnItem
  <2> QED
    BY <2>1, <2>2
<1> QED
  BY <1>3, <1>4 DEF HandoverIInv

\* A request reads the row, and brings an item that nobody has.
LEMMA ReadsRow ==
    ASSUME HandoverIInv, NEW r \in Requests, NEW op \in {"submit", "upload", "purge", "patch"},
           Read(r, op)
    PROVE  HandoverIInv'
<1> DEFINE brings == op \in {"submit", "upload"}
           item == IF brings THEN brought' ELSE 0
           state == [op |-> op, item |-> item, copy |-> handover]
<1>1. /\ HandoverTypeOK /\ NothingElse /\ HandoverAddsUp
      /\ \A q \in Requests : OwnItem(q) /\ FileComes(q)
      /\ request[r] = Nothing /\ handover # NoHandover
      /\ request' = [request EXCEPT ![r] = state]
      /\ IF brings THEN brought < MaxItems /\ brought' = brought + 1 ELSE brought' = brought
      /\ UNCHANGED <<handover, open, library, sent, purged, accepted, undone>>
  BY DEF HandoverIInv, Read
<1>2. /\ brought \in Nat /\ brought' \in 0..MaxItems /\ brought <= brought'
      /\ brings => item = brought + 1 /\ item \in Items
      /\ ~brings => item = 0
      /\ item <= brought' /\ item \in Items \union {0}
  BY <1>1, HandoverBounds DEF HandoverTypeOK, Items
<1>3. handover \in Handover /\ handover.creds \in Items \union {0}
  BY <1>1, RowFields DEF HandoverTypeOK
<1> HIDE DEF item
<1>4. state \in RequestStates /\ state.op = op /\ state.item = item /\ state.copy = handover
  BY <1>2, <1>3 DEF RequestStates, RequestOps
<1> HIDE DEF state
<1>5. /\ request' \in [Requests -> {Nothing} \union RequestStates] /\ request'[r] = state
      /\ \A q \in Requests : q # r => request'[q] = request[q]
  BY <1>1, <1>4 DEF HandoverTypeOK, RequestStates, RequestOps
<1>6. HandoverTypeOK'
  BY <1>1, <1>2, <1>5 DEF HandoverTypeOK, RequestStates, RequestOps
<1>7. /\ handover.creds <= brought /\ \A i \in purged : i <= brought /\ i \in Nat
      /\ \A q \in Requests : request[q] # Nothing =>
           /\ request[q].item <= brought /\ request[q].copy.creds <= brought
           /\ request[q].item \in Nat /\ request[q].copy.creds \in Nat
  BY <1>1, RequestFields, RowFields DEF NothingElse, HandoverTypeOK, Items
<1>8. handover.creds \in Nat
  BY <1>3 DEF Items
<1>9. NothingElse'
  BY <1>1, <1>2, <1>4, <1>5, <1>7, <1>8 DEF NothingElse
<1>10. HandoverAddsUp'
  BY <1>1 DEF HandoverAddsUp
<1>11. ASSUME NEW q \in Requests
       PROVE  OwnItem(q)' /\ FileComes(q)'
  <2>1. CASE q = r
    <3>1. request'[q] = state /\ FileComes(q)'
      BY <1>2, <1>4, <1>5, <2>1 DEF FileComes
    <3>2. ASSUME op = "submit"
          PROVE  /\ item \in 1..brought' /\ item \notin purged' /\ handover'.creds # item
                 /\ \A p \in Requests : request'[p] # Nothing => request'[p].copy.creds # item
                 /\ \A p \in Requests \ {q} : request'[p] # Nothing => request'[p].item # item
      <4>1. item = brought + 1 /\ brought' = brought + 1
        BY <1>1, <1>2, <3>2
      <4>2. \A p \in Requests \ {r} : request'[p] # Nothing =>
              /\ request'[p].copy.creds <= brought /\ request'[p].item <= brought
              /\ request'[p].copy.creds \in Nat /\ request'[p].item \in Nat
        BY <1>5, <1>7
      <4>3. item \notin purged' /\ handover'.creds # item /\ item \in 1..brought'
        BY <1>1, <1>2, <1>7, <1>8, <4>1
      <4>4. request'[r].copy.creds # item
        BY <1>1, <1>4, <1>5, <4>3
      <4> QED
        BY <1>2, <2>1, <4>1, <4>2, <4>3, <4>4
    <3> QED
      BY <1>4, <3>1, <3>2 DEF OwnItem
  <2>2. CASE q # r
    <3>1. request'[q] = request[q] /\ FileComes(q)'
      BY <1>1, <1>5, <2>2 DEF FileComes
    <3>2. ASSUME request[q].op = "submit"
          PROVE  /\ request[q].item \in 1..brought'
                 /\ request[q].item \notin purged' /\ handover'.creds # request[q].item
                 /\ \A p \in Requests : request'[p] # Nothing => request'[p].copy.creds # request[q].item
                 /\ \A p \in Requests \ {q} : request'[p] # Nothing => request'[p].item # request[q].item
      <4>1. /\ request[q].item \in 1..brought /\ request[q].item \notin purged
            /\ handover.creds # request[q].item
            /\ \A p \in Requests : request[p] # Nothing => request[p].copy.creds # request[q].item
            /\ \A p \in Requests \ {q} : request[p] # Nothing => request[p].item # request[q].item
        BY <1>1, <3>2 DEF OwnItem
      <4>2. item # request[q].item
        BY <1>2, <4>1
      <4>3. \A p \in Requests : request'[p] # Nothing => request'[p].copy.creds # request[q].item
        BY <1>1, <1>4, <1>5, <4>1
      <4>4. \A p \in Requests \ {q} : request'[p] # Nothing => request'[p].item # request[q].item
        BY <1>4, <1>5, <4>1, <4>2
      <4>5. request[q].item \in 1..brought'
        BY <1>2, <4>1, <1>6 DEF HandoverTypeOK
      <4> QED
        BY <1>1, <4>1, <4>3, <4>4, <4>5
    <3> QED
      BY <1>1, <3>1, <3>2 DEF OwnItem
  <2> QED
    BY <2>1, <2>2
<1> QED
  BY <1>6, <1>9, <1>10, <1>11 DEF HandoverIInv

\* A file is in the documents before the row names it.
LEMMA StoresFile ==
    ASSUME HandoverIInv, NEW r \in Requests, StoreFile(r)
    PROVE  HandoverIInv'
<1>1. /\ HandoverTypeOK /\ HandoverAddsUp /\ FileComes(r)
      /\ request[r].op = "upload" /\ library' = library \union {request[r].item}
      /\ request' = [request EXCEPT ![r].op = "stored"]
      /\ UNCHANGED <<handover, open, brought, sent, purged, accepted, undone>>
  BY DEF HandoverIInv, StoreFile
<1>2. request[r] # Nothing /\ request[r] \in RequestStates
  BY <1>1, NothingHasNone, RequestFields
<1>3. PICK op \in RequestOps, item \in Items \union {0}, copy \in Handover :
        request[r] = [op |-> op, item |-> item, copy |-> copy]
  BY <1>2 DEF RequestStates
<1>4. request[r].item = item /\ request[r].copy = copy
  BY <1>3
<1> DEFINE state == [op |-> "stored", item |-> item, copy |-> copy]
<1>5. request' = [request EXCEPT ![r] = state]
  <2>1. [request[r] EXCEPT !.op = "stored"] = state
    BY <1>3
  <2>2. request' = [request EXCEPT ![r] = [request[r] EXCEPT !.op = "stored"]]
    BY <1>1 DEF HandoverTypeOK
  <2> QED
    BY <2>1, <2>2
<1>6. state \in RequestStates /\ state.op = "stored" /\ state.item = item /\ state.copy = copy
  BY DEF RequestStates, RequestOps
<1> HIDE DEF state
<1>7. /\ request' \in [Requests -> {Nothing} \union RequestStates] /\ request'[r] = state
      /\ \A q \in Requests : q # r => request'[q] = request[q]
  BY <1>1, <1>5, <1>6 DEF HandoverTypeOK, RequestStates, RequestOps
<1>8. item \in Items
  BY <1>1, <1>4 DEF FileComes
<1>9. HandoverTypeOK'
  BY <1>1, <1>4, <1>7, <1>8 DEF HandoverTypeOK, RequestStates, RequestOps
<1>10. HandoverAddsUp'
  BY <1>1 DEF HandoverAddsUp
<1>11. \A q \in Requests : request'[q] # Nothing =>
         /\ request[q] # Nothing /\ request'[q].item = request[q].item
         /\ request'[q].copy = request[q].copy
         /\ request'[q].op = "submit" => request[q].op = "submit"
         /\ request'[q].op = "upload" => request[q].op = "upload"
         /\ request'[q].op = "stored" => request[q].op = "stored" \/ request[q].item \in library'
  BY <1>1, <1>2, <1>4, <1>6, <1>7
<1> DEFINE ends == {}
<1>12. /\ ends \in SUBSET Requests
       /\ \A q \in ends : request'[q] = Nothing /\ request[q] # Nothing
       /\ \A i \in purged' : i \in purged \/ \E q \in ends : i = request[q].copy.creds
  BY <1>1
<1>13. library \subseteq library' /\ brought' = brought /\ handover'.creds \in {handover.creds, 0}
  BY <1>1
<1> HIDE DEF ends
<1> QED
  BY <1>9, <1>10, <1>11, <1>12, <1>13, RequestsKeep

\* The copy with its change becomes the row: what differs from the copy is accounted undone.
LEMMA Replaces ==
    ASSUME HandoverIInv, NEW r \in Requests, request[r] # Nothing,
           NEW changed \in Handover, Replace(r, changed),
           request[r].copy.files \subseteq changed.files,
           \/ changed.creds \in {request[r].copy.creds, 0}
           \/ changed.creds = request[r].item /\ request[r].op = "submit",
           \/ purged' = purged
           \/ purged' = purged \union ({request[r].copy.creds} \ {0}) /\ changed.creds = 0,
           \/ accepted' = accepted
           \/ /\ accepted' \subseteq accepted \union {request[r].item}
              /\ request[r].item \in library /\ request[r].item \in changed.files
    PROVE  HandoverIInv'
<1> DEFINE copy == request[r].copy
<1>1. /\ HandoverTypeOK /\ HandoverAddsUp /\ OwnItem(r)
      /\ handover' = changed
      /\ undone' = undone \union (handover.files \ copy.files)
                          \union (IF handover.creds = copy.creds THEN {} ELSE {copy.creds} \ {0})
      /\ request' = [request EXCEPT ![r] = Nothing]
      /\ UNCHANGED <<open, library, brought, sent>>
  BY DEF HandoverIInv, Replace
<1>2. /\ copy \in Handover /\ copy.creds \in Items \union {0} /\ copy.files \in SUBSET Items
      /\ changed.creds \in Items \union {0} /\ changed.files \in SUBSET Items
  BY <1>1, RequestFields, RowFields
<1>3. handover.files \in SUBSET Items /\ 0 \notin Items
  <2>1. NoHandover.files = {}
    BY DEF NoHandover
  <2> QED
    BY <1>1, <2>1, RowFields DEF HandoverTypeOK, Items
<1> HIDE DEF copy
<1>4. /\ \A q \in Requests : q # r => request'[q] = request[q]
      /\ request'[r] = Nothing
  BY <1>1 DEF HandoverTypeOK
<1>5. HandoverTypeOK'
  <2>1. /\ accepted' \subseteq Items /\ purged' \subseteq Items /\ undone' \subseteq Items
    BY <1>1, <1>2, <1>3 DEF HandoverTypeOK, copy
  <2>2. request' \in [Requests -> {Nothing} \union
           [op : {"submit", "upload", "stored", "purge", "patch"}, item : Items \union {0},
            copy : Handover]]
    BY <1>1 DEF HandoverTypeOK
  <2> QED
    BY <1>1, <2>1, <2>2 DEF HandoverTypeOK
<1>6. handover'.creds \notin purged' \ undone'
  <2>1. CASE changed.creds = 0
    BY <1>1, <1>3, <1>5, <2>1 DEF HandoverTypeOK
  <2>2. CASE changed.creds # 0
    <3>1. purged' = purged
      BY <2>2
    <3>2. CASE changed.creds = copy.creds
      BY <1>1, <2>2, <3>1, <3>2 DEF HandoverAddsUp
    <3>3. CASE changed.creds = request[r].item /\ request[r].op = "submit"
      BY <1>1, <3>1, <3>3 DEF OwnItem
    <3> QED
      BY <2>2, <3>2, <3>3 DEF copy
  <2> QED
    BY <2>1, <2>2
<1>7. accepted' \ undone' \subseteq handover'.files \intersect library'
  <2>1. ASSUME NEW i \in accepted, i \notin undone'
        PROVE  i \in changed.files /\ i \in library
    BY <1>1, <2>1 DEF HandoverAddsUp, copy
  <2> QED
    BY <1>1, <2>1
<1>8. HandoverAddsUp'
  BY <1>6, <1>7 DEF HandoverAddsUp
<1>9. \A q \in Requests : request'[q] # Nothing => q # r /\ request'[q] = request[q]
  BY <1>4
<1> DEFINE ends == {r}
<1>10. \A i \in purged' : i \in purged \/ \E q \in ends : i = request[q].copy.creds
  BY DEF copy
<1>11. \/ handover'.creds \in {handover.creds, 0}
       \/ \E q \in ends : handover'.creds = request[q].copy.creds
       \/ \E q \in ends : handover'.creds = request[q].item /\ request[q].op = "submit"
  BY <1>1 DEF copy
<1>12. ends \in SUBSET Requests /\ \A q \in ends : request'[q] = Nothing /\ request[q] # Nothing
  BY <1>4
<1>13. library \subseteq library' /\ brought' = brought
  BY <1>1
<1> HIDE DEF ends
<1> QED
  BY <1>5, <1>8, <1>9, <1>10, <1>11, <1>12, <1>13, RequestsKeep

\* The four writes of the row.
LEMMA WritesRow ==
    ASSUME HandoverIInv, NEW r \in Requests,
           SubmitCredentials(r) \/ RecordUpload(r) \/ Purge(r) \/ Patch(r)
    PROVE  HandoverIInv'
<1>1. request[r] # Nothing
  BY NothingHasNone DEF SubmitCredentials, RecordUpload, Purge, Patch
<1>2. HandoverTypeOK /\ FileComes(r) /\ OwnItem(r)
  BY DEF HandoverIInv
<1>3. request[r].copy \in Handover /\ request[r].item \in Items \union {0}
  BY <1>1, <1>2, RequestFields
<1>4. PICK l \in Links, k \in Items \union {0}, fs \in SUBSET Items :
        request[r].copy = [link |-> l, creds |-> k, files |-> fs]
  BY <1>3 DEF Handover
<1>5. request[r].copy.creds = k /\ request[r].copy.files = fs
  BY <1>4
<1>6. CASE SubmitCredentials(r)
  <2> DEFINE changed == [link |-> l, creds |-> request[r].item, files |-> fs]
  <2>1. [request[r].copy EXCEPT !.creds = request[r].item] = changed
    BY <1>4
  <2>2. changed \in Handover /\ changed.files = fs /\ changed.creds = request[r].item
    BY <1>3 DEF Handover
  <2>3. /\ Replace(r, changed) /\ purged' = purged /\ accepted' = accepted
        /\ request[r].op = "submit"
    BY <1>6, <2>1 DEF SubmitCredentials
  <2> HIDE DEF changed
  <2> QED
    BY <1>1, <1>5, <2>2, <2>3, Replaces
<1>7. CASE RecordUpload(r)
  <2> DEFINE changed == [link |-> l, creds |-> k, files |-> fs \union {request[r].item}]
  <2>1. [request[r].copy EXCEPT !.files = @ \union {request[r].item}] = changed
    BY <1>4
  <2>2. request[r].op = "stored" /\ request[r].item \in library /\ library \subseteq Items
    BY <1>2, <1>7 DEF RecordUpload, FileComes, HandoverTypeOK
  <2>3. changed \in Handover /\ changed.files = fs \union {request[r].item} /\ changed.creds = k
    BY <2>2 DEF Handover
  <2>4. /\ Replace(r, changed) /\ purged' = purged
        /\ accepted' \subseteq accepted \union {request[r].item}
    BY <1>7, <2>1 DEF RecordUpload
  <2> HIDE DEF changed
  <2>5. /\ request[r].copy.files \subseteq changed.files
        /\ \/ changed.creds \in {request[r].copy.creds, 0}
           \/ changed.creds = request[r].item /\ request[r].op = "submit"
        /\ \/ purged' = purged
           \/ purged' = purged \union ({request[r].copy.creds} \ {0}) /\ changed.creds = 0
        /\ \/ accepted' = accepted
           \/ /\ accepted' \subseteq accepted \union {request[r].item}
              /\ request[r].item \in library /\ request[r].item \in changed.files
    BY <1>5, <2>2, <2>3, <2>4
  <2> QED
    BY <1>1, <2>3, <2>4, <2>5, Replaces
<1>8. CASE Purge(r)
  <2> DEFINE changed == [link |-> l, creds |-> 0, files |-> fs]
  <2>1. [request[r].copy EXCEPT !.creds = 0] = changed
    BY <1>4
  <2>2. changed \in Handover /\ changed.files = fs /\ changed.creds = 0
    BY DEF Handover
  <2>3. /\ Replace(r, changed) /\ purged' = purged \union ({request[r].copy.creds} \ {0})
        /\ accepted' = accepted
    BY <1>8, <2>1 DEF Purge
  <2> HIDE DEF changed
  <2>4. /\ request[r].copy.files \subseteq changed.files
        /\ \/ changed.creds \in {request[r].copy.creds, 0}
           \/ changed.creds = request[r].item /\ request[r].op = "submit"
        /\ \/ purged' = purged
           \/ purged' = purged \union ({request[r].copy.creds} \ {0}) /\ changed.creds = 0
        /\ \/ accepted' = accepted
           \/ /\ accepted' \subseteq accepted \union {request[r].item}
              /\ request[r].item \in library /\ request[r].item \in changed.files
    BY <1>5, <2>2, <2>3
  <2> QED
    BY <1>1, <2>2, <2>3, <2>4, Replaces
<1>9. CASE Patch(r)
  <2>1. Replace(r, request[r].copy) /\ purged' = purged /\ accepted' = accepted
    BY <1>9 DEF Patch
  <2> DEFINE changed == request[r].copy
  <2>2. /\ changed \in Handover /\ Replace(r, changed)
        /\ request[r].copy.files \subseteq changed.files
        /\ \/ changed.creds \in {request[r].copy.creds, 0}
           \/ changed.creds = request[r].item /\ request[r].op = "submit"
        /\ \/ purged' = purged
           \/ purged' = purged \union ({request[r].copy.creds} \ {0}) /\ changed.creds = 0
        /\ \/ accepted' = accepted
           \/ /\ accepted' \subseteq accepted \union {request[r].item}
              /\ request[r].item \in library /\ request[r].item \in changed.files
    BY <1>3, <2>1
  <2> HIDE DEF changed
  <2> QED
    BY <1>1, <2>1, <2>2, Replaces
<1> QED
  BY <1>6, <1>7, <1>8, <1>9

\* HR sends a new link, a link runs out, a request is refused, or nothing happens.
LEMMA RowGoesOn ==
    ASSUME HandoverIInv,
           Send \/ Expire \/ (\E r \in Requests : Abandon(r)) \/ UNCHANGED handoverVars
    PROVE  HandoverIInv'
<1>1. /\ HandoverTypeOK /\ HandoverAddsUp
      /\ UNCHANGED <<library, brought, purged, undone>>
      /\ \/ request' = request
         \/ \E r \in Requests : request' = [request EXCEPT ![r] = Nothing]
  BY DEF HandoverIInv, Send, Expire, Abandon, handoverVars
<1>2. /\ \A q \in Requests : request'[q] # Nothing => request'[q] = request[q] /\ request[q] # Nothing
      /\ request' \in [Requests -> {Nothing} \union
           [op : {"submit", "upload", "stored", "purge", "patch"}, item : Items \union {0},
            copy : Handover]]
  BY <1>1 DEF HandoverTypeOK
<1>3. HandoverTypeOK' /\ HandoverAddsUp' /\ handover'.creds \in {handover.creds, 0}
  <2>1. CASE Send
    <3> DEFINE row == [link |-> sent', creds |-> 0, files |-> {}]
    <3>1. sent' = sent + 1 /\ sent < MaxLinks /\ open' = TRUE /\ accepted' = {}
      BY <2>1 DEF Send
    <3>2. sent' \in Links /\ sent' \in 0..MaxLinks
      BY <1>1, <3>1, HandoverBounds DEF HandoverTypeOK, Links
    <3>3. handover' = row
      BY <2>1 DEF Send, NoHandover
    <3>4. row \in Handover /\ row.creds = 0 /\ row.files = {}
      BY <3>2 DEF Handover
    <3> HIDE DEF row
    <3>5. HandoverTypeOK'
      BY <1>1, <1>2, <3>1, <3>2, <3>3, <3>4 DEF HandoverTypeOK
    <3>6. 0 \notin purged
      BY <1>1 DEF HandoverTypeOK, Items
    <3> QED
      BY <1>1, <3>1, <3>3, <3>4, <3>5, <3>6 DEF HandoverAddsUp
  <2>2. CASE ~Send
    <3>1. UNCHANGED <<handover, sent, accepted>> /\ open' \in BOOLEAN
      BY <1>1, <2>2 DEF Expire, Abandon, handoverVars, HandoverTypeOK
    <3> QED
      BY <1>1, <1>2, <3>1 DEF HandoverTypeOK, HandoverAddsUp
  <2> QED
    BY <2>1, <2>2
<1> DEFINE ends == {}
<1>4. /\ ends \in SUBSET Requests
      /\ \A r \in ends : request'[r] = Nothing /\ request[r] # Nothing
      /\ \A i \in purged' : i \in purged \/ \E r \in ends : i = request[r].copy.creds
  BY <1>1
<1> HIDE DEF ends
<1> QED
  BY <1>1, <1>2, <1>3, <1>4, RequestsKeep

\* HandoverIInv holds in every state: what a request has brought and not yet written is nowhere
\* else, and a file is in the documents before the row names it.
THEOREM HandoverInvariance == HandoverSpec => []HandoverIInv
<1>1. HandoverInit => HandoverIInv
  <2> SUFFICES ASSUME HandoverInit
               PROVE  HandoverIInv
    OBVIOUS
  <2>1. NoHandover.creds = 0 /\ NoHandover.files = {}
    BY DEF NoHandover
  <2>2. HandoverTypeOK
    <3>1. request \in [Requests -> {Nothing} \union
            [op : {"submit", "upload", "stored", "purge", "patch"}, item : Items \union {0},
             copy : Handover]]
      BY DEF HandoverInit
    <3>2. brought \in 0..MaxItems /\ sent \in 0..MaxLinks
      BY HandoverBounds DEF HandoverInit
    <3> QED
      BY <3>1, <3>2 DEF HandoverInit, HandoverTypeOK
  <2>3. NothingElse /\ HandoverAddsUp
    BY <2>1 DEF HandoverInit, NothingElse, HandoverAddsUp
  <2>4. ASSUME NEW r \in Requests
        PROVE  OwnItem(r) /\ FileComes(r)
    BY NothingHasNone DEF HandoverInit, OwnItem, FileComes
  <2> QED
    BY <2>2, <2>3, <2>4 DEF HandoverIInv
<1>2. HandoverIInv /\ [HandoverNext]_handoverVars => HandoverIInv'
  <2> SUFFICES ASSUME HandoverIInv, [HandoverNext]_handoverVars
               PROVE  HandoverIInv'
    OBVIOUS
  <2>1. CASE Send \/ Expire \/ (\E r \in Requests : Abandon(r)) \/ UNCHANGED handoverVars
    BY <2>1, RowGoesOn
  <2>2. ASSUME NEW r \in Requests, NEW op \in {"submit", "upload", "purge", "patch"}, Read(r, op)
        PROVE  HandoverIInv'
    BY <2>2, ReadsRow
  <2>3. ASSUME NEW r \in Requests, StoreFile(r)
        PROVE  HandoverIInv'
    BY <2>3, StoresFile
  <2>4. ASSUME NEW r \in Requests,
               SubmitCredentials(r) \/ RecordUpload(r) \/ Purge(r) \/ Patch(r)
        PROVE  HandoverIInv'
    BY <2>4, WritesRow
  <2> QED
    BY <2>1, <2>2, <2>3, <2>4 DEF HandoverNext
<1> QED
  BY <1>1, <1>2, PTL DEF HandoverSpec

\* HandoverAddsUp: credentials that HR purged stay purged (exit_handover.py), and a file that was
\* answered 201 is on the handover and in the documents, except what a stale copy of the row put
\* back or left out.
THEOREM HandoverStandsUp == HandoverSpec => []HandoverAddsUp
<1>1. HandoverIInv => HandoverAddsUp
  BY DEF HandoverIInv
<1> QED
  BY <1>1, HandoverInvariance, PTL

(***************************************************************************)
(* JoiningLink: the row of a joining confirmation.                         *)
(***************************************************************************)

\* What a visit is, by its kind.
LEMMA VisitFields ==
    ASSUME JoiningTypeOK, NEW r \in Visits, visit[r] # NoVisit
    PROVE  /\ visit[r].op \in {"answer", "photo", "stored", "edit"}
           /\ visit[r].sets \in SUBSET Fields /\ visit[r].item \in Brought
           /\ visit[r].copy \in Record
BY DEF JoiningTypeOK

LEMMA NoVisitHasNone == NoVisit.op = "none"
BY DEF NoVisit

\* A visit that sends nothing to the row: it reads it, stores its photo or ends.
LEMMA ReadsForm ==
    ASSUME JoiningIInv, NEW r \in Visits, NEW op \in {"answer", "photo", "edit"},
           NEW sets \in SUBSET Fields, ReadForm(r, op, sets),
           sets \subseteq (IF op = "answer" THEN _CANDIDATE_WRITABLE
                           ELSE IF op = "photo" THEN {"photo"} ELSE {"terms"}),
           op = "photo" => sets = {"photo"}
    PROVE  JoiningIInv'
<1> DEFINE state == [op |-> op, sets |-> sets, item |-> offered', copy |-> record]
<1>1. /\ JoiningTypeOK /\ OwnersLast /\ OwnFields
      /\ offered' = offered + 1 /\ offered < MaxBrought
      /\ visit' = [visit EXCEPT ![r] = state]
      /\ UNCHANGED <<record, lapsed, photos, latest, lost>>
  BY DEF JoiningIInv, ReadForm
<1>2. offered' \in Brought /\ offered' \in 0..MaxBrought
  BY <1>1, JoiningBounds DEF JoiningTypeOK, Brought
<1>3. /\ state \in [op : {"answer", "photo", "stored", "edit"}, sets : SUBSET Fields,
                    item : Brought, copy : Record]
      /\ state.op = op /\ state.sets = sets /\ state.copy = record
  BY <1>1, <1>2 DEF JoiningTypeOK
<1> HIDE DEF state
<1>4. JoiningTypeOK'
  BY <1>1, <1>2, <1>3 DEF JoiningTypeOK
<1>5. OwnersLast'
  BY <1>1 DEF OwnersLast
<1>6. OwnFields'
  <2>1. record'.photo \in photos' \union {0}
    BY <1>1 DEF OwnFields
  <2>2. ASSUME NEW q \in Visits, visit'[q] # NoVisit
        PROVE  /\ visit'[q].op = "photo" => visit'[q].sets = {"photo"}
               /\ visit'[q].op # "photo" => visit'[q].sets \subseteq OfOp[visit'[q].op]
               /\ visit'[q].op = "stored" => visit'[q].item \in photos'
               /\ visit'[q].copy.photo \in photos' \union {0}
    <3>1. CASE q = r
      <4>1. visit'[q] = state
        BY <1>1, <3>1 DEF JoiningTypeOK
      <4>2. op # "photo" => sets \subseteq OfOp[op]
        BY DEF OfOp
      <4> QED
        BY <1>1, <1>3, <2>1, <4>1, <4>2
    <3>2. CASE q # r
      BY <1>1, <2>2, <3>2 DEF JoiningTypeOK, OwnFields
    <3> QED
      BY <3>1, <3>2
  <2> QED
    BY <2>1, <2>2 DEF OwnFields
<1> QED
  BY <1>4, <1>5, <1>6 DEF JoiningIInv

\* The photo is in the documents before the row names it.
LEMMA StoresPhoto ==
    ASSUME JoiningIInv, NEW r \in Visits, StorePhoto(r)
    PROVE  JoiningIInv'
<1>1. /\ JoiningTypeOK /\ OwnersLast /\ OwnFields
      /\ visit[r].op = "photo" /\ photos' = photos \union {visit[r].item}
      /\ visit' = [visit EXCEPT ![r].op = "stored"]
      /\ UNCHANGED <<record, lapsed, offered, latest, lost>>
  BY DEF JoiningIInv, StorePhoto
<1>2. PICK op \in {"answer", "photo", "stored", "edit"}, sets \in SUBSET Fields,
           item \in Brought, copy \in Record :
         visit[r] = [op |-> op, sets |-> sets, item |-> item, copy |-> copy]
  BY <1>1, NoVisitHasNone DEF JoiningTypeOK
<1> DEFINE state == [op |-> "stored", sets |-> sets, item |-> item, copy |-> copy]
<1>3. visit' = [visit EXCEPT ![r] = state]
  <2>1. [visit[r] EXCEPT !.op = "stored"] = state
    BY <1>2
  <2>2. visit' = [visit EXCEPT ![r] = [visit[r] EXCEPT !.op = "stored"]]
    BY <1>1 DEF JoiningTypeOK
  <2> QED
    BY <2>1, <2>2
<1>4. /\ state \in [op : {"answer", "photo", "stored", "edit"}, sets : SUBSET Fields,
                    item : Brought, copy : Record]
      /\ state.op = "stored" /\ state.sets = sets /\ state.item = item /\ state.copy = copy
  OBVIOUS
<1>5. visit[r].sets = sets /\ visit[r].item = item /\ visit[r].copy = copy /\ visit[r] # NoVisit
  BY <1>1, <1>2, NoVisitHasNone
<1> HIDE DEF state
<1>6. JoiningTypeOK'
  BY <1>1, <1>3, <1>4, <1>5 DEF JoiningTypeOK
<1>7. OwnersLast'
  BY <1>1 DEF OwnersLast
<1>8. OwnFields'
  <2>1. record'.photo \in photos' \union {0}
    BY <1>1 DEF OwnFields
  <2>2. ASSUME NEW q \in Visits, visit'[q] # NoVisit
        PROVE  /\ visit'[q].op = "photo" => visit'[q].sets = {"photo"}
               /\ visit'[q].op # "photo" => visit'[q].sets \subseteq OfOp[visit'[q].op]
               /\ visit'[q].op = "stored" => visit'[q].item \in photos'
               /\ visit'[q].copy.photo \in photos' \union {0}
    <3>1. CASE q = r
      <4>1. visit'[q] = state
        BY <1>1, <1>3, <3>1 DEF JoiningTypeOK
      <4>2. OfOp["stored"] = {"photo"}
        BY DEF OfOp
      <4>3. sets = {"photo"} /\ copy.photo \in photos \union {0}
        BY <1>1, <1>5 DEF OwnFields
      <4> QED
        BY <1>1, <1>4, <1>5, <4>1, <4>2, <4>3
    <3>2. CASE q # r
      BY <1>1, <1>3, <2>2, <3>2 DEF JoiningTypeOK, OwnFields
    <3> QED
      BY <3>1, <3>2
  <2> QED
    BY <2>1, <2>2 DEF OwnFields
<1> QED
  BY <1>6, <1>7, <1>8 DEF JoiningIInv

\* The copy with its changes becomes the row: what differs from the copy is accounted lost.
LEMMA WritesForm ==
    ASSUME JoiningIInv, NEW r \in Visits, Write(r)
    PROVE  JoiningIInv'
<1> DEFINE copy == visit[r].copy
           sets == visit[r].sets
           item == visit[r].item
           stale == {f \in Fields : record[f] # copy[f]}
<1>1. /\ JoiningTypeOK /\ OwnersLast /\ OwnFields
      /\ visit[r].op \in {"answer", "stored", "edit"}
      /\ record' = [f \in Fields |-> IF f \in sets THEN item ELSE copy[f]]
      /\ latest' = [f \in Fields |-> IF f \in sets \intersect OfOp[visit[r].op] THEN item ELSE latest[f]]
      /\ lost' = lost \union (({record[f] : f \in stale} \union {copy[f] : f \in stale}) \ {0})
                      \union (IF Exists THEN {} ELSE {item})
      /\ visit' = [visit EXCEPT ![r] = NoVisit]
      /\ UNCHANGED <<lapsed, photos, offered>>
  BY DEF JoiningIInv, Write
<1>2. /\ visit[r] # NoVisit /\ item \in Brought /\ copy \in Record /\ sets \in SUBSET Fields
  BY <1>1, VisitFields, NoVisitHasNone
<1>3. sets \subseteq OfOp[visit[r].op]
  BY <1>1, <1>2 DEF OwnFields
<1> HIDE DEF copy, sets, item
<1>4. record' \in Record /\ latest' \in Record
  BY <1>1, <1>2 DEF JoiningTypeOK, Record
<1>5. lost' \subseteq Brought
  BY <1>1, <1>2 DEF JoiningTypeOK, Record
<1>6. JoiningTypeOK'
  BY <1>1, <1>4, <1>5 DEF JoiningTypeOK
<1>7. ASSUME NEW f \in Fields, record'[f] # latest'[f]
      PROVE  {record'[f], latest'[f]} \subseteq lost' \union {0}
  <2>1. f \notin sets /\ record'[f] = copy[f] /\ latest'[f] = latest[f]
    BY <1>1, <1>3, <1>7
  <2>2. CASE record[f] = copy[f]
    BY <1>1, <1>7, <2>1, <2>2 DEF OwnersLast
  <2>3. CASE record[f] # copy[f]
    <3>1. f \in stale
      BY <2>3
    <3>2. {record[f], copy[f]} \subseteq lost' \union {0}
      BY <1>1, <3>1
    <3>3. latest[f] \in lost' \union {0}
      BY <1>1, <3>2 DEF OwnersLast
    <3> QED
      BY <2>1, <3>2, <3>3
  <2> QED
    BY <2>2, <2>3
<1>8. OwnFields'
  <2>1. record'.photo \in photos' \union {0}
    <3>1. copy.photo \in photos \union {0} /\ (visit[r].op = "stored" => item \in photos)
      BY <1>1, <1>2 DEF OwnFields, copy, item
    <3>2. "photo" \in Fields /\ ("photo" \in sets => visit[r].op = "stored")
      BY <1>1, <1>3 DEF OfOp, _CANDIDATE_WRITABLE, Fields
    <3> QED
      BY <1>1, <3>1, <3>2
  <2>2. \A q \in Visits : visit'[q] # NoVisit => visit'[q] = visit[q] /\ visit[q] # NoVisit
    BY <1>1 DEF JoiningTypeOK
  <2> QED
    BY <1>1, <2>1, <2>2 DEF OwnFields
<1> QED
  BY <1>6, <1>7, <1>8 DEF JoiningIInv, OwnersLast

\* What HR does to the row, and what leaves row and photos as they are.
LEMMA FormGoesOn ==
    ASSUME JoiningIInv,
           \/ SendForm \/ Delete \/ RunOut \/ UNCHANGED joiningVars
           \/ \E r \in Visits : Leave(r)
    PROVE  JoiningIInv'
<1>1. /\ JoiningTypeOK /\ OwnersLast /\ OwnFields /\ photos' = photos /\ lost' = lost
      /\ \/ visit' = visit
         \/ \E r \in Visits : visit' = [visit EXCEPT ![r] = NoVisit]
  BY DEF JoiningIInv, SendForm, Delete, RunOut, Leave, joiningVars
<1>2. /\ visit' \in [Visits -> {NoVisit} \union
           [op : {"answer", "photo", "stored", "edit"}, sets : SUBSET Fields, item : Brought,
            copy : Record]]
      /\ \A q \in Visits : visit'[q] # NoVisit => visit'[q] = visit[q] /\ visit[q] # NoVisit
  BY <1>1 DEF JoiningTypeOK
<1>3. /\ NoRecord \in Record /\ NoRecord.photo = 0
      /\ \A i \in Brought : LET row == [NoRecord EXCEPT !.terms = i]
                            IN  row \in Record /\ row.photo = 0
  BY DEF NoRecord, Record, Fields
<1>4. /\ record' \in Record /\ latest' \in Record /\ lapsed' \subseteq Brought
      /\ offered' \in 0..MaxBrought
      /\ record' = latest' \/ (record' = record /\ latest' = latest)
      /\ record'.photo \in {record.photo, 0}
  <2>1. CASE SendForm
    <3>1. offered' \in Brought /\ offered' \in 0..MaxBrought
      BY <1>1, <2>1, JoiningBounds DEF SendForm, JoiningTypeOK, Brought
    <3> QED
      BY <1>1, <1>3, <2>1, <3>1 DEF SendForm, JoiningTypeOK
  <2>2. CASE Delete
    BY <1>1, <1>3, <2>2 DEF Delete, JoiningTypeOK
  <2>3. CASE RunOut
    <3>1. record.terms \in Brought
      BY <1>1, <2>3 DEF RunOut, Exists, JoiningTypeOK, Record, Fields
    <3> QED
      BY <1>1, <2>3, <3>1 DEF RunOut, JoiningTypeOK
  <2>4. CASE UNCHANGED joiningVars \/ \E r \in Visits : Leave(r)
    BY <1>1, <2>4 DEF Leave, joiningVars, JoiningTypeOK
  <2> QED
    BY <2>1, <2>2, <2>3, <2>4
<1>5. JoiningTypeOK'
  BY <1>1, <1>2, <1>4 DEF JoiningTypeOK
<1>6. OwnersLast'
  BY <1>1, <1>4 DEF OwnersLast
<1>7. OwnFields'
  BY <1>1, <1>2, <1>4 DEF OwnFields
<1> QED
  BY <1>5, <1>6, <1>7 DEF JoiningIInv

\* JoiningIInv holds in every state: a field that does not hold what its owner wrote last has lost
\* both values to a stale copy, and nobody's copy changes a field of somebody else.
THEOREM JoiningInvariance == JoiningSpec => []JoiningIInv
<1>1. JoiningInit => JoiningIInv
  <2> SUFFICES ASSUME JoiningInit
               PROVE  JoiningIInv
    OBVIOUS
  <2>1. NoRecord \in Record /\ NoRecord.photo = 0
    BY DEF NoRecord, Record, Fields
  <2>2. JoiningTypeOK
    BY <2>1, JoiningBounds DEF JoiningInit, JoiningTypeOK
  <2>3. OwnersLast
    BY DEF JoiningInit, OwnersLast
  <2>4. OwnFields
    BY <2>1 DEF JoiningInit, OwnFields
  <2> QED
    BY <2>2, <2>3, <2>4 DEF JoiningIInv
<1>2. JoiningIInv /\ [JoiningNext]_joiningVars => JoiningIInv'
  <2> SUFFICES ASSUME JoiningIInv, [JoiningNext]_joiningVars
               PROVE  JoiningIInv'
    OBVIOUS
  <2>1. CASE SendForm \/ Delete \/ RunOut \/ UNCHANGED joiningVars \/ \E r \in Visits : Leave(r)
    BY <2>1, FormGoesOn
  <2>2. ASSUME NEW r \in Visits, NEW fields \in SUBSET Fields,
               ReadForm(r, "answer", Allowed(fields))
        PROVE  JoiningIInv'
    <3>1. Allowed(fields) \in SUBSET Fields /\ Allowed(fields) \subseteq _CANDIDATE_WRITABLE
      BY DEF Allowed
    <3> QED
      BY <2>2, <3>1, ReadsForm
  <2>3. ASSUME NEW r \in Visits, ReadForm(r, "photo", {"photo"}) \/ ReadForm(r, "edit", {"terms"})
        PROVE  JoiningIInv'
    <3>1. {"photo"} \in SUBSET Fields /\ {"terms"} \in SUBSET Fields
      BY DEF Fields
    <3> QED
      BY <2>3, <3>1, ReadsForm
  <2>4. ASSUME NEW r \in Visits, StorePhoto(r)
        PROVE  JoiningIInv'
    BY <2>4, StoresPhoto
  <2>5. ASSUME NEW r \in Visits, Write(r)
        PROVE  JoiningIInv'
    BY <2>5, WritesForm
  <2> QED
    BY <2>1, <2>2, <2>3, <2>4, <2>5 DEF JoiningNext
<1> QED
  BY <1>1, <1>2, PTL DEF JoiningSpec

\* JoiningStands: each field of a joining confirmation (joining_confirmations.py) holds what its
\* owner wrote last, except what a stale copy wiped out or brought back, and the photo it names is
\* in the documents.
THEOREM JoiningStandsUp == JoiningSpec => []JoiningStands
<1>1. JoiningIInv => JoiningStands
  BY DEF JoiningIInv, JoiningTypeOK, Record, OwnersLast, OwnFields, JoiningStands
<1> QED
  BY <1>1, JoiningInvariance, PTL

(***************************************************************************)
(* CandidateFiles: a candidate's documents. First what the states of a     *)
(* worker are, and what one step leaves of the invariant.                  *)
(***************************************************************************)

\* v goes on with what it was doing; only a cascade may learn that it is not alone.
GoesOnWith(v) ==
    /\ worker'[v].stage = worker[v].stage
    /\ InHand(v)' = InHand(v) /\ Listed(v)' = Listed(v)
    /\ worker[v].stage = "deleting" => worker'[v].key = worker[v].key
    /\ worker[v].stage = "unscheduled" => worker'[v].event = worker[v].event
    /\ worker[v].stage \in Cascading => (worker'[v].alone => worker[v].alone)
    /\ worker[v] = Free => worker'[v] = Free

\* What a worker's state is, by its stage.
LEMMA WorkFields ==
    ASSUME NEW s \in WorkStates
    PROVE  /\ s.stage = "idle" => s = Free
           /\ s.stage \in {"uploaded", "deleting", "emptied", "copied", "moved", "swept"} => s.at \in Docs
           /\ s.stage = "deleting" => s.key \in Folders
           /\ s.stage = "writing" => s.child \in Children
           /\ s.stage \in {"promoting", "copied", "moved", "sweeping", "swept"} => s.list \in SUBSET Docs
           /\ s.stage \in {"found", "unscheduled", "cleaned", "unkeyed"} =>
                s.event \in BOOLEAN
           /\ s.stage \in Cascading => s.alone \in BOOLEAN
           /\ s.stage \in Cascading \union {"idle", "fetched", "uploaded", "deleting", "emptied",
                            "writing", "promoting", "copied", "moved"}
<1>1. CASE s = Free
  BY <1>1 DEF Free, Cascading
<1>2. CASE s \in [stage : {"fetched"}]
  BY <1>2 DEF Cascading
<1>3. CASE s \in [stage : {"uploaded", "emptied"}, at : Docs]
  BY <1>3 DEF Cascading
<1>4. CASE s \in [stage : {"deleting"}, at : Docs, key : Folders]
  BY <1>4 DEF Cascading
<1>5. CASE s \in [stage : {"writing"}, child : Children]
  BY <1>5 DEF Cascading
<1>6. CASE s \in [stage : {"promoting"}, list : SUBSET Docs]
  BY <1>6 DEF Cascading
<1>7. CASE s \in [stage : {"copied", "moved"}, at : Docs, list : SUBSET Docs]
  BY <1>7 DEF Cascading
<1>8. CASE s \in [stage : {"found", "unscheduled", "cleaned", "unkeyed"}, event : BOOLEAN, alone : BOOLEAN]
  BY <1>8 DEF Cascading
<1>9. CASE s \in [stage : {"sweeping"}, list : SUBSET Docs, alone : BOOLEAN]
  BY <1>9 DEF Cascading
<1>10. CASE s \in [stage : {"swept"}, at : Docs, list : SUBSET Docs, alone : BOOLEAN]
  BY <1>10 DEF Cascading
<1> QED
  BY <1>1, <1>2, <1>3, <1>4, <1>5, <1>6, <1>7, <1>8, <1>9, <1>10 DEF WorkStates

LEMMA FreeIsIdle == Free.stage = "idle" /\ Free \in WorkStates
BY DEF Free, WorkStates

\* The shapes of the cascade's states.
LEMMA CascadeShapes ==
    ASSUME NEW s \in WorkStates
    PROVE  /\ s.stage \in {"found", "unscheduled", "cleaned", "unkeyed"} =>
                s \in [stage : {"found", "unscheduled", "cleaned", "unkeyed"}, event : BOOLEAN, alone : BOOLEAN]
           /\ s.stage = "sweeping" => s \in [stage : {"sweeping"}, list : SUBSET Docs, alone : BOOLEAN]
           /\ s.stage = "swept" => s \in [stage : {"swept"}, at : Docs, list : SUBSET Docs, alone : BOOLEAN]
           /\ s.stage = "promoting" => s \in [stage : {"promoting"}, list : SUBSET Docs]
           /\ s.stage \in {"copied", "moved"} => s \in [stage : {"copied", "moved"}, at : Docs, list : SUBSET Docs]
BY DEF WorkStates, Free

LEMMA CascadeStates ==
    ASSUME NEW alone \in BOOLEAN
    PROVE  /\ \A stage \in {"found", "unscheduled", "cleaned", "unkeyed"}, event \in BOOLEAN :
                [stage |-> stage, event |-> event, alone |-> alone] \in WorkStates
           /\ \A list \in SUBSET Docs :
                [stage |-> "sweeping", list |-> list, alone |-> alone] \in WorkStates
           /\ \A at \in Docs, list \in SUBSET Docs :
                [stage |-> "swept", at |-> at, list |-> list, alone |-> alone] \in WorkStates
<1>1. ASSUME NEW stage \in {"found", "unscheduled", "cleaned", "unkeyed"}, NEW event \in BOOLEAN
      PROVE  [stage |-> stage, event |-> event, alone |-> alone] \in WorkStates
  BY DEF WorkStates
<1>2. ASSUME NEW list \in SUBSET Docs
      PROVE  [stage |-> "sweeping", list |-> list, alone |-> alone] \in WorkStates
  BY DEF WorkStates
<1>3. ASSUME NEW at \in Docs, NEW list \in SUBSET Docs
      PROVE  [stage |-> "swept", at |-> at, list |-> list, alone |-> alone] \in WorkStates
  BY DEF WorkStates
<1> QED
  BY <1>1, <1>2, <1>3

\* A cascade that is told it is not alone any more.
LEMMA NotAlone ==
    ASSUME NEW s \in WorkStates, s.stage \in Cascading, NEW t, t = [s EXCEPT !.alone = FALSE]
    PROVE  /\ t \in WorkStates /\ t.stage = s.stage /\ t.alone = FALSE
           /\ s.stage = "swept" => t.at = s.at
           /\ s.stage \in {"sweeping", "swept"} => t.list = s.list
           /\ s.stage \in {"found", "unscheduled", "cleaned", "unkeyed"} => t.event = s.event
<1> PICK no \in BOOLEAN : no = FALSE
  OBVIOUS
<1>1. CASE s.stage \in {"found", "unscheduled", "cleaned", "unkeyed"}
  <2>1. PICK stage \in {"found", "unscheduled", "cleaned", "unkeyed"}, event \in BOOLEAN, alone \in BOOLEAN :
          s = [stage |-> stage, event |-> event, alone |-> alone]
    BY <1>1, CascadeShapes
  <2>2. t = [stage |-> stage, event |-> event, alone |-> no]
    BY <2>1
  <2>3. t \in WorkStates
    BY <2>1, <2>2, CascadeStates
  <2> QED
    BY <2>1, <2>2, <2>3
<1>2. CASE s.stage = "sweeping"
  <2>1. PICK list \in SUBSET Docs, alone \in BOOLEAN :
          s = [stage |-> "sweeping", list |-> list, alone |-> alone]
    BY <1>2, CascadeShapes
  <2>2. t = [stage |-> "sweeping", list |-> list, alone |-> no]
    BY <2>1
  <2>3. t \in WorkStates
    BY <2>1, <2>2, CascadeStates
  <2> QED
    BY <2>1, <2>2, <2>3
<1>3. CASE s.stage = "swept"
  <2>1. PICK at \in Docs, list \in SUBSET Docs, alone \in BOOLEAN :
          s = [stage |-> "swept", at |-> at, list |-> list, alone |-> alone]
    BY <1>3, CascadeShapes
  <2>2. t = [stage |-> "swept", at |-> at, list |-> list, alone |-> no]
    BY <2>1
  <2>3. t \in WorkStates
    <3>1. [stage |-> "swept", at |-> at, list |-> list, alone |-> no] \in WorkStates
      <4> HIDE <2>1, <2>2
      <4> QED
        BY CascadeStates
    <3> QED
      BY <2>2, <3>1
  <2> QED
    BY <2>1, <2>2, <2>3
<1> QED
  BY <1>1, <1>2, <1>3 DEF Cascading

\* A worker that takes its next step.
LEMMA WorkerSteps ==
    ASSUME FileTypeOK, NEW w \in Workers, NEW s \in WorkStates, Step(w, s)
    PROVE  /\ worker' \in [Workers -> WorkStates] /\ worker'[w] = s
           /\ \A v \in Workers \ {w} : worker'[v] = worker[v] /\ GoesOnWith(v)
<1>1. /\ worker' \in [Workers -> WorkStates] /\ worker'[w] = s
      /\ \A v \in Workers \ {w} : worker'[v] = worker[v]
  BY DEF FileTypeOK, Step
<1> QED
  BY <1>1 DEF GoesOnWith, InHand, Listed

\* A worker that takes up an operation.
LEMMA WorkerBegins ==
    ASSUME FileTypeOK, NEW w \in Workers, NEW s \in WorkStates, Begin(w, s)
    PROVE  /\ worker[w] = Free
           /\ worker' \in [Workers -> WorkStates] /\ worker'[w] = s
           /\ \A v \in Workers \ {w} :
                GoesOnWith(v) /\ (worker'[v].stage \in Cascading => worker'[v].alone = FALSE)
<1>1. worker[w] = Free /\ worker'[w] = s
  BY DEF Begin
<1>2. ASSUME NEW v \in Workers \ {w}
      PROVE  /\ worker'[v] \in WorkStates /\ GoesOnWith(v)
             /\ worker'[v].stage \in Cascading => worker'[v].alone = FALSE
  <2>1. worker[v] \in WorkStates
    BY DEF FileTypeOK
  <2>2. CASE worker[v].stage \in Cascading
    <3> DEFINE t == [worker[v] EXCEPT !.alone = FALSE]
    <3>1. worker'[v] = t
      BY <2>2 DEF Begin
    <3>2. /\ t \in WorkStates /\ t.stage = worker[v].stage /\ t.alone = FALSE
          /\ worker[v].stage = "swept" => t.at = worker[v].at
          /\ worker[v].stage \in {"sweeping", "swept"} => t.list = worker[v].list
          /\ worker[v].stage \in {"found", "unscheduled", "cleaned", "unkeyed"} => t.event = worker[v].event
      BY <2>1, <2>2, NotAlone
    <3> HIDE DEF t
    <3>3. worker[v] # Free /\ worker[v].stage # "deleting"
      BY <2>2, FreeIsIdle DEF Cascading
    <3>4. InHand(v)' = InHand(v)
      BY <2>2, <3>1, <3>2 DEF InHand, Cascading
    <3>5. Listed(v)' = Listed(v)
      BY <2>2, <3>1, <3>2 DEF Listed, Cascading
    <3> QED
      BY <3>1, <3>2, <3>3, <3>4, <3>5 DEF GoesOnWith
  <2>3. CASE worker[v].stage \notin Cascading
    <3>1. worker'[v] = worker[v]
      BY <2>3 DEF Begin
    <3> QED
      BY <2>1, <2>3, <3>1 DEF GoesOnWith, InHand, Listed
  <2> QED
    BY <2>2, <2>3
<1>3. worker' \in [Workers -> WorkStates]
  <2>1. \A v \in Workers : worker'[v] \in WorkStates
    BY <1>1, <1>2
  <2>2. worker' = [v \in Workers |-> worker'[v]]
    BY DEF Begin
  <2> QED
    BY <2>1, <2>2
<1> QED
  BY <1>1, <1>2, <1>3

\* A document that the step is not about.
LEMMA DocApart ==
    ASSUME FileTypeOK, NEW d \in Docs, DocStands(d),
           \A v \in Workers : Work(v, d)' = Work(v, d)
             /\ (Work(v, d) = "deleting" => worker'[v].key = worker[v].key),
           rows'[d] = rows[d],
           \A folder \in Folders : <<d, folder>> \in blobs' <=> <<d, folder>> \in blobs,
           d \in kept => d \in kept', d \in promoted' => d \in promoted
    PROVE  DocStands(d)'
<1>1. Cleared(d) => Cleared(d)'
  BY DEF Cleared, Folders
<1>2. Candidates(d) => Candidates(d)'
  BY DEF Candidates, Folders
<1>3. <<d, "employee">> \in blobs' <=> <<d, "employee">> \in blobs
  BY DEF Folders
<1>4. Settled(d) => Settled(d)'
  <2>1. rows[d] = NoRow \/ rows[d].key \in Folders
    BY DEF FileTypeOK, OwnedBy
  <2>2. rows[d] # NoRow => (<<d, rows[d].key>> \in blobs' <=> <<d, rows[d].key>> \in blobs)
    BY <2>1
  <2> QED
    BY <1>1, <2>2 DEF Settled
<1>5. ASSUME NEW v \in Workers
      PROVE  Reached(v, d)'
  <2>1. Reached(v, d) /\ Work(v, d)' = Work(v, d)
    BY DEF DocStands
  <2>2. Work(v, d) = "deleting" => worker'[v].key = rows'[d].key /\ Settled(d)'
    BY <1>4, <2>1 DEF Reached
  <2>3. Work(v, d) = "uploaded" => rows'[d] = NoRow /\ <<d, "candidate">> \in blobs'
    BY <2>1 DEF Reached, Folders
  <2>4. Work(v, d) = "moved" => rows'[d] = OwnedBy("candidate") /\ <<d, "employee">> \in blobs' /\ Cleared(d)'
    BY <1>1, <1>3, <2>1 DEF Reached
  <2> QED
    BY <1>1, <1>2, <1>3, <2>1, <2>2, <2>3, <2>4 DEF Reached
<1> QED
  BY <1>4, <1>5 DEF DocStands

\* A document that one worker takes up, or that it takes a step with.
LEMMA DocMoves ==
    ASSUME NEW d \in Docs, DocStands(d), NEW w \in Workers,
           Work(w, d) # "none" \/ \A v \in Workers : Work(v, d) = "none",
           \A v \in Workers \ {w} : Work(v, d)' = Work(v, d),
           Reached(w, d)', Work(w, d)' = "none" => Settled(d)',
           d \in promoted' => rows'[d] = OwnedBy("employee") /\ Work(w, d)' = "none"
    PROVE  DocStands(d)'
<1>1. \A v \in Workers \ {w} : Work(v, d) = "none" /\ Work(v, d)' = "none"
  BY DEF DocStands
<1>2. \A v \in Workers \ {w} : Reached(v, d)'
  BY <1>1 DEF Reached
<1> QED
  BY <1>1, <1>2 DEF DocStands

\* What GoesOnWith says of the work on a document.
LEMMA WorkKeeps ==
    ASSUME NEW v \in Workers, GoesOnWith(v), NEW d \in Docs
    PROVE  Work(v, d)' = Work(v, d) /\ (Work(v, d) = "deleting" => worker'[v].key = worker[v].key)
BY DEF Work, GoesOnWith, InHand

\* The other workers go on, and a cascade among them is not alone beside the one that acts.
OthersKeep(w) ==
    \A v \in Workers \ {w} :
        GoesOnWith(v) /\ (worker[w] # Free \/ (worker'[v].stage \in Cascading => worker'[v].alone = FALSE))

\* The invariant after a step of w, from its parts.
LEMMA FilesAssemble ==
    ASSUME FileIInv, NEW w \in Workers, FileTypeOK', OthersKeep(w),
           InHand(w)' \intersect Listed(w)' = {}, AloneSoFar(w)',
           LinkGoes', DeletedIsGone', NobodyAtWork',
           \A d \in Docs \ torn' : DocStands(d)'
    PROVE  FileIInv'
<1>1. \A v \in Workers \ {w} : InHand(v)' \intersect Listed(v)' = {}
  BY DEF FileIInv, OffTheList, OthersKeep, GoesOnWith
<1>2. OffTheList'
  BY <1>1 DEF OffTheList
<1>3. ASSUME NEW v \in Workers \ {w}
      PROVE  AloneSoFar(v)'
  <2> SUFFICES ASSUME worker'[v].stage \in Cascading, worker'[v].alone
               PROVE  FALSE
    BY DEF AloneSoFar
  <2>1. worker[w] # Free /\ GoesOnWith(v)
    BY DEF OthersKeep
  <2>2. worker[v].stage \in Cascading /\ worker[v].alone
    BY <2>1 DEF GoesOnWith
  <2> QED
    BY <2>1, <2>2 DEF FileIInv, AloneSoFar
<1> QED
  BY <1>2, <1>3 DEF FileIInv

\* A document the step of w is not about.
LEMMA OtherDocs ==
    ASSUME FileIInv, NEW w \in Workers, OthersKeep(w), torn \subseteq torn',
           NEW d \in Docs \ torn',
           Work(w, d)' = Work(w, d),
           Work(w, d) = "deleting" => worker'[w].key = worker[w].key,
           rows'[d] = rows[d],
           \A folder \in Folders : <<d, folder>> \in blobs' <=> <<d, folder>> \in blobs,
           d \in kept => d \in kept', d \in promoted' => d \in promoted
    PROVE  DocStands(d)'
<1>1. \A v \in Workers : Work(v, d)' = Work(v, d) /\ (Work(v, d) = "deleting" => worker'[v].key = worker[v].key)
  BY WorkKeeps DEF OthersKeep
<1>2. FileTypeOK /\ DocStands(d)
  BY DEF FileIInv
<1> QED
  BY <1>1, <1>2, DocApart

\* The document it is about.
LEMMA OwnDoc ==
    ASSUME FileIInv, NEW w \in Workers, OthersKeep(w), torn \subseteq torn',
           NEW d \in Docs \ torn',
           Work(w, d) # "none" \/ d \notin InWork,
           Reached(w, d)', Work(w, d)' = "none" => Settled(d)',
           \/ d \notin promoted'
           \/ rows'[d] = OwnedBy("employee") /\ Work(w, d)' = "none"
    PROVE  DocStands(d)'
<1>1. \A v \in Workers \ {w} : Work(v, d)' = Work(v, d)
  BY WorkKeeps DEF OthersKeep
<1>2. DocStands(d)
  BY DEF FileIInv
<1>3. d \notin InWork => \A v \in Workers : Work(v, d) = "none"
  BY DEF InWork, Work
<1> QED
  BY <1>1, <1>2, <1>3, DocMoves

\* What w works on is not promoted.
LEMMA NotPromoted ==
    ASSUME FileIInv, NEW w \in Workers, NEW d \in Docs \ torn, Work(w, d) # "none"
    PROVE  d \notin promoted
BY DEF FileIInv, DocStands

\* What w works on is at the point it has reached.
LEMMA IsReached ==
    ASSUME FileIInv, NEW w \in Workers, NEW d \in Docs \ torn
    PROVE  Reached(w, d) /\ (d \notin InWork => Settled(d))
<1>1. DocStands(d)
  BY DEF FileIInv
<1>2. d \notin InWork => \A v \in Workers : Work(v, d) = "none"
  BY DEF InWork, Work
<1> QED
  BY <1>1, <1>2 DEF DocStands

\* The interview's event, after a step that is not that of a cascade between the two.
LEMMA LinkStays ==
    ASSUME FileIInv, NEW w \in Workers, OthersKeep(w), worker[w].stage # "unscheduled",
           link' => link, "interview" \in children => "interview" \in children',
           stranded => stranded'
    PROVE  LinkGoes'
<1> SUFFICES ASSUME link', "interview" \notin children', ~stranded'
             PROVE  \E v \in Workers : worker'[v].stage = "unscheduled" /\ worker'[v].event
  BY DEF LinkGoes
<1>1. PICK v \in Workers : worker[v].stage = "unscheduled" /\ worker[v].event
  BY DEF FileIInv, LinkGoes
<1>2. v # w /\ GoesOnWith(v)
  BY <1>1 DEF OthersKeep
<1> QED
  BY <1>1, <1>2 DEF GoesOnWith

\* What is gone stays gone, after a step that brings nothing of the candidate.
LEMMA GoneStays ==
    ASSUME FileIInv, NEW w \in Workers, OthersKeep(w), gone' => gone,
           candidate' => candidate, children' \subseteq children, link' => link,
           stranded => stranded', kept \subseteq kept', torn \subseteq torn',
           gone => CandidateDocs' \subseteq CandidateDocs,
           gone => \A d \in Docs : <<d, "candidate">> \in blobs' => <<d, "candidate">> \in blobs,
           gone => /\ worker'[w].stage \in {"idle", "fetched", "deleting", "emptied", "sweeping"} \union
                                {"found", "unscheduled", "cleaned", "unkeyed"}
                   /\ Listed(w)' = {}
    PROVE  DeletedIsGone' /\ NobodyAtWork'
<1> SUFFICES ASSUME gone'
             PROVE  DeletedIsGone' /\ NobodyAtWork'
  BY DEF DeletedIsGone, NobodyAtWork
<1>1. gone /\ ~candidate /\ children = {} /\ CandidateDocs = {} /\ (link => stranded)
      /\ \A d \in Docs : <<d, "candidate">> \in blobs => d \in kept \union torn
  BY DEF FileIInv, DeletedIsGone
<1>2. DeletedIsGone'
  BY <1>1 DEF DeletedIsGone
<1>3. ASSUME NEW v \in Workers
      PROVE  /\ worker'[v].stage \in {"idle", "fetched", "deleting", "emptied", "sweeping"} \union
                                {"found", "unscheduled", "cleaned", "unkeyed"}
             /\ Listed(v)' = {}
  <2>1. CASE v = w
    BY <1>1, <2>1
  <2>2. CASE v # w
    <3>1. GoesOnWith(v)
      BY <2>2 DEF OthersKeep
    <3> QED
      BY <1>1, <3>1 DEF FileIInv, NobodyAtWork, GoesOnWith
  <2> QED
    BY <2>1, <2>2
<1> QED
  BY <1>2, <1>3 DEF NobodyAtWork

\* What w has in hand and on its list, by its stage.
LEMMA HandAndList ==
    ASSUME NEW w \in Workers
    PROVE  /\ worker[w].stage \in {"idle", "fetched", "writing", "found", "unscheduled", "cleaned", "unkeyed"} =>
                InHand(w) = {} /\ Listed(w) = {} /\ \A d : Work(w, d) = "none"
           /\ worker[w].stage \in {"uploaded", "deleting", "emptied"} =>
                /\ InHand(w) = {worker[w].at} /\ Listed(w) = {}
                /\ \A d : Work(w, d) = IF d = worker[w].at THEN worker[w].stage ELSE "none"
           /\ worker[w].stage \in {"promoting", "sweeping"} =>
                /\ InHand(w) = {} /\ Listed(w) = worker[w].list
                /\ \A d : Work(w, d) = IF d \in worker[w].list THEN "listed" ELSE "none"
           /\ worker[w].stage \in {"copied", "moved", "swept"} =>
                /\ InHand(w) = {worker[w].at} /\ Listed(w) = worker[w].list
                /\ \A d : Work(w, d) = IF d = worker[w].at THEN worker[w].stage
                                       ELSE IF d \in worker[w].list THEN "listed" ELSE "none"
BY DEF InHand, Listed, Work

LEMMA NextHandAndList ==
    ASSUME NEW w \in Workers
    PROVE  /\ worker'[w].stage \in {"idle", "fetched", "writing", "found", "unscheduled", "cleaned", "unkeyed"} =>
                InHand(w)' = {} /\ Listed(w)' = {} /\ \A d : Work(w, d)' = "none"
           /\ worker'[w].stage \in {"uploaded", "deleting", "emptied"} =>
                /\ InHand(w)' = {worker'[w].at} /\ Listed(w)' = {}
                /\ \A d : Work(w, d)' = IF d = worker'[w].at THEN worker'[w].stage ELSE "none"
           /\ worker'[w].stage \in {"promoting", "sweeping"} =>
                /\ InHand(w)' = {} /\ Listed(w)' = worker'[w].list
                /\ \A d : Work(w, d)' = IF d \in worker'[w].list THEN "listed" ELSE "none"
           /\ worker'[w].stage \in {"copied", "moved", "swept"} =>
                /\ InHand(w)' = {worker'[w].at} /\ Listed(w)' = worker'[w].list
                /\ \A d : Work(w, d)' = IF d = worker'[w].at THEN worker'[w].stage
                                       ELSE IF d \in worker'[w].list THEN "listed" ELSE "none"
BY DEF InHand, Listed, Work

\* A step of w on documents, that is not part of a cascade.
LEMMA DocStep ==
    ASSUME FileIInv, NEW w \in Workers, FileTypeOK', OthersKeep(w),
           InHand(w)' \intersect Listed(w)' = {},
           worker[w].stage \notin Cascading, worker'[w].stage \notin Cascading,
           UNCHANGED <<children, link, candidate, stranded>>,
           \/ ~gone'
           \/ /\ gone' = gone /\ kept \subseteq kept' /\ torn \subseteq torn'
              /\ CandidateDocs' \subseteq CandidateDocs /\ blobs' \subseteq blobs
              /\ worker'[w].stage \in {"idle", "fetched", "deleting", "emptied"} /\ Listed(w)' = {},
           \A d \in Docs \ torn' : DocStands(d)'
    PROVE  FileIInv'
<1>1. AloneSoFar(w)'
  BY DEF AloneSoFar
<1>2. LinkGoes'
  BY LinkStays DEF Cascading
<1>3. DeletedIsGone' /\ NobodyAtWork'
  <2>1. CASE ~gone'
    BY <2>1 DEF DeletedIsGone, NobodyAtWork
  <2>2. CASE gone'
    BY <2>2, GoneStays
  <2> QED
    BY <2>1, <2>2
<1> QED
  BY <1>1, <1>2, <1>3, FilesAssemble

\* A step of w that touches no document.
LEMMA PlainStep ==
    ASSUME FileIInv, NEW w \in Workers, FileTypeOK', OthersKeep(w),
           InHand(w) = {}, Listed(w) = {}, InHand(w)' = {}, Listed(w)' = {},
           UNCHANGED <<rows, blobs, torn, kept, promoted>>,
           AloneSoFar(w)', LinkGoes', DeletedIsGone', NobodyAtWork'
    PROVE  FileIInv'
<1>1. \A d : Work(w, d) = "none" /\ Work(w, d)' = "none"
  BY DEF Work
<1>2. \A d \in Docs \ torn' : DocStands(d)'
  BY <1>1, OtherDocs
<1> QED
  BY <1>2, FilesAssemble

(***************************************************************************)
(* Uploads and deletions.                                                  *)
(***************************************************************************)

LEMMA FilesAreKept ==
    ASSUME FileIInv
    PROVE  FileTypeOK /\ OffTheList /\ LinkGoes /\ DeletedIsGone /\ NobodyAtWork
BY DEF FileIInv

\* A step of w and the other workers.
LEMMA StepKeeps ==
    ASSUME FileIInv, NEW w \in Workers, worker[w] # Free, NEW s \in WorkStates, Step(w, s)
    PROVE  worker' \in [Workers -> WorkStates] /\ worker'[w] = s /\ OthersKeep(w)
BY FilesAreKept, WorkerSteps DEF OthersKeep

LEMMA BeginKeeps ==
    ASSUME FileIInv, NEW w \in Workers, NEW s \in WorkStates, Begin(w, s)
    PROVE  worker[w] = Free /\ worker' \in [Workers -> WorkStates] /\ worker'[w] = s /\ OthersKeep(w)
BY FilesAreKept, WorkerBegins DEF OthersKeep

\* The states that name a document or a list.
LEMMA DocStates ==
    /\ \A at \in Docs : /\ [stage |-> "uploaded", at |-> at] \in WorkStates
                        /\ [stage |-> "emptied", at |-> at] \in WorkStates
                        /\ \A key \in Folders : [stage |-> "deleting", at |-> at, key |-> key] \in WorkStates
    /\ \A list \in SUBSET Docs : [stage |-> "promoting", list |-> list] \in WorkStates
    /\ \A at \in Docs, list \in SUBSET Docs :
         /\ [stage |-> "copied", at |-> at, list |-> list] \in WorkStates
         /\ [stage |-> "moved", at |-> at, list |-> list] \in WorkStates
<1>1. ASSUME NEW at \in Docs
      PROVE  /\ [stage |-> "uploaded", at |-> at] \in WorkStates
             /\ [stage |-> "emptied", at |-> at] \in WorkStates
  BY DEF WorkStates
<1>2. ASSUME NEW at \in Docs, NEW key \in Folders
      PROVE  [stage |-> "deleting", at |-> at, key |-> key] \in WorkStates
  BY DEF WorkStates
<1>3. ASSUME NEW list \in SUBSET Docs
      PROVE  [stage |-> "promoting", list |-> list] \in WorkStates
  BY DEF WorkStates
<1>4. ASSUME NEW at \in Docs, NEW list \in SUBSET Docs
      PROVE  [stage |-> "copied", at |-> at, list |-> list] \in WorkStates
  BY DEF WorkStates
<1>5. ASSUME NEW at \in Docs, NEW list \in SUBSET Docs
      PROVE  [stage |-> "moved", at |-> at, list |-> list] \in WorkStates
  BY DEF WorkStates
<1> QED
  BY <1>1, <1>2, <1>3, <1>4, <1>5

\* Rows of the candidate and of the employee.
LEMMA RowKinds ==
    ASSUME FileTypeOK
    PROVE  /\ \A d \in Docs : rows[d] = NoRow \/ rows[d] = OwnedBy("candidate") \/ rows[d] = OwnedBy("employee")
           /\ NoRow # OwnedBy("candidate") /\ NoRow # OwnedBy("employee")
           /\ OwnedBy("candidate") # OwnedBy("employee")
           /\ OwnedBy("candidate").key = "candidate" /\ OwnedBy("employee").key = "employee"
           /\ CandidateDocs = {d \in Docs : rows[d] = OwnedBy("candidate")}
<1>1. /\ NoRow.owner = "none" /\ OwnedBy("candidate").owner = "candidate"
      /\ OwnedBy("employee").owner = "employee"
      /\ OwnedBy("candidate").key = "candidate" /\ OwnedBy("employee").key = "employee"
  BY DEF NoRow, OwnedBy
<1>2. \A d \in Docs : rows[d] = NoRow \/ rows[d] = OwnedBy("candidate") \/ rows[d] = OwnedBy("employee")
  BY DEF FileTypeOK, Folders
<1> QED
  BY <1>1, <1>2 DEF CandidateDocs

\* An upload's object is there, and its row not yet.
LEMMA Uploads ==
    ASSUME FileIInv, NEW w \in Workers, NEW e \in Docs, UploadBlob(w, e) \/ DriveStore(w, e)
    PROVE  FileIInv'
<1> DEFINE s == [stage |-> "uploaded", at |-> e]
<1>1. s \in WorkStates /\ s.stage = "uploaded" /\ s.at = e
  BY DocStates
<1>2. /\ Unused(e) /\ blobs' = blobs \union {<<e, "candidate">>} /\ gone' = FALSE
      /\ UNCHANGED <<rows, children, link, candidate, torn, kept, promoted, stranded>>
      /\ Begin(w, s) \/ (worker[w].stage = "fetched" /\ Step(w, s))
  BY DEF UploadBlob, DriveStore
<1> HIDE DEF s
<1>3. /\ worker' \in [Workers -> WorkStates] /\ worker'[w] = s /\ OthersKeep(w)
      /\ worker[w].stage \in {"idle", "fetched"}
  BY <1>1, <1>2, BeginKeeps, StepKeeps, FreeIsIdle
<1>4. /\ InHand(w)' = {e} /\ Listed(w)' = {}
      /\ \A d : Work(w, d)' = IF d = e THEN "uploaded" ELSE "none"
      /\ \A d : Work(w, d) = "none"
  BY <1>1, <1>3, HandAndList, NextHandAndList
<1>5. FileTypeOK'
  <2>1. blobs' \subseteq Docs \X Folders
    BY <1>2, FilesAreKept DEF FileTypeOK, Folders
  <2>2. gone' \in BOOLEAN
    BY <1>2
  <2> QED
    BY <1>2, <1>3, <2>1, <2>2, FilesAreKept DEF FileTypeOK
<1>6. ASSUME NEW d \in Docs \ torn'
      PROVE  DocStands(d)'
  <2>1. CASE d = e
    <3>1. d \notin InWork /\ d \notin promoted' /\ rows'[d] = NoRow
      BY <1>2, <2>1 DEF Unused
    <3>2. Reached(w, d)'
      BY <1>2, <1>4, <2>1, <3>1 DEF Reached
    <3> QED
      BY <1>2, <1>3, <1>4, <2>1, <3>1, <3>2, OwnDoc
  <2>2. CASE d # e
    BY <1>2, <1>3, <1>4, <2>2, OtherDocs
  <2> QED
    BY <2>1, <2>2
<1> QED
  BY <1>1, <1>2, <1>3, <1>4, <1>5, <1>6, DocStep DEF Cascading

\* The row names the object that is there.
LEMMA UploadEnds ==
    ASSUME FileIInv, NEW w \in Workers, UploadRow(w)
    PROVE  FileIInv'
<1> DEFINE e == worker[w].at
<1>1. /\ worker[w].stage = "uploaded" /\ rows' = [rows EXCEPT ![e] = OwnedBy("candidate")]
      /\ Step(w, Free) /\ UNCHANGED <<blobs, children, link, candidate, torn, kept, promoted, gone, stranded>>
  BY DEF UploadRow, fileHistory
<1>2. e \in Docs /\ worker[w] # Free /\ worker[w] \in WorkStates
  BY <1>1, FilesAreKept, WorkFields, FreeIsIdle DEF FileTypeOK
<1>3. /\ worker' \in [Workers -> WorkStates] /\ worker'[w] = Free /\ OthersKeep(w)
      /\ worker'[w].stage = "idle"
  BY <1>1, <1>2, StepKeeps, FreeIsIdle
<1>4. /\ InHand(w)' = {} /\ Listed(w)' = {} /\ \A d : Work(w, d)' = "none"
      /\ \A d : Work(w, d) = IF d = e THEN "uploaded" ELSE "none"
  BY <1>1, <1>3, HandAndList, NextHandAndList
<1>5. ~gone'
  BY <1>1, FilesAreKept DEF NobodyAtWork
<1> HIDE DEF e
<1>6. FileTypeOK'
  BY <1>1, <1>2, <1>3, FilesAreKept DEF FileTypeOK, Folders
<1>7. ASSUME NEW d \in Docs \ torn'
      PROVE  DocStands(d)'
  <2>1. CASE d = e
    <3>1. Reached(w, d) /\ d \notin promoted
      BY <1>1, <1>4, <2>1, IsReached, NotPromoted
    <3>2. rows'[d] = OwnedBy("candidate") /\ rows'[d].key = "candidate"
      BY <1>1, <2>1, FilesAreKept, RowKinds DEF FileTypeOK
    <3>3. Settled(d)'
      BY <1>1, <1>4, <2>1, <3>1, <3>2 DEF Reached, Settled
    <3> QED
      BY <1>1, <1>3, <1>4, <2>1, <3>1, <3>3, OwnDoc DEF Reached
  <2>2. CASE d # e
    BY <1>1, <1>3, <1>4, <2>2, FilesAreKept, OtherDocs DEF FileTypeOK
  <2> QED
    BY <2>1, <2>2
<1> QED
  BY <1>1, <1>3, <1>4, <1>5, <1>6, <1>7, DocStep DEF Cascading

\* HR's deletion takes the document up with its key.
LEMMA DeletionBegins ==
    ASSUME FileIInv, NEW w \in Workers, NEW e \in Docs, DeleteGet(w, e)
    PROVE  FileIInv'
<1> DEFINE s == [stage |-> "deleting", at |-> e, key |-> rows[e].key]
<1>1. /\ rows[e] # NoRow /\ Begin(w, s) /\ torn' = torn \union ({e} \intersect InWork)
      /\ promoted' = promoted \ {e}
      /\ UNCHANGED <<rows, blobs, children, link, candidate, kept, gone, stranded>>
  BY DEF DeleteGet, TakeUp
<1>2. rows[e].key \in Folders
  BY <1>1, FilesAreKept, RowKinds DEF Folders
<1>3. s \in WorkStates /\ s.stage = "deleting" /\ s.at = e /\ s.key = rows[e].key
  BY <1>2, DocStates
<1> HIDE DEF s
<1>4. /\ worker' \in [Workers -> WorkStates] /\ worker'[w] = s /\ OthersKeep(w)
      /\ worker[w].stage = "idle"
  BY <1>1, <1>3, BeginKeeps, FreeIsIdle
<1>5. /\ InHand(w)' = {e} /\ Listed(w)' = {}
      /\ \A d : Work(w, d)' = IF d = e THEN "deleting" ELSE "none"
      /\ \A d : Work(w, d) = "none"
  BY <1>3, <1>4, HandAndList, NextHandAndList
<1>6. FileTypeOK'
  BY <1>1, <1>4, FilesAreKept DEF FileTypeOK
<1>7. ASSUME NEW d \in Docs \ torn'
      PROVE  DocStands(d)'
  <2>1. CASE d = e
    <3>1. d \notin InWork /\ d \notin promoted' /\ Settled(d) /\ d \notin torn
      BY <1>1, <2>1, IsReached
    <3>2. Settled(d)'
      BY <1>1, <3>1 DEF Settled, Cleared
    <3>3. Reached(w, d)'
      BY <1>1, <1>3, <1>4, <1>5, <2>1, <3>2 DEF Reached
    <3> QED
      BY <1>1, <1>4, <1>5, <2>1, <3>1, <3>3, OwnDoc
  <2>2. CASE d # e
    BY <1>1, <1>4, <1>5, <2>2, OtherDocs
  <2> QED
    BY <2>1, <2>2
<1>8. CandidateDocs' = CandidateDocs
  BY <1>1 DEF CandidateDocs
<1> QED
  BY <1>1, <1>3, <1>4, <1>5, <1>6, <1>7, <1>8, DocStep DEF Cascading

\* The object goes, and then the row.
LEMMA DeletionEnds ==
    ASSUME FileIInv, NEW w \in Workers, DeleteBlob(w) \/ DeleteRow(w)
    PROVE  FileIInv'
<1> DEFINE e == worker[w].at
           s == IF worker[w].stage = "deleting" THEN [stage |-> "emptied", at |-> e] ELSE Free
<1>1. /\ worker[w].stage \in {"deleting", "emptied"} /\ Step(w, s)
      /\ rows' = IF worker[w].stage = "deleting" THEN rows ELSE [rows EXCEPT ![e] = NoRow]
      /\ blobs' = IF worker[w].stage = "deleting" THEN blobs \ {<<e, worker[w].key>>} ELSE blobs
      /\ UNCHANGED <<children, link, candidate, torn, kept, promoted, gone, stranded>>
  BY DEF DeleteBlob, DeleteRow, fileHistory
<1>2. e \in Docs /\ worker[w] # Free /\ worker[w] \in WorkStates
  BY <1>1, FilesAreKept, WorkFields, FreeIsIdle DEF FileTypeOK
<1>3. /\ s \in WorkStates
      /\ worker[w].stage = "deleting" => s.stage = "emptied" /\ s.at = e
      /\ worker[w].stage = "emptied" => s.stage = "idle"
  BY <1>1, <1>2, DocStates, FreeIsIdle
<1> HIDE DEF s
<1>4. worker' \in [Workers -> WorkStates] /\ worker'[w] = s /\ OthersKeep(w)
  BY <1>1, <1>2, <1>3, StepKeeps
<1>5. /\ InHand(w)' \in {{e}, {}} /\ Listed(w)' = {}
      /\ \A d : Work(w, d)' = IF d = e /\ worker[w].stage = "deleting" THEN "emptied" ELSE "none"
      /\ \A d : Work(w, d) = IF d = e THEN worker[w].stage ELSE "none"
  BY <1>1, <1>3, <1>4, HandAndList, NextHandAndList
<1> HIDE DEF e
<1>6. FileTypeOK'
  BY <1>1, <1>2, <1>4, FilesAreKept DEF FileTypeOK
<1>7. ASSUME NEW d \in Docs \ torn'
      PROVE  DocStands(d)'
  <2>1. CASE d = e
    <3>1. Reached(w, d) /\ d \notin promoted
      BY <1>1, <1>5, <2>1, IsReached, NotPromoted
    <3>2. Cleared(d)'
      <4>1. CASE worker[w].stage = "emptied"
        BY <1>1, <1>5, <2>1, <3>1, <4>1 DEF Reached, Cleared
      <4>2. CASE worker[w].stage = "deleting"
        <5>1. worker[w].key = rows[d].key /\ Settled(d)
          BY <1>5, <2>1, <3>1, <4>2 DEF Reached
        <5>2. rows[d] = OwnedBy("candidate") => worker[w].key = "candidate"
          BY <5>1, FilesAreKept, RowKinds
        <5> QED
          BY <1>1, <2>1, <4>2, <5>1, <5>2 DEF Settled, Cleared
      <4> QED
        BY <1>1, <4>1, <4>2
    <3>3. Work(w, d)' = "none" => Settled(d)'
      BY <1>1, <1>2, <1>5, <2>1, <3>2, FilesAreKept DEF Settled, FileTypeOK
    <3>4. Reached(w, d)'
      BY <1>5, <2>1, <3>2 DEF Reached
    <3> QED
      BY <1>1, <1>4, <1>5, <2>1, <3>1, <3>3, <3>4, OwnDoc
  <2>2. CASE d # e
    BY <1>1, <1>4, <1>5, <2>2, FilesAreKept, OtherDocs DEF FileTypeOK
  <2> QED
    BY <2>1, <2>2
<1>8. CandidateDocs' \subseteq CandidateDocs
  BY <1>1, <1>2, FilesAreKept, RowKinds DEF CandidateDocs, FileTypeOK, NoRow
<1>9. InHand(w)' \intersect Listed(w)' = {}
  BY <1>5
<1>10. /\ worker[w].stage \notin Cascading
       /\ worker'[w].stage \in {"idle", "emptied"} /\ worker'[w].stage \notin Cascading
  BY <1>1, <1>3, <1>4 DEF Cascading
<1> QED
  BY <1>1, <1>4, <1>5, <1>6, <1>7, <1>8, <1>9, <1>10, DocStep

(***************************************************************************)
(* Promotion.                                                              *)
(***************************************************************************)

\* A promotion takes up what the candidate has.
LEMMA PromotionBegins ==
    ASSUME FileIInv, NEW w \in Workers, PromoteFind(w)
    PROVE  FileIInv'
<1> DEFINE s == [stage |-> "promoting", list |-> CandidateDocs]
<1>1. /\ CandidateDocs # {} /\ Begin(w, s) /\ torn' = torn \union (CandidateDocs \intersect InWork)
      /\ UNCHANGED <<rows, blobs, children, link, candidate, kept, promoted, gone, stranded>>
  BY DEF PromoteFind, TakeUp
<1>2. CandidateDocs \in SUBSET Docs
  BY DEF CandidateDocs
<1>3. s \in WorkStates /\ s.stage = "promoting" /\ s.list = CandidateDocs
  BY <1>2, DocStates
<1> HIDE DEF s
<1>4. /\ worker' \in [Workers -> WorkStates] /\ worker'[w] = s /\ OthersKeep(w)
      /\ worker[w].stage = "idle"
  BY <1>1, <1>3, BeginKeeps, FreeIsIdle
<1>5. /\ InHand(w)' = {} /\ Listed(w)' = CandidateDocs
      /\ \A d : Work(w, d)' = IF d \in CandidateDocs THEN "listed" ELSE "none"
      /\ \A d : Work(w, d) = "none"
  BY <1>3, <1>4, HandAndList, NextHandAndList
<1>6. FileTypeOK'
  BY <1>1, <1>2, <1>4, FilesAreKept DEF FileTypeOK
<1>7. ASSUME NEW d \in Docs \ torn'
      PROVE  DocStands(d)'
  <2>1. CASE d \in CandidateDocs
    <3>1. d \notin InWork /\ Settled(d) /\ d \notin torn
      BY <1>1, <2>1, IsReached
    <3>2. rows[d] = OwnedBy("candidate") /\ rows[d] # OwnedBy("employee")
      BY <2>1, FilesAreKept, RowKinds
    <3>3. Candidates(d)
      BY <3>1, <3>2, FilesAreKept, RowKinds DEF Candidates, Settled
    <3>4. Reached(w, d)'
      BY <1>1, <1>5, <2>1, <3>3 DEF Reached, Candidates
    <3>5. d \notin promoted
      BY <3>1, <3>2 DEF FileIInv, DocStands
    <3> QED
      BY <1>1, <1>4, <1>5, <2>1, <3>1, <3>4, <3>5, OwnDoc
  <2>2. CASE d \notin CandidateDocs
    BY <1>1, <1>4, <1>5, <2>2, OtherDocs
  <2> QED
    BY <2>1, <2>2
<1>8. ~gone'
  BY <1>1, FilesAreKept DEF DeletedIsGone
<1> QED
  BY <1>1, <1>3, <1>4, <1>5, <1>6, <1>7, <1>8, DocStep DEF Cascading

\* What a step of a promotion makes of the document it is about.
Advances(e, s) ==
    /\ s.stage = "promoting" => Settled(e)'
    /\ s.stage = "copied" => Candidates(e)' /\ <<e, "employee">> \in blobs'
    /\ s.stage = "moved" =>
         rows'[e] = OwnedBy("candidate") /\ <<e, "employee">> \in blobs' /\ Cleared(e)'
    /\ e \notin promoted' \/ (rows'[e] = OwnedBy("employee") /\ s.stage = "promoting")

\* One document of a promotion: from the list, copied, moved, named; or skipped.
LEMMA PromotionStep ==
    ASSUME FileIInv, NEW w \in Workers, worker[w].stage \in {"promoting", "copied", "moved"},
           UNCHANGED <<children, link, candidate, torn, gone, stranded>>, kept \subseteq kept',
           NEW s \in WorkStates, Step(w, s), s.stage \in {"promoting", "copied", "moved"},
           NEW e \in Docs, worker[w].stage = "promoting" => e \in worker[w].list,
           worker[w].stage # "promoting" => e = worker[w].at,
           s.stage # "promoting" => s.at = e,
           s.list = worker[w].list \ {e},
           rows' \in [Docs -> {NoRow} \union {OwnedBy(f) : f \in Folders}],
           blobs' \subseteq Docs \X Folders, kept' \subseteq Docs, promoted' \subseteq Docs,
           \A d \in Docs : d # e =>
              /\ rows'[d] = rows[d] /\ (d \in promoted' => d \in promoted)
              /\ \A folder \in Folders : <<d, folder>> \in blobs' <=> <<d, folder>> \in blobs,
           e \notin torn /\ Reached(w, e) /\ e \notin promoted => Advances(e, s)
    PROVE  FileIInv'
<1>1. worker[w] # Free /\ worker[w] \in WorkStates /\ worker[w].list \in SUBSET Docs
  BY FilesAreKept, WorkFields, FreeIsIdle DEF FileTypeOK
<1>2. ~gone
  BY FilesAreKept DEF NobodyAtWork
<1>3. InHand(w) \intersect Listed(w) = {}
  BY FilesAreKept DEF OffTheList
<1>4. worker' \in [Workers -> WorkStates] /\ worker'[w] = s /\ OthersKeep(w)
  BY <1>1, StepKeeps
<1>5. e \notin s.list /\ (worker[w].stage # "promoting" => e \notin worker[w].list)
  BY <1>3, HandAndList
<1>6. /\ \A d : d # e => Work(w, d)' = Work(w, d)
      /\ Work(w, e)' = IF s.stage = "promoting" THEN "none" ELSE s.stage
      /\ Work(w, e) = IF worker[w].stage = "promoting" THEN "listed" ELSE worker[w].stage
      /\ InHand(w)' \intersect Listed(w)' = {}
      /\ \A d : Work(w, d) # "deleting"
  BY <1>4, <1>5, HandAndList, NextHandAndList
<1>7. FileTypeOK'
  BY <1>4, FilesAreKept DEF FileTypeOK
<1>8. ASSUME NEW d \in Docs \ torn'
      PROVE  DocStands(d)'
  <2>1. CASE d = e
    <3>1. Reached(w, d) /\ d \notin promoted /\ Work(w, d) # "none" /\ d \notin torn
      BY <1>6, <2>1, IsReached, NotPromoted
    <3>2. Advances(e, s)
      BY <2>1, <3>1
    <3>3. Reached(w, d)'
      BY <1>6, <2>1, <3>2 DEF Reached, Advances
    <3>4. /\ Work(w, d)' = "none" => Settled(d)'
          /\ d \notin promoted' \/ (rows'[d] = OwnedBy("employee") /\ Work(w, d)' = "none")
      BY <1>6, <2>1, <3>2 DEF Advances
    <3> QED
      BY <1>4, <1>6, <2>1, <3>1, <3>3, <3>4, OwnDoc
  <2>2. CASE d # e
    BY <1>4, <1>6, <2>2, OtherDocs
  <2> QED
    BY <2>1, <2>2
<1>9. worker[w].stage \notin Cascading /\ worker'[w].stage \notin Cascading
  BY <1>4 DEF Cascading
<1> QED
  BY <1>2, <1>4, <1>6, <1>7, <1>8, <1>9, DocStep

\* The object is copied, or the document is passed over.
LEMMA Copies ==
    ASSUME FileIInv, NEW w \in Workers, NEW e \in Docs, PromoteCopy(w, e) \/ PromoteSkip(w, e)
    PROVE  FileIInv'
<1>1. worker[w].stage = "promoting" /\ e \in worker[w].list
  BY DEF PromoteCopy, PromoteSkip
<1>2. /\ worker[w] \in [stage : {"promoting"}, list : SUBSET Docs]
      /\ worker[w].list \in SUBSET Docs
  BY <1>1, FilesAreKept, WorkFields, CascadeShapes DEF FileTypeOK
<1>3. Work(w, e) = "listed"
  BY <1>1, HandAndList
<1>4. CASE PromoteCopy(w, e)
  <2> DEFINE s == [stage |-> "copied", at |-> e, list |-> worker[w].list \ {e}]
  <2>1. /\ <<e, "candidate">> \in blobs /\ blobs' = blobs \union {<<e, "employee">>} /\ Step(w, s)
        /\ UNCHANGED <<rows, children, link, candidate, torn, kept, promoted, gone, stranded>>
    BY <1>4 DEF PromoteCopy, fileHistory
  <2>2. s \in WorkStates /\ s.stage = "copied" /\ s.at = e /\ s.list = worker[w].list \ {e}
    BY <1>2, DocStates
  <2> HIDE DEF s
  <2>3. blobs' \subseteq Docs \X Folders
    BY <2>1, FilesAreKept DEF FileTypeOK, Folders
  <2>4. Reached(w, e) => Candidates(e)' /\ <<e, "employee">> \in blobs'
    BY <1>3, <2>1 DEF Reached, Candidates
  <2>5. /\ rows' \in [Docs -> {NoRow} \union {OwnedBy(f) : f \in Folders}]
        /\ kept' \subseteq Docs /\ promoted' \subseteq Docs
    BY <2>1, FilesAreKept DEF FileTypeOK
  <2>6. \A d \in Docs : d # e => \A folder \in Folders : <<d, folder>> \in blobs' <=> <<d, folder>> \in blobs
    BY <2>1
  <2>7. Reached(w, e) /\ e \notin promoted => Advances(e, s)
    BY <2>1, <2>2, <2>4 DEF Advances
  <2> QED
    BY <1>1, <2>1, <2>2, <2>3, <2>5, <2>6, <2>7, PromotionStep
<1>5. CASE PromoteSkip(w, e)
  <2> DEFINE s == [stage |-> "promoting", list |-> worker[w].list \ {e}]
  <2>1. PICK list \in SUBSET Docs : worker[w] = [stage |-> "promoting", list |-> list]
    BY <1>2
  <2>2. [worker[w] EXCEPT !.list = @ \ {e}] = s
    BY <2>1
  <2>3. Step(w, s) /\ UNCHANGED <<rows, blobs, children, link, candidate, torn, kept, promoted, gone, stranded>>
    BY <1>5, <2>2 DEF PromoteSkip, fileHistory
  <2>4. s \in WorkStates /\ s.stage = "promoting" /\ s.list = worker[w].list \ {e}
    BY <1>2, DocStates
  <2> HIDE DEF s
  <2>5. Reached(w, e) => Settled(e)'
    BY <1>3, <2>3, FilesAreKept, RowKinds DEF Reached, Candidates, Settled
  <2>6. /\ rows' \in [Docs -> {NoRow} \union {OwnedBy(f) : f \in Folders}]
        /\ blobs' \subseteq Docs \X Folders /\ kept' \subseteq Docs /\ promoted' \subseteq Docs
    BY <2>3, FilesAreKept DEF FileTypeOK
  <2>7. Reached(w, e) /\ e \notin promoted => Advances(e, s)
    BY <2>3, <2>4, <2>5 DEF Advances
  <2> QED
    BY <1>1, <2>3, <2>4, <2>6, <2>7, PromotionStep
<1> QED
  BY <1>4, <1>5

\* The old object goes, or is kept and logged.
LEMMA DropsOld ==
    ASSUME FileIInv, NEW w \in Workers, PromoteDropOld(w)
    PROVE  FileIInv'
<1> PICK e \in Docs : e = worker[w].at
  BY FilesAreKept, WorkFields DEF FileTypeOK, PromoteDropOld
<1> DEFINE s == [stage |-> "moved", at |-> e, list |-> worker[w].list]
<1>1. /\ worker[w].stage = "copied"
      /\ \/ blobs' = blobs \ {<<e, "candidate">>} /\ kept' = kept
         \/ blobs' = blobs /\ kept' = kept \union {e}
      /\ UNCHANGED <<rows, children, link, candidate, torn, promoted, gone, stranded>>
      /\ Step(w, [worker[w] EXCEPT !.stage = "moved"])
  BY DEF PromoteDropOld
<1>2. /\ worker[w] \in [stage : {"copied", "moved"}, at : Docs, list : SUBSET Docs]
      /\ e \in Docs /\ worker[w].list \in SUBSET Docs
  BY <1>1, FilesAreKept, WorkFields, CascadeShapes DEF FileTypeOK
<1>3. [worker[w] EXCEPT !.stage = "moved"] = s
  <2>1. PICK at \in Docs, list \in SUBSET Docs : worker[w] = [stage |-> "copied", at |-> at, list |-> list]
    BY <1>1, <1>2
  <2> QED
    BY <2>1
<1>4. e \notin worker[w].list /\ Work(w, e) = "copied"
  BY <1>1, FilesAreKept, HandAndList DEF OffTheList
<1>5. Step(w, s)
  BY <1>1, <1>3
<1>6. s \in WorkStates /\ s.stage = "moved" /\ s.at = e /\ s.list = worker[w].list \ {e}
  BY <1>2, <1>4, DocStates
<1> HIDE DEF s
<1>7. Reached(w, e) => rows'[e] = OwnedBy("candidate") /\ <<e, "employee">> \in blobs' /\ Cleared(e)'
  <2> SUFFICES ASSUME Reached(w, e)
               PROVE  rows'[e] = OwnedBy("candidate") /\ <<e, "employee">> \in blobs' /\ Cleared(e)'
    OBVIOUS
  <2>1. rows[e] = OwnedBy("candidate") /\ <<e, "employee">> \in blobs
    BY <1>4 DEF Reached, Candidates
  <2>2. <<e, "employee">> \in blobs'
    BY <1>1, <2>1
  <2>3. Cleared(e)'
    BY <1>1 DEF Cleared
  <2> QED
    BY <1>1, <2>1, <2>2, <2>3
<1>8. /\ rows' \in [Docs -> {NoRow} \union {OwnedBy(f) : f \in Folders}]
      /\ blobs' \subseteq Docs \X Folders /\ kept' \subseteq Docs /\ promoted' \subseteq Docs
  BY <1>1, <1>2, FilesAreKept DEF FileTypeOK
<1>9. \A d \in Docs : d # e => \A folder \in Folders : <<d, folder>> \in blobs' <=> <<d, folder>> \in blobs
  BY <1>1
<1>10. e = worker[w].at /\ e \in Docs
  OBVIOUS
<1>11. \A d \in Docs : d # e =>
         /\ rows'[d] = rows[d] /\ (d \in promoted' => d \in promoted)
         /\ \A folder \in Folders : <<d, folder>> \in blobs' <=> <<d, folder>> \in blobs
  BY <1>1, <1>9
<1>12. /\ worker[w].stage \in {"promoting", "copied", "moved"} /\ kept \subseteq kept'
       /\ UNCHANGED <<children, link, candidate, torn, gone, stranded>> /\ promoted' = promoted
  BY <1>1
<1>13. Reached(w, e) /\ e \notin promoted => Advances(e, s)
  BY <1>6, <1>7, <1>12 DEF Advances
<1> QED
  BY <1>1, <1>5, <1>6, <1>8, <1>10, <1>11, <1>12, <1>13, PromotionStep

\* The row names the new object and its owner.
LEMMA NamesNew ==
    ASSUME FileIInv, NEW w \in Workers, PromoteRow(w)
    PROVE  FileIInv'
<1> PICK e \in Docs : e = worker[w].at
  BY FilesAreKept, WorkFields DEF FileTypeOK, PromoteRow
<1> DEFINE s == [stage |-> "promoting", list |-> worker[w].list]
<1>1. /\ worker[w].stage = "moved"
      /\ rows' = [rows EXCEPT ![e] = OwnedBy("employee")] /\ promoted' = promoted \union {e}
      /\ UNCHANGED <<blobs, children, link, candidate, torn, kept, gone, stranded>>
      /\ Step(w, s)
  BY DEF PromoteRow
<1>2. e \in Docs /\ worker[w].list \in SUBSET Docs
  BY <1>1, FilesAreKept, WorkFields DEF FileTypeOK
<1>3. e \notin worker[w].list /\ Work(w, e) = "moved"
  BY <1>1, FilesAreKept, HandAndList DEF OffTheList
<1>4. s \in WorkStates /\ s.stage = "promoting" /\ s.list = worker[w].list \ {e}
  BY <1>2, <1>3, DocStates
<1>5. e = worker[w].at
  OBVIOUS
<1> HIDE DEF s
<1>6. rows'[e] = OwnedBy("employee")
  BY <1>1, <1>2, FilesAreKept DEF FileTypeOK
<1>7. Reached(w, e) => Settled(e)'
  <2> SUFFICES ASSUME Reached(w, e)
               PROVE  Settled(e)'
    OBVIOUS
  <2>1. <<e, "employee">> \in blobs /\ Cleared(e)
    BY <1>3 DEF Reached
  <2>2. rows'[e].key = "employee"
    BY <1>6, FilesAreKept, RowKinds
  <2> QED
    BY <1>1, <2>1, <2>2 DEF Settled, Cleared
<1>8. /\ rows' \in [Docs -> {NoRow} \union {OwnedBy(f) : f \in Folders}]
      /\ blobs' \subseteq Docs \X Folders /\ kept' \subseteq Docs /\ promoted' \subseteq Docs
  BY <1>1, <1>2, FilesAreKept DEF FileTypeOK, Folders
<1>9. \A d \in Docs : d # e => rows'[d] = rows[d] /\ (d \in promoted' => d \in promoted)
  BY <1>1, FilesAreKept DEF FileTypeOK
<1>10. \A d \in Docs : d # e =>
         /\ rows'[d] = rows[d] /\ (d \in promoted' => d \in promoted)
         /\ \A folder \in Folders : <<d, folder>> \in blobs' <=> <<d, folder>> \in blobs
  BY <1>1, <1>9
<1>11. /\ worker[w].stage \in {"promoting", "copied", "moved"} /\ kept \subseteq kept' /\ e \in Docs
       /\ UNCHANGED <<children, link, candidate, torn, gone, stranded>>
  BY <1>1, <1>2
<1>12. Reached(w, e) /\ e \notin promoted => Advances(e, s)
  BY <1>4, <1>6, <1>7 DEF Advances
<1> QED
  BY <1>1, <1>4, <1>5, <1>8, <1>10, <1>11, <1>12, PromotionStep

(***************************************************************************)
(* The cascade, and what dies.                                             *)
(***************************************************************************)

\* The states that name no document.
LEMMA OtherStates ==
    /\ [stage |-> "fetched"] \in WorkStates
    /\ \A kind \in Children : [stage |-> "writing", child |-> kind] \in WorkStates
BY DEF WorkStates

\* A request that has nothing to do with documents, a promotion that is done.
LEMMA OtherRequests ==
    ASSUME FileIInv, NEW w \in Workers,
           \/ DriveFetch(w) \/ (\E kind \in Children : ChildRead(w, kind)) \/ ChildWrite(w)
           \/ PromoteEnd(w)
    PROVE  FileIInv'
<1>1. /\ UNCHANGED <<rows, blobs, link, candidate, torn, kept, promoted, gone, stranded>>
      /\ children \subseteq children' /\ children' \subseteq Children
  <2>1. worker[w].stage = "writing" => worker[w].child \in Children
    BY FilesAreKept, WorkFields DEF FileTypeOK
  <2> QED
    BY <2>1, FilesAreKept DEF DriveFetch, ChildRead, ChildWrite, PromoteEnd, fileHistory, FileTypeOK
<1>2. /\ worker' \in [Workers -> WorkStates] /\ OthersKeep(w)
      /\ worker'[w].stage \in {"idle", "fetched", "writing"}
      /\ worker'[w].stage = "writing" => children # {} /\ worker[w].stage = "idle"
      /\ worker[w].stage \in {"idle", "writing"} \/ (worker[w].stage = "promoting" /\ worker[w].list = {})
  <2>1. CASE DriveFetch(w)
    BY <2>1, OtherStates, BeginKeeps, FreeIsIdle DEF DriveFetch
  <2>2. ASSUME NEW kind \in Children, ChildRead(w, kind)
        PROVE  /\ worker' \in [Workers -> WorkStates] /\ OthersKeep(w)
               /\ worker'[w].stage = "writing" /\ children # {} /\ worker[w].stage = "idle"
    BY <2>2, OtherStates, BeginKeeps, FreeIsIdle DEF ChildRead
  <2>3. CASE ChildWrite(w) \/ PromoteEnd(w)
    <3>1. Step(w, Free) /\ worker[w] # Free
      BY <2>3, FreeIsIdle DEF ChildWrite, PromoteEnd
    <3>2. worker' \in [Workers -> WorkStates] /\ OthersKeep(w) /\ worker'[w].stage = "idle"
      BY <3>1, StepKeeps, FreeIsIdle
    <3> QED
      BY <2>3, <3>2 DEF ChildWrite, PromoteEnd
  <2> QED
    BY <2>1, <2>2, <2>3
<1>3. InHand(w) = {} /\ Listed(w) = {} /\ InHand(w)' = {} /\ Listed(w)' = {}
  BY <1>2, HandAndList, NextHandAndList
<1>4. FileTypeOK'
  BY <1>1, <1>2, FilesAreKept DEF FileTypeOK
<1>5. AloneSoFar(w)'
  BY <1>2 DEF AloneSoFar, Cascading
<1>6. LinkGoes'
  BY <1>1, <1>2, LinkStays
<1>7. DeletedIsGone' /\ NobodyAtWork'
  <2>1. gone => children' \subseteq children /\ worker'[w].stage \in {"idle", "fetched"}
    <3> SUFFICES ASSUME gone
                 PROVE  children' \subseteq children /\ worker'[w].stage \in {"idle", "fetched"}
      OBVIOUS
    <3>1. children = {} /\ worker[w].stage # "writing"
      BY FilesAreKept DEF DeletedIsGone, NobodyAtWork
    <3>2. children' = children
      BY <3>1 DEF DriveFetch, ChildRead, ChildWrite, PromoteEnd
    <3> QED
      BY <1>2, <3>1, <3>2
  <2>2. CASE gone
    <3>1. CandidateDocs' = CandidateDocs
      BY <1>1 DEF CandidateDocs
    <3> QED
      BY <1>1, <1>2, <1>3, <2>1, <2>2, <3>1, GoneStays
  <2>3. CASE ~gone
    BY <1>1, <2>3 DEF DeletedIsGone, NobodyAtWork
  <2> QED
    BY <2>2, <2>3
<1> QED
  BY <1>1, <1>2, <1>3, <1>4, <1>5, <1>6, <1>7, PlainStep

\* The states a cascade goes through before its list.
LEMMA CascadeStep ==
    ASSUME NEW t \in WorkStates, t.stage \in {"found", "unscheduled", "cleaned", "unkeyed"},
           NEW stage \in {"found", "unscheduled", "cleaned", "unkeyed"}
    PROVE  LET s == [t EXCEPT !.stage = stage]
           IN  s \in WorkStates /\ s.stage = stage /\ s.event = t.event /\ s.alone = t.alone
<1>1. PICK old \in {"found", "unscheduled", "cleaned", "unkeyed"}, event \in BOOLEAN, alone \in BOOLEAN :
        t = [stage |-> old, event |-> event, alone |-> alone]
  BY CascadeShapes
<1>2. t.event = event /\ t.alone = alone
  BY <1>1
<1>3. [t EXCEPT !.stage = stage] = [stage |-> stage, event |-> event, alone |-> alone]
  BY <1>1
<1>4. [stage |-> stage, event |-> event, alone |-> alone] \in WorkStates
  BY CascadeStates
<1> QED
  BY <1>2, <1>3, <1>4

\* A cascade begins.
LEMMA CascadeBegins ==
    ASSUME FileIInv, NEW w \in Workers, CascadeFind(w)
    PROVE  FileIInv'
<1> DEFINE scheduled == "interview" \in children
           lone == \A v \in Workers \ {w} : worker[v] = Free
           s == [stage |-> "found", event |-> scheduled, alone |-> lone]
<1>1. Begin(w, s) /\ UNCHANGED <<rows, blobs, children, link, candidate, torn, kept, promoted, gone, stranded>>
  BY DEF CascadeFind, fileHistory
<1>2. scheduled \in BOOLEAN /\ lone \in BOOLEAN
  OBVIOUS
<1>3. /\ (scheduled <=> "interview" \in children)
      /\ (lone <=> \A v \in Workers \ {w} : worker[v] = Free)
  OBVIOUS
<1> HIDE DEF scheduled, lone
<1>4. s \in WorkStates /\ s.stage = "found" /\ s.event = scheduled /\ s.alone = lone
  BY <1>2, CascadeStates
<1> HIDE DEF s
<1>5. /\ worker' \in [Workers -> WorkStates] /\ worker'[w] = s /\ OthersKeep(w)
      /\ worker[w].stage = "idle"
  BY <1>1, <1>4, BeginKeeps, FreeIsIdle
<1>6. InHand(w) = {} /\ Listed(w) = {} /\ InHand(w)' = {} /\ Listed(w)' = {}
  BY <1>4, <1>5, HandAndList, NextHandAndList
<1>7. FileTypeOK'
  BY <1>1, <1>5, FilesAreKept DEF FileTypeOK
<1>8. AloneSoFar(w)'
  <2> SUFFICES ASSUME lone
               PROVE  /\ \A v \in Workers \ {w} : worker'[v] = Free
                      /\ (worker'[w].event <=> "interview" \in children')
    BY <1>4, <1>5 DEF AloneSoFar
  <2> QED
    BY <1>1, <1>3, <1>4, <1>5 DEF OthersKeep, GoesOnWith
<1>9. LinkGoes'
  BY <1>1, <1>5, LinkStays
<1>10. CandidateDocs' = CandidateDocs
  BY <1>1 DEF CandidateDocs
<1>11. DeletedIsGone' /\ NobodyAtWork'
  BY <1>1, <1>4, <1>5, <1>6, <1>10, GoneStays
<1> QED
  BY <1>1, <1>5, <1>6, <1>7, <1>8, <1>9, <1>11, PlainStep

\* What an alone cascade knows.
LEMMA KnownAlone ==
    ASSUME FileIInv, NEW w \in Workers
    PROVE  AloneSoFar(w) /\ worker[w] \in WorkStates
BY DEF FileIInv, FileTypeOK

\* The interviews go, their events, and what is kept by the candidate's key.
LEMMA CascadeGoesOn ==
    ASSUME FileIInv, NEW w \in Workers,
           CascadeChildren(w) \/ CascadeCalendar(w) \/ CascadeByKey(w)
    PROVE  FileIInv'
<1> DEFINE stage == IF worker[w].stage = "found" THEN "unscheduled"
                    ELSE IF worker[w].stage = "unscheduled" THEN "cleaned" ELSE "unkeyed"
           s == [worker[w] EXCEPT !.stage = stage]
<1>1. /\ worker[w].stage \in {"found", "unscheduled", "cleaned"} /\ Step(w, s)
      /\ UNCHANGED <<rows, blobs, candidate, torn, kept, promoted, gone, stranded>>
      /\ worker[w].stage = "found" =>
           link' = link /\ children' = IF worker[w].event THEN children \ {"interview"} ELSE children
      /\ worker[w].stage = "unscheduled" => link' = (link /\ ~worker[w].event) /\ children' = children
      /\ worker[w].stage = "cleaned" => link' = link /\ children' = children \ {"bgv"}
  BY DEF CascadeChildren, CascadeCalendar, CascadeByKey, fileHistory
<1>2. AloneSoFar(w) /\ worker[w] \in WorkStates /\ worker[w] # Free
  BY <1>1, KnownAlone, FreeIsIdle
<1>3. stage \in {"found", "unscheduled", "cleaned", "unkeyed"} /\ stage # "found"
  OBVIOUS
<1>4. s \in WorkStates /\ s.stage = stage /\ s.event = worker[w].event /\ s.alone = worker[w].alone
  <2> HIDE DEF stage
  <2> QED
    BY <1>1, <1>2, <1>3, CascadeStep
<1>5. /\ worker[w].stage = "found" => stage = "unscheduled"
      /\ worker[w].stage = "unscheduled" => stage = "cleaned"
      /\ worker[w].stage = "cleaned" => stage = "unkeyed"
  OBVIOUS
<1> HIDE DEF s, stage
<1>6. /\ worker' \in [Workers -> WorkStates] /\ worker'[w] = s /\ OthersKeep(w)
      /\ \A v \in Workers \ {w} : worker'[v] = worker[v]
  BY <1>1, <1>2, <1>4, StepKeeps, WorkerSteps, FilesAreKept
<1>7. InHand(w) = {} /\ Listed(w) = {} /\ InHand(w)' = {} /\ Listed(w)' = {}
  BY <1>1, <1>3, <1>4, <1>6, HandAndList, NextHandAndList
<1>8. children' \subseteq children /\ (link' => link) /\ link' \in BOOLEAN
  <2>1. children' \subseteq children
    BY <1>1
  <2>2. link \in BOOLEAN
    BY FilesAreKept DEF FileTypeOK
  <2>3. CASE worker[w].stage = "unscheduled"
    <3>1. link' = (link /\ ~worker[w].event)
      BY <1>1, <2>3
    <3>2. (link /\ ~worker[w].event) \in BOOLEAN
      OBVIOUS
    <3>3. (link /\ ~worker[w].event) => link
      OBVIOUS
    <3> QED
      BY <2>1, <3>1, <3>2, <3>3
  <2>4. CASE worker[w].stage # "unscheduled"
    <3>1. link' = link
      BY <1>1, <2>4
    <3> QED
      BY <2>1, <2>2, <3>1
  <2> QED
    BY <2>3, <2>4
<1>9. FileTypeOK'
  BY <1>1, <1>6, <1>8, FilesAreKept DEF FileTypeOK
<1>10. AloneSoFar(w)'
  <2> SUFFICES ASSUME worker[w].alone
               PROVE  /\ \A v \in Workers \ {w} : worker'[v] = Free
                      /\ "interview" \notin children'
                      /\ stage = "unkeyed" => children' = {}
    BY <1>3, <1>4, <1>6 DEF AloneSoFar
  <2>1. /\ \A v \in Workers \ {w} : worker[v] = Free
        /\ worker[w].stage = "found" => (worker[w].event <=> "interview" \in children)
        /\ worker[w].stage # "found" => "interview" \notin children
    BY <1>1, <1>2 DEF AloneSoFar, Cascading
  <2>2. "interview" \notin children'
    BY <1>1, <1>8, <2>1
  <2>3. stage = "unkeyed" => children' = {}
    <3> SUFFICES ASSUME stage = "unkeyed"
                 PROVE  children' = {}
      OBVIOUS
    <3>1. worker[w].stage = "cleaned"
      BY <1>1, <1>5
    <3> QED
      BY <1>1, <2>2, <3>1, FilesAreKept DEF FileTypeOK, Children
  <2> QED
    BY <1>6, <2>1, <2>2, <2>3
<1>11. LinkGoes'
  <2>1. CASE worker[w].stage = "unscheduled"
    <3> SUFFICES ASSUME link', "interview" \notin children', ~stranded'
                 PROVE  \E v \in Workers : worker'[v].stage = "unscheduled" /\ worker'[v].event
      BY DEF LinkGoes
    <3>1. link /\ ~worker[w].event /\ "interview" \notin children /\ ~stranded
      BY <1>1, <2>1
    <3>2. PICK v \in Workers : worker[v].stage = "unscheduled" /\ worker[v].event
      BY <3>1, FilesAreKept DEF LinkGoes
    <3>3. v # w
      BY <3>1, <3>2
    <3> QED
      BY <1>6, <3>2, <3>3
  <2>2. CASE worker[w].stage = "found" /\ worker[w].event
    <3>1. worker'[w].stage = "unscheduled" /\ worker'[w].event
      BY <1>4, <1>5, <1>6, <2>2
    <3> QED
      BY <3>1 DEF LinkGoes
  <2>3. CASE worker[w].stage = "cleaned" \/ (worker[w].stage = "found" /\ ~worker[w].event)
    <3>1. "interview" \in children => "interview" \in children'
      BY <1>1, <2>3
    <3> QED
      BY <1>1, <1>6, <1>8, <2>3, <3>1, LinkStays
  <2> QED
    BY <1>1, <2>1, <2>2, <2>3
<1>12. CandidateDocs' = CandidateDocs
  BY <1>1 DEF CandidateDocs
<1>13. DeletedIsGone' /\ NobodyAtWork'
  <2>1. worker'[w].stage \in {"found", "unscheduled", "cleaned", "unkeyed"}
    BY <1>3, <1>4, <1>6
  <2> QED
    BY <1>1, <1>6, <1>7, <1>8, <1>12, <2>1, GoneStays
<1> QED
  BY <1>1, <1>6, <1>7, <1>9, <1>10, <1>11, <1>13, PlainStep

\* The cascade lists the documents.
LEMMA CascadeLists ==
    ASSUME FileIInv, NEW w \in Workers, CascadeList(w)
    PROVE  FileIInv'
<1> DEFINE s == [stage |-> "sweeping", list |-> CandidateDocs, alone |-> worker[w].alone]
<1>1. /\ worker[w].stage = "unkeyed" /\ Step(w, s)
      /\ torn' = torn \union (CandidateDocs \intersect InWork)
      /\ UNCHANGED <<rows, blobs, children, link, candidate, kept, promoted, gone, stranded>>
  BY DEF CascadeList, TakeUp
<1>2. AloneSoFar(w) /\ worker[w] \in WorkStates /\ worker[w] # Free
  BY <1>1, KnownAlone, FreeIsIdle
<1>3. CandidateDocs \in SUBSET Docs /\ worker[w].alone \in BOOLEAN
  BY <1>1, <1>2, WorkFields DEF CandidateDocs, Cascading
<1>4. s \in WorkStates /\ s.stage = "sweeping" /\ s.list = CandidateDocs /\ s.alone = worker[w].alone
  BY <1>3, CascadeStates
<1> HIDE DEF s
<1>5. /\ worker' \in [Workers -> WorkStates] /\ worker'[w] = s /\ OthersKeep(w)
      /\ \A v \in Workers \ {w} : worker'[v] = worker[v]
  BY <1>1, <1>2, <1>4, StepKeeps, WorkerSteps, FilesAreKept
<1>6. /\ InHand(w)' = {} /\ Listed(w)' = CandidateDocs
      /\ \A d : Work(w, d)' = IF d \in CandidateDocs THEN "listed" ELSE "none"
      /\ \A d : Work(w, d) = "none"
      /\ InHand(w) = {} /\ Listed(w) = {}
  BY <1>1, <1>4, <1>5, HandAndList, NextHandAndList
<1>7. FileTypeOK'
  BY <1>1, <1>3, <1>5, FilesAreKept DEF FileTypeOK
<1>8. ASSUME NEW d \in Docs \ torn'
      PROVE  DocStands(d)'
  <2>1. CASE d \in CandidateDocs
    <3>1. d \notin InWork /\ Settled(d) /\ d \notin torn
      BY <1>1, <2>1, IsReached
    <3>2. rows[d] = OwnedBy("candidate") /\ rows[d] # OwnedBy("employee")
      BY <2>1, FilesAreKept, RowKinds
    <3>3. Candidates(d)
      BY <3>1, <3>2, FilesAreKept, RowKinds DEF Candidates, Settled
    <3>4. Reached(w, d)'
      BY <1>1, <1>6, <2>1, <3>3 DEF Reached, Candidates
    <3>5. d \notin promoted
      BY <3>1, <3>2 DEF FileIInv, DocStands
    <3> QED
      BY <1>1, <1>5, <1>6, <2>1, <3>1, <3>4, <3>5, OwnDoc
  <2>2. CASE d \notin CandidateDocs
    BY <1>1, <1>5, <1>6, <2>2, OtherDocs
  <2> QED
    BY <2>1, <2>2
<1>9. CandidateDocs' = CandidateDocs
  BY <1>1 DEF CandidateDocs
<1>10. AloneSoFar(w)'
  <2> SUFFICES ASSUME worker[w].alone
               PROVE  /\ \A v \in Workers \ {w} : worker'[v] = Free
                      /\ "interview" \notin children' /\ children' = {}
                      /\ CandidateDocs' \subseteq InHand(w)' \union Listed(w)'
                      /\ \A d \in Docs : <<d, "candidate">> \in blobs' => d \in kept' \union torn' \union Listed(w)'
    BY <1>4, <1>5 DEF AloneSoFar
  <2>1. /\ \A v \in Workers \ {w} : worker[v] = Free
        /\ "interview" \notin children /\ children = {}
    BY <1>1, <1>2 DEF AloneSoFar, Cascading
  <2>2. InWork = {}
    <3>1. \A v \in Workers : InHand(v) = {} /\ Listed(v) = {}
      BY <1>6, <2>1, FreeIsIdle, HandAndList
    <3> QED
      BY <3>1 DEF InWork
  <2>3. ASSUME NEW d \in Docs, <<d, "candidate">> \in blobs, d \notin kept, d \notin torn
        PROVE  d \in CandidateDocs
    <3>1. Settled(d)
      BY <2>2, <2>3, IsReached
    <3> QED
      BY <2>3, <3>1, FilesAreKept, RowKinds DEF Settled, Cleared
  <2> QED
    BY <1>1, <1>5, <1>6, <1>9, <2>1, <2>3
<1>11. LinkGoes'
  BY <1>1, <1>5, LinkStays
<1>12. DeletedIsGone' /\ NobodyAtWork'
  <2>1. gone => CandidateDocs = {}
    BY FilesAreKept DEF DeletedIsGone
  <2> QED
    BY <1>1, <1>4, <1>5, <1>6, <1>9, <2>1, GoneStays
<1> QED
  BY <1>5, <1>6, <1>7, <1>8, <1>10, <1>11, <1>12, FilesAssemble

\* A document of a sweep: its object goes, or is kept and logged.
LEMMA Sweeps ==
    ASSUME FileIInv, NEW w \in Workers, NEW e \in Docs, CascadeBlob(w, e)
    PROVE  FileIInv'
<1> DEFINE s == [stage |-> "swept", at |-> e, list |-> worker[w].list \ {e}, alone |-> worker[w].alone]
<1>1. /\ worker[w].stage = "sweeping" /\ e \in worker[w].list /\ Step(w, s)
      /\ \/ blobs' = blobs \ {<<e, "candidate">>} /\ kept' = kept
         \/ blobs' = blobs /\ kept' = kept \union {e}
      /\ UNCHANGED <<rows, children, link, candidate, torn, promoted, gone, stranded>>
  BY DEF CascadeBlob
<1>2. AloneSoFar(w) /\ worker[w] \in WorkStates /\ worker[w] # Free
  BY <1>1, KnownAlone, FreeIsIdle
<1>3. worker[w].list \in SUBSET Docs /\ worker[w].alone \in BOOLEAN
  BY <1>1, <1>2, WorkFields DEF Cascading
<1>4. /\ s \in WorkStates /\ s.stage = "swept" /\ s.at = e /\ s.list = worker[w].list \ {e}
      /\ s.alone = worker[w].alone
  BY <1>3, CascadeStates
<1> HIDE DEF s
<1>5. /\ worker' \in [Workers -> WorkStates] /\ worker'[w] = s /\ OthersKeep(w)
      /\ \A v \in Workers \ {w} : worker'[v] = worker[v]
  BY <1>1, <1>2, <1>4, StepKeeps, WorkerSteps, FilesAreKept
<1>6. /\ InHand(w)' = {e} /\ Listed(w)' = worker[w].list \ {e} /\ Listed(w) = worker[w].list
      /\ InHand(w) = {}
      /\ Work(w, e) = "listed" /\ Work(w, e)' = "swept"
      /\ \A d : Work(w, d) = IF d \in worker[w].list THEN "listed" ELSE "none"
      /\ \A d : d # e => Work(w, d)' = IF d \in worker[w].list THEN "listed" ELSE "none"
  BY <1>1, <1>4, <1>5, HandAndList, NextHandAndList
<1>7. FileTypeOK'
  <2>1. blobs' \subseteq Docs \X Folders /\ kept' \subseteq Docs
    BY <1>1, FilesAreKept DEF FileTypeOK
  <2> QED
    BY <1>1, <1>5, <2>1, FilesAreKept DEF FileTypeOK
<1>8. Cleared(e)'
  BY <1>1 DEF Cleared
<1>9. ASSUME NEW d \in Docs \ torn'
      PROVE  DocStands(d)'
  <2>1. CASE d = e
    <3>1. Reached(w, d)'
      BY <1>6, <1>8, <2>1 DEF Reached
    <3>2. d \notin promoted'
      BY <1>1, <1>6, <2>1, NotPromoted
    <3> QED
      BY <1>1, <1>5, <1>6, <2>1, <3>1, <3>2, OwnDoc
  <2>2. CASE d # e
    <3>1. /\ Work(w, d)' = Work(w, d) /\ Work(w, d) # "deleting"
          /\ \A folder \in Folders : <<d, folder>> \in blobs' <=> <<d, folder>> \in blobs
          /\ d \in kept => d \in kept'
      BY <1>1, <1>6, <2>2
    <3> QED
      BY <1>1, <1>5, <3>1, OtherDocs
  <2> QED
    BY <2>1, <2>2
<1>10. CandidateDocs' = CandidateDocs
  BY <1>1 DEF CandidateDocs
<1>11. AloneSoFar(w)'
  <2> SUFFICES ASSUME worker[w].alone
               PROVE  /\ \A v \in Workers \ {w} : worker'[v] = Free
                      /\ "interview" \notin children' /\ children' = {}
                      /\ CandidateDocs' \subseteq InHand(w)' \union Listed(w)'
                      /\ \A d \in Docs : <<d, "candidate">> \in blobs' => d \in kept' \union torn' \union Listed(w)'
    BY <1>4, <1>5 DEF AloneSoFar
  <2>1. /\ \A v \in Workers \ {w} : worker[v] = Free
        /\ "interview" \notin children /\ children = {}
        /\ CandidateDocs \subseteq InHand(w) \union Listed(w)
        /\ \A d \in Docs : <<d, "candidate">> \in blobs => d \in kept \union torn \union Listed(w)
    BY <1>1, <1>2 DEF AloneSoFar, Cascading
  <2>2. ASSUME NEW d \in Docs, <<d, "candidate">> \in blobs'
        PROVE  d \in kept' \union torn' \union Listed(w)'
    <3>1. CASE d = e
      BY <1>8, <2>2, <3>1 DEF Cleared
    <3>2. CASE d # e
      <4>1. <<d, "candidate">> \in blobs /\ kept \subseteq kept'
        BY <1>1, <2>2
      <4> QED
        BY <1>1, <1>6, <2>1, <3>2, <4>1
    <3> QED
      BY <3>1, <3>2
  <2> QED
    BY <1>1, <1>5, <1>6, <1>10, <2>1, <2>2
<1>12. LinkGoes'
  BY <1>1, <1>5, LinkStays
<1>13. DeletedIsGone' /\ NobodyAtWork'
  <2>1. ~gone
    BY <1>1, <1>6, FilesAreKept DEF NobodyAtWork
  <2> QED
    BY <1>1, <2>1 DEF DeletedIsGone, NobodyAtWork
<1>14. InHand(w)' \intersect Listed(w)' = {}
  BY <1>6
<1> QED
  BY <1>5, <1>7, <1>9, <1>11, <1>12, <1>13, <1>14, FilesAssemble

\* And its row.
LEMMA SweptRow ==
    ASSUME FileIInv, NEW w \in Workers, CascadeRow(w)
    PROVE  FileIInv'
<1> PICK e \in Docs : e = worker[w].at
  BY FilesAreKept, WorkFields DEF FileTypeOK, CascadeRow
<1> DEFINE s == [stage |-> "sweeping", list |-> worker[w].list, alone |-> worker[w].alone]
<1>1. /\ worker[w].stage = "swept" /\ rows' = [rows EXCEPT ![e] = NoRow] /\ Step(w, s)
      /\ UNCHANGED <<blobs, children, link, candidate, torn, kept, promoted, gone, stranded>>
  BY DEF CascadeRow, fileHistory
<1>2. AloneSoFar(w) /\ worker[w] \in WorkStates /\ worker[w] # Free
  BY <1>1, KnownAlone, FreeIsIdle
<1>3. worker[w].list \in SUBSET Docs /\ worker[w].alone \in BOOLEAN
  BY <1>1, <1>2, WorkFields DEF Cascading
<1>4. s \in WorkStates /\ s.stage = "sweeping" /\ s.list = worker[w].list /\ s.alone = worker[w].alone
  BY <1>3, CascadeStates
<1> HIDE DEF s
<1>5. /\ worker' \in [Workers -> WorkStates] /\ worker'[w] = s /\ OthersKeep(w)
      /\ \A v \in Workers \ {w} : worker'[v] = worker[v]
  BY <1>1, <1>2, <1>4, StepKeeps, WorkerSteps, FilesAreKept
<1>6. /\ InHand(w) = {e} /\ Listed(w) = worker[w].list /\ e \notin worker[w].list
      /\ InHand(w)' = {} /\ Listed(w)' = worker[w].list
      /\ Work(w, e) = "swept" /\ Work(w, e)' = "none"
      /\ \A d : d # e => Work(w, d)' = Work(w, d)
      /\ \A d : Work(w, d) # "deleting"
  <2>1. InHand(w) \intersect Listed(w) = {}
    BY FilesAreKept DEF OffTheList
  <2> QED
    BY <1>1, <1>4, <1>5, <2>1, HandAndList, NextHandAndList
<1>7. rows'[e] = NoRow /\ \A d \in Docs : d # e => rows'[d] = rows[d]
  BY <1>1, FilesAreKept DEF FileTypeOK
<1>8. FileTypeOK'
  BY <1>1, <1>5, FilesAreKept DEF FileTypeOK
<1>9. ASSUME NEW d \in Docs \ torn'
      PROVE  DocStands(d)'
  <2>1. CASE d = e
    <3>1. Reached(w, d) /\ d \notin promoted
      BY <1>1, <1>6, <2>1, IsReached, NotPromoted
    <3>2. Settled(d)'
      BY <1>1, <1>6, <1>7, <2>1, <3>1 DEF Reached, Settled, Cleared
    <3>3. Reached(w, d)'
      BY <1>6, <2>1 DEF Reached
    <3> QED
      BY <1>1, <1>5, <1>6, <2>1, <3>1, <3>2, <3>3, OwnDoc
  <2>2. CASE d # e
    BY <1>1, <1>5, <1>6, <1>7, <2>2, OtherDocs
  <2> QED
    BY <2>1, <2>2
<1>10. CandidateDocs' = CandidateDocs \ {e}
  BY <1>7 DEF CandidateDocs, NoRow
<1>11. AloneSoFar(w)'
  <2> SUFFICES ASSUME worker[w].alone
               PROVE  /\ \A v \in Workers \ {w} : worker'[v] = Free
                      /\ "interview" \notin children' /\ children' = {}
                      /\ CandidateDocs' \subseteq InHand(w)' \union Listed(w)'
                      /\ \A d \in Docs : <<d, "candidate">> \in blobs' => d \in kept' \union torn' \union Listed(w)'
    BY <1>4, <1>5 DEF AloneSoFar
  <2>1. /\ \A v \in Workers \ {w} : worker[v] = Free
        /\ "interview" \notin children /\ children = {}
        /\ CandidateDocs \subseteq InHand(w) \union Listed(w)
        /\ \A d \in Docs : <<d, "candidate">> \in blobs => d \in kept \union torn \union Listed(w)
    BY <1>1, <1>2 DEF AloneSoFar, Cascading
  <2> QED
    BY <1>1, <1>5, <1>6, <1>10, <2>1
<1>12. LinkGoes'
  BY <1>1, <1>5, LinkStays
<1>13. DeletedIsGone' /\ NobodyAtWork'
  <2>1. ~gone
    BY <1>1, FilesAreKept DEF NobodyAtWork
  <2> QED
    BY <1>1, <2>1 DEF DeletedIsGone, NobodyAtWork
<1>14. InHand(w)' \intersect Listed(w)' = {}
  BY <1>6
<1> QED
  BY <1>5, <1>8, <1>9, <1>11, <1>12, <1>13, <1>14, FilesAssemble

\* The candidate's own row goes last.
LEMMA CandidateGoes ==
    ASSUME FileIInv, NEW w \in Workers, CascadeCandidate(w)
    PROVE  FileIInv'
<1>1. /\ worker[w].stage = "sweeping" /\ worker[w].list = {} /\ candidate' = FALSE
      /\ gone' = worker[w].alone /\ Step(w, Free)
      /\ UNCHANGED <<rows, blobs, children, link, torn, kept, promoted, stranded>>
  BY DEF CascadeCandidate
<1>2. AloneSoFar(w) /\ worker[w] \in WorkStates /\ worker[w] # Free
  BY <1>1, KnownAlone, FreeIsIdle
<1>3. worker[w].alone \in BOOLEAN
  BY <1>1, <1>2, WorkFields DEF Cascading
<1>4. /\ worker' \in [Workers -> WorkStates] /\ worker'[w] = Free /\ OthersKeep(w)
      /\ \A v \in Workers \ {w} : worker'[v] = worker[v]
      /\ worker'[w].stage = "idle"
  BY <1>1, <1>2, StepKeeps, WorkerSteps, FilesAreKept, FreeIsIdle
<1>5. InHand(w) = {} /\ Listed(w) = {} /\ InHand(w)' = {} /\ Listed(w)' = {}
  BY <1>1, <1>4, HandAndList, NextHandAndList
<1>6. FileTypeOK'
  BY <1>1, <1>3, <1>4, FilesAreKept DEF FileTypeOK
<1>7. AloneSoFar(w)'
  BY <1>4 DEF AloneSoFar, Cascading
<1>8. LinkGoes'
  BY <1>1, <1>4, LinkStays
<1>9. DeletedIsGone' /\ NobodyAtWork'
  <2> SUFFICES ASSUME gone'
               PROVE  DeletedIsGone' /\ NobodyAtWork'
    BY DEF DeletedIsGone, NobodyAtWork
  <2>1. /\ \A v \in Workers \ {w} : worker[v] = Free
        /\ "interview" \notin children /\ children = {}
        /\ CandidateDocs \subseteq InHand(w) \union Listed(w)
        /\ \A d \in Docs : <<d, "candidate">> \in blobs => d \in kept \union torn \union Listed(w)
    BY <1>1, <1>2 DEF AloneSoFar, Cascading
  <2>2. \A v \in Workers : worker'[v] = Free
    BY <1>4, <2>1
  <2>3. NobodyAtWork'
    <3>1. ASSUME NEW v \in Workers
          PROVE  worker'[v].stage = "idle" /\ Listed(v)' = {}
      BY <2>2, FreeIsIdle, NextHandAndList
    <3> QED
      BY <3>1 DEF NobodyAtWork
  <2>4. link => stranded
    <3>1. ASSUME NEW v \in Workers
          PROVE  worker[v].stage # "unscheduled"
      BY <1>1, <2>1, FreeIsIdle
    <3> QED
      BY <2>1, <3>1, FilesAreKept DEF LinkGoes
  <2>5. CandidateDocs' = {}
    BY <1>1, <1>5, <2>1 DEF CandidateDocs
  <2>6. DeletedIsGone'
    BY <1>1, <1>5, <2>1, <2>4, <2>5 DEF DeletedIsGone
  <2> QED
    BY <2>3, <2>6
<1> QED
  BY <1>1, <1>4, <1>5, <1>6, <1>7, <1>8, <1>9, PlainStep

\* A worker dies: what it had in hand is torn, what it had listed is nobody's again.
LEMMA Dies ==
    ASSUME FileIInv, NEW w \in Workers, Die(w)
    PROVE  FileIInv'
<1>1. /\ worker[w] # Free /\ torn' = torn \union InHand(w) /\ Step(w, Free)
      /\ stranded' = (stranded \/ (worker[w].stage = "unscheduled" /\ worker[w].event))
      /\ UNCHANGED <<rows, blobs, children, link, candidate, kept, promoted, gone>>
  BY DEF Die
<1>2. worker[w] \in WorkStates
  BY FilesAreKept DEF FileTypeOK
<1>3. /\ worker' \in [Workers -> WorkStates] /\ worker'[w] = Free /\ OthersKeep(w)
      /\ \A v \in Workers \ {w} : worker'[v] = worker[v]
      /\ worker'[w].stage = "idle"
  BY <1>1, StepKeeps, WorkerSteps, FilesAreKept, FreeIsIdle
<1>4. InHand(w)' = {} /\ Listed(w)' = {} /\ \A d : Work(w, d)' = "none"
  BY <1>3, NextHandAndList
<1>5. InHand(w) \subseteq Docs
  BY <1>2, WorkFields DEF InHand
<1>6. stranded' \in BOOLEAN /\ (stranded => stranded')
  <2>1. (stranded \/ (worker[w].stage = "unscheduled" /\ worker[w].event)) \in BOOLEAN
    OBVIOUS
  <2>2. stranded => (stranded \/ (worker[w].stage = "unscheduled" /\ worker[w].event))
    OBVIOUS
  <2> QED
    BY <1>1, <2>1, <2>2
<1>7. FileTypeOK'
  BY <1>1, <1>3, <1>5, <1>6, FilesAreKept DEF FileTypeOK
<1>8. ASSUME NEW d \in Docs \ torn'
      PROVE  DocStands(d)'
  <2>1. Work(w, d) \in {"listed", "none"} /\ d \notin torn
    BY <1>1 DEF Work
  <2>2. CASE Work(w, d) = "listed"
    <3>1. Candidates(d) /\ d \notin promoted
      BY <2>1, <2>2, IsReached, NotPromoted DEF Reached
    <3>2. Settled(d)'
      BY <1>1, <3>1, FilesAreKept, RowKinds DEF Candidates, Settled, Cleared
    <3>3. Reached(w, d)'
      BY <1>4 DEF Reached
    <3> QED
      BY <1>1, <1>3, <1>4, <2>2, <3>1, <3>2, <3>3, OwnDoc
  <2>3. CASE Work(w, d) = "none"
    BY <1>1, <1>3, <1>4, <2>3, OtherDocs
  <2> QED
    BY <2>1, <2>2, <2>3
<1>9. AloneSoFar(w)'
  BY <1>3 DEF AloneSoFar, Cascading
<1>10. LinkGoes'
  <2>1. CASE worker[w].stage = "unscheduled"
    <3> SUFFICES ASSUME link', "interview" \notin children', ~stranded'
                 PROVE  \E v \in Workers : worker'[v].stage = "unscheduled" /\ worker'[v].event
      BY DEF LinkGoes
    <3>1. ~stranded
      BY <1>6
    <3>2. ~worker[w].event
      BY <1>1, <2>1
    <3>3. PICK v \in Workers : worker[v].stage = "unscheduled" /\ worker[v].event
      BY <1>1, <3>1, FilesAreKept DEF LinkGoes
    <3>4. v # w
      BY <3>2, <3>3
    <3> QED
      BY <1>3, <3>3, <3>4
  <2>2. CASE worker[w].stage # "unscheduled"
    BY <1>1, <1>3, <1>6, <2>2, LinkStays
  <2> QED
    BY <2>1, <2>2
<1>11. CandidateDocs' = CandidateDocs
  BY <1>1 DEF CandidateDocs
<1>12. DeletedIsGone' /\ NobodyAtWork'
  BY <1>1, <1>3, <1>4, <1>6, <1>11, GoneStays
<1>13. InHand(w)' \intersect Listed(w)' = {}
  BY <1>4
<1> QED
  BY <1>3, <1>7, <1>8, <1>9, <1>10, <1>12, <1>13, FilesAssemble

\* A step that changes nothing.
LEMMA FilesRest ==
    ASSUME FileIInv, UNCHANGED fileVars
    PROVE  FileIInv'
<1>1. /\ worker' = worker /\ rows' = rows /\ blobs' = blobs /\ children' = children
      /\ link' = link /\ candidate' = candidate /\ torn' = torn /\ kept' = kept
      /\ promoted' = promoted /\ gone' = gone /\ stranded' = stranded
  BY DEF fileVars
<1>2. \A w \in Workers : InHand(w)' = InHand(w) /\ Listed(w)' = Listed(w)
  BY <1>1 DEF InHand, Listed
<1>3. FileTypeOK' /\ OffTheList' /\ LinkGoes' /\ NobodyAtWork'
  BY <1>1, <1>2 DEF FileIInv, FileTypeOK, OffTheList, LinkGoes, NobodyAtWork
<1>4. CandidateDocs' = CandidateDocs
  BY <1>1 DEF CandidateDocs
<1>5. DeletedIsGone'
  BY <1>1, <1>4 DEF FileIInv, DeletedIsGone
<1>6. \A w \in Workers : AloneSoFar(w)'
  BY <1>1, <1>2, <1>4 DEF FileIInv, AloneSoFar
<1>7. ASSUME NEW d \in Docs \ torn'
      PROVE  DocStands(d)'
  <2>1. \A v \in Workers : Work(v, d)' = Work(v, d) /\ worker'[v] = worker[v]
    BY <1>1, <1>2 DEF Work
  <2>2. FileTypeOK /\ DocStands(d)
    BY <1>1 DEF FileIInv
  <2> QED
    BY <1>1, <2>1, <2>2, DocApart
<1> QED
  BY <1>3, <1>5, <1>6, <1>7 DEF FileIInv

LEMMA FilesBegin ==
    ASSUME FileInit
    PROVE  FileIInv
<1>1. \A w \in Workers : worker[w] = Free /\ worker[w].stage = "idle"
  BY FreeIsIdle DEF FileInit
<1>2. \A w \in Workers : InHand(w) = {} /\ Listed(w) = {} /\ \A d : Work(w, d) = "none"
  BY <1>1, HandAndList
<1>3. FileTypeOK
  BY FreeIsIdle DEF FileInit, FileTypeOK, Children
<1>4. \A d \in Docs : DocStands(d)
  BY <1>2, <1>3, RowKinds DEF FileInit, DocStands, Settled, Cleared, Reached
<1>5. OffTheList /\ LinkGoes /\ DeletedIsGone /\ NobodyAtWork
  BY <1>2 DEF FileInit, OffTheList, LinkGoes, DeletedIsGone, NobodyAtWork, Children
<1>6. \A w \in Workers : AloneSoFar(w)
  BY <1>1 DEF AloneSoFar, Cascading
<1> QED
  BY <1>3, <1>4, <1>5, <1>6 DEF FileIInv

LEMMA FilesStep ==
    ASSUME FileIInv, [FileNext]_fileVars
    PROVE  FileIInv'
<1>1. CASE UNCHANGED fileVars
  BY <1>1, FilesRest
<1>2. ASSUME NEW w \in Workers, NEW d \in Docs,
             \/ UploadBlob(w, d) \/ DriveStore(w, d) \/ DeleteGet(w, d)
             \/ PromoteCopy(w, d) \/ PromoteSkip(w, d) \/ CascadeBlob(w, d)
      PROVE  FileIInv'
  BY <1>2, Uploads, DeletionBegins, Copies, Sweeps
<1>3. ASSUME NEW w \in Workers,
             \/ UploadRow(w) \/ DeleteBlob(w) \/ DeleteRow(w) \/ PromoteFind(w)
             \/ PromoteDropOld(w) \/ PromoteRow(w)
      PROVE  FileIInv'
  BY <1>3, UploadEnds, DeletionEnds, PromotionBegins, DropsOld, NamesNew
<1>4. ASSUME NEW w \in Workers,
             \/ DriveFetch(w) \/ (\E kind \in Children : ChildRead(w, kind)) \/ ChildWrite(w)
             \/ PromoteEnd(w)
      PROVE  FileIInv'
  BY <1>4, OtherRequests
<1>5. ASSUME NEW w \in Workers,
             \/ CascadeFind(w) \/ CascadeChildren(w) \/ CascadeCalendar(w) \/ CascadeByKey(w)
             \/ CascadeList(w) \/ CascadeRow(w) \/ CascadeCandidate(w) \/ Die(w)
      PROVE  FileIInv'
  BY <1>5, CascadeBegins, CascadeGoesOn, CascadeLists, SweptRow, CandidateGoes, Dies
<1> QED
  BY <1>1, <1>2, <1>3, <1>4, <1>5 DEF FileNext

\* FileIInv holds in every state: a document that is not torn is where the one worker that holds
\* it has brought it, and a cascade that runs alone has left nothing behind so far.
THEOREM FilesInvariance == FileSpec => []FileIInv
<1> QED
  BY FilesBegin, FilesStep, PTL DEF FileSpec

\* DocumentsStand: however uploads, deletions, promotions and cascades (documents.py,
\* candidate_promote.py, candidate_delete.py) overlap or die, a documents row that nobody is working
\* on names an object that exists, a promoted document stays the employee's, and a cascade that
\* overlapped nothing leaves nothing of the candidate.
THEOREM DocumentsKeepStanding == FileSpec => []DocumentsStand
<1>1. ASSUME FileIInv
      PROVE  DocumentsStand
  <2>1. FileTypeOK /\ DeletedIsGone
    BY <1>1, FilesAreKept
  <2>2. ASSUME NEW d \in Docs \ (InWork \union torn), rows[d] # NoRow
        PROVE  <<d, rows[d].key>> \in blobs
    <3>1. DocStands(d) /\ \A w \in Workers : Work(w, d) = "none"
      BY <1>1, <2>2 DEF FileIInv, InWork, Work
    <3> QED
      BY <2>2, <3>1 DEF DocStands, Settled
  <2>3. ASSUME NEW d \in promoted \ torn
        PROVE  rows[d] = OwnedBy("employee") /\ <<d, "employee">> \in blobs
    <3>1. d \in Docs
      BY <2>1 DEF FileTypeOK
    <3>2. DocStands(d)
      BY <1>1, <3>1 DEF FileIInv
    <3>3. rows[d] = OwnedBy("employee") /\ Settled(d)
      BY <3>2 DEF DocStands
    <3> QED
      BY <2>1, <3>1, <3>3, RowKinds DEF Settled
  <2> QED
    BY <2>1, <2>2, <2>3 DEF DocumentsStand, RowsHaveBlobs, PromotedStays
<1> QED
  BY <1>1, FilesInvariance, PTL

(***************************************************************************)
(* All eight together, as MCStaff composes them.                           *)
(***************************************************************************)

\* Each component's part of a behaviour of MCStaff is a behaviour of the component.
LEMMA ComponentsBehave ==
    StaffSpec => /\ Spec /\ FileSpec /\ CalendarSpec /\ CodesSpec
                 /\ HandoverSpec /\ JoiningSpec /\ SignatureSpec /\ EmailSpec
<1>1. StaffInit => /\ Init /\ FileInit /\ CalendarInit /\ CodesInit
                   /\ HandoverInit /\ JoiningInit /\ SignatureInit
  BY DEF StaffInit
<1>2. StaffInit => EmailInit
  <2> SUFFICES ASSUME StaffInit, part # "emails"
               PROVE  EmailInit
    BY DEF StaffInit
  <2>1. /\ staff = [e \in Staff |-> [email |-> private, offboarded |-> FALSE, candidate |-> "none"]]
        /\ records = [r \in Records |-> NoOnboarding]
        /\ plan = NoMoves /\ phase = "new"
        /\ current = NobodyRead /\ edits = 0 /\ touched = {}
    BY DEF StaffInit
  <2>2. private \in Addresses /\ private \notin Company
    BY PrivateAddress, EmailAssumption DEF Addresses
  <2>3. [email |-> private, offboarded |-> FALSE, candidate |-> "none"] \in Employee
    BY <2>2 DEF Employee
  <2>4. staff \in [Staff -> Employee] /\ \A e \in Staff : staff[e].email \notin Company
    BY <2>1, <2>2, <2>3
  <2>5. records \in [Records -> Onboarding]
    BY <2>1 DEF NoOnboarding, Onboarding
  <2> QED
    BY <2>1, <2>4, <2>5 DEF EmailInit
<1>3. [StaffNext]_staffVars =>
        /\ [Next]_accountVars /\ [FileNext]_fileVars /\ [CalendarNext]_calendarVars
        /\ [CodesNext]_codeVars /\ [HandoverNext]_handoverVars /\ [JoiningNext]_joiningVars
        /\ [SignatureNext]_signatureVars /\ [EmailNext]_emailVars
  BY DEF StaffNext, staffVars
<1> QED
  BY <1>1, <1>2, <1>3, PTL
     DEF StaffSpec, Spec, FileSpec, CalendarSpec, CodesSpec, HandoverSpec, JoiningSpec,
         SignatureSpec, EmailSpec

\* StaffTypeOK: every variable of the eight components has its type.
THEOREM StaffTypesCorrect == StaffSpec => []StaffTypeOK
<1>1. /\ IInv => AccountTypeOK
      /\ FileIInv => FileTypeOK
      /\ CalendarIInv => CalendarTypeOK
      /\ CodesIInv => CodesTypeOK
      /\ HandoverIInv => HandoverTypeOK
      /\ JoiningIInv => JoiningTypeOK
      /\ SignatureIInv => SignatureTypeOK
      /\ EmailIInv => EmailTypeOK
  BY DEF IInv, FileIInv, CalendarIInv, CodesIInv, HandoverIInv, JoiningIInv, SignatureIInv, EmailIInv
<1>2. /\ AccountTypeOK /\ FileTypeOK /\ CalendarTypeOK /\ CodesTypeOK
      /\ HandoverTypeOK /\ SignatureTypeOK /\ EmailTypeOK /\ JoiningTypeOK
      => StaffTypeOK
  BY DEF StaffTypeOK
<1> QED
  BY <1>1, <1>2, ComponentsBehave, AccountsInvariance, FilesInvariance, CalendarInvariance,
     CodesInvariance, HandoverInvariance, JoiningInvariance, SignatureInvariance,
     EmailInvariance, PTL

\* LinksAddUp: HandoverAddsUp and JoiningStands of the two token links (exit_handover.py,
\* joining_confirmations.py), in the composition that the run checks.
THEOREM LinksHold == StaffSpec => []LinksAddUp
<1>1. HandoverAddsUp /\ JoiningStands => LinksAddUp
  BY DEF LinksAddUp
<1> QED
  BY <1>1, ComponentsBehave, HandoverStandsUp, JoiningStandsUp, PTL
=============================================================================
