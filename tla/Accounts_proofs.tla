--------------------------- MODULE Accounts_proofs ---------------------------
(***************************************************************************)
(* Proofs about Accounts for any addresses, any number of threads, any     *)
(* number of invitations and of accounts.                                  *)
(***************************************************************************)
EXTENDS Accounts, FiniteSetTheorems, TLAPS

(***************************************************************************)
(* What the records hold.                                                  *)
(***************************************************************************)

\* What a thread may be doing, by its stage.
LEMMA Doings ==
    ASSUME NEW state \in Doing
    PROVE  /\ state.stage \in {"idle", "finding", "merging", "creating", "free", "moving", "moved"}
           /\ state.stage = "idle" <=> state = Idle
           /\ state # Idle => state.email \in Emails
           /\ state.stage \in {"finding", "merging", "creating"} => state.new \in Tokens \union {0}
           /\ state.stage \in {"finding", "merging"} => state.burn \in Tokens \union {0}
           /\ state.stage \in {"free", "moving", "moved"} => state.to \in Emails
           /\ state.stage \in {"merging", "moving", "moved"} => state.copy \in Account
BY DEF Doing, Idle

\* The states that a step brings about.
LEMMA Made ==
    /\ Idle \in Doing /\ Idle.stage = "idle"
    /\ \A e \in Emails, n \in Tokens \union {0} :
         [stage |-> "creating", email |-> e, new |-> n] \in Doing
    /\ \A e \in Emails, n, m \in Tokens \union {0} :
         [stage |-> "finding", email |-> e, burn |-> m, new |-> n, copy |-> NoAccount] \in Doing
    /\ \A e, to \in Emails :
         [stage |-> "free", email |-> e, to |-> to, copy |-> NoAccount] \in Doing
    /\ \A state \in Doing, copy \in Account :
         /\ state.stage = "finding" => [state EXCEPT !.stage = "merging", !.copy = copy] \in Doing
         /\ state.stage = "free" => [state EXCEPT !.stage = "moving", !.copy = copy] \in Doing
         /\ state.stage = "moving" => [state EXCEPT !.stage = "moved"] \in Doing
<1>1. /\ Idle \in Doing /\ Idle.stage = "idle"
      /\ \A e \in Emails, n \in Tokens \union {0} :
           [stage |-> "creating", email |-> e, new |-> n] \in Doing
      /\ \A e, to \in Emails :
           [stage |-> "free", email |-> e, to |-> to, copy |-> NoAccount] \in Doing
  BY DEF Doing, Idle
<1>2. \A e \in Emails, n, m \in Tokens \union {0} :
        [stage |-> "finding", email |-> e, burn |-> m, new |-> n, copy |-> NoAccount] \in Doing
  BY DEF Doing
<1>3. ASSUME NEW state \in Doing, NEW copy \in Account
      PROVE  /\ state.stage = "finding" => [state EXCEPT !.stage = "merging", !.copy = copy] \in Doing
             /\ state.stage = "free" => [state EXCEPT !.stage = "moving", !.copy = copy] \in Doing
             /\ state.stage = "moving" => [state EXCEPT !.stage = "moved"] \in Doing
  <2>1. ASSUME state.stage = "finding"
        PROVE  [state EXCEPT !.stage = "merging", !.copy = copy] \in Doing
    <3>1. state \in [stage : {"finding"}, email : Emails, burn : Tokens \union {0},
                     new : Tokens \union {0}, copy : {NoAccount}]
      BY <2>1 DEF Doing, Idle
    <3>2. [state EXCEPT !.stage = "merging", !.copy = copy] \in
            [stage : {"merging"}, email : Emails, burn : Tokens \union {0},
             new : Tokens \union {0}, copy : Account]
      BY <3>1
    <3> QED
      BY <3>2 DEF Doing
  <2>2. ASSUME state.stage = "free"
        PROVE  [state EXCEPT !.stage = "moving", !.copy = copy] \in Doing
    <3>1. state \in [stage : {"free"}, email : Emails, to : Emails, copy : {NoAccount}]
      BY <2>2 DEF Doing, Idle
    <3>2. [state EXCEPT !.stage = "moving", !.copy = copy] \in
            [stage : {"moving", "moved"}, email : Emails, to : Emails, copy : Account]
      BY <3>1
    <3> QED
      BY <3>2 DEF Doing
  <2>3. ASSUME state.stage = "moving"
        PROVE  [state EXCEPT !.stage = "moved"] \in Doing
    BY <2>3 DEF Doing, Idle
  <2> QED
    BY <2>1, <2>2, <2>3
<1> QED
  BY <1>1, <1>2, <1>3

LEMMA Rows ==
    /\ NoAccount.who = 0 /\ NoAccount.token = 0
    /\ \A account \in Account \union {NoAccount} :
         account.who \in People \union {0} /\ account.token \in Tokens \union {0}
    /\ \A p \in People, n \in Tokens \union {0} :
         LET account == [who |-> p, token |-> n]
         IN  account \in Account /\ account.who = p /\ account.token = n
    /\ \A account \in Account \union {NoAccount}, n \in Tokens \union {0} :
         LET changed == [account EXCEPT !.token = n]
         IN  /\ changed.who = account.who /\ changed.token = n
             /\ account # NoAccount => changed \in Account
BY DEF Account, NoAccount

\* Numbers are natural numbers, and 0 is no token's and nobody's.
LEMMA TokenNumbers ==
    /\ \A n \in Tokens : n \in Nat /\ n # 0 /\ n <= MaxTokens
    /\ \A p \in People : p \in Nat /\ p # 0 /\ p <= MaxPeople
BY AccountBounds DEF Tokens, People

(***************************************************************************)
(* Steps that leave a link or a person alone.                              *)
(***************************************************************************)

\* What a thread writes down of what it does next.
LEMMA OneThread ==
    ASSUME thread \in [Threads -> Doing], NEW t \in Threads, NEW state \in Doing,
           thread' = [thread EXCEPT ![t] = state]
    PROVE  /\ thread' \in [Threads -> Doing] /\ thread'[t] = state
           /\ \A s \in Threads : s # t => thread'[s] = thread[s]
OBVIOUS

\* A link that is on no further row and that no further request sends or completes.
LEMMA LinkFades ==
    ASSUME NEW n \in Tokens, LinkRunsOut(n), tokens \in Nat, tokens' \in Nat, tokens <= tokens',
           \A e \in Emails : accounts'[e].token = n => accounts[e].token = n,
           \A t \in Threads : Sends(thread'[t], n) => Sends(thread[t], n),
           \A t \in Threads : Completes(thread'[t], n) =>
               Completes(thread[t], n) /\ thread'[t].email = thread[t].email,
           uses'[n] = uses[n]
    PROVE  LinkRunsOut(n)'
<1>1. StoredAt(n)' \subseteq StoredAt(n)
  BY DEF StoredAt
<1>2. IsFiniteSet(StoredAt(n)')
  BY <1>1, FS_Subset DEF LinkRunsOut
<1>3. Held(n)' => Held(n)
  BY DEF Held
<1>4. n \in Nat
  BY TokenNumbers
<1> QED
  BY <1>1, <1>2, <1>3, <1>4 DEF LinkRunsOut

\* A person who is at no further address, and whose moves stay as they are.
LEMMA PersonStays ==
    ASSUME NEW p \in People, AddsUp(p), people \in Nat, people' \in Nat, people <= people',
           \A e \in Emails : accounts'[e].who = p => accounts[e].who = p,
           HalfMoved(p)' = HalfMoved(p), p \in removed' <=> p \in removed
    PROVE  AddsUp(p)'
<1>1. AccountsOf(p)' \subseteq AccountsOf(p)
  BY DEF AccountsOf
<1>2. IsFiniteSet(AccountsOf(p)') /\ Cardinality(AccountsOf(p)') <= Cardinality(AccountsOf(p))
  BY <1>1, FS_Subset DEF AddsUp
<1>3. /\ Cardinality(AccountsOf(p)') \in Nat /\ Cardinality(AccountsOf(p)) \in Nat
      /\ Cardinality(HalfMoved(p)) \in Nat
  BY <1>2, FS_CardinalityType DEF AddsUp
<1>4. p \in Nat
  BY TokenNumbers
<1> QED
  BY <1>1, <1>2, <1>3, <1>4 DEF AddsUp

(***************************************************************************)
(* Requests that begin, and reads.                                         *)
(***************************************************************************)

LEMMA Known ==
    ASSUME IInv
    PROVE  /\ accounts \in [Emails -> Account \union {NoAccount}]
           /\ thread \in [Threads -> Doing]
           /\ people \in Nat /\ people <= MaxPeople /\ tokens \in Nat /\ tokens <= MaxTokens
           /\ live \subseteq Tokens /\ uses \in [Tokens -> 0..2] /\ removed \subseteq People
           /\ stray \subseteq [person : People] \union [token : Tokens]
BY AccountBounds DEF IInv, AccountTypeOK

\* A step that changes no account and what one thread does, sends and completes no link and
\* neither begins nor ends the second half of a move.
LEMMA Proceeds ==
    ASSUME IInv, NEW t \in Threads, NEW state \in Doing, thread' = [thread EXCEPT ![t] = state],
           UNCHANGED <<accounts, people, tokens, uses, removed>>,
           live' \subseteq Tokens, stray' = stray,
           \A n \in Tokens : Sends(state, n) => Sends(thread[t], n),
           \A n \in Tokens : Completes(state, n) =>
               Completes(thread[t], n) /\ state.email = thread[t].email,
           state.stage # "moved" /\ thread[t].stage # "moved"
    PROVE  IInv'
<1>1. /\ thread' \in [Threads -> Doing] /\ thread'[t] = state
      /\ \A s \in Threads : s # t => thread'[s] = thread[s]
  BY Known, OneThread
<1>2. AccountTypeOK'
  BY <1>1 DEF IInv, AccountTypeOK
<1>3. ASSUME NEW n \in Tokens, [token |-> n] \notin stray
      PROVE  LinkRunsOut(n)'
  BY <1>1, <1>3, LinkFades, Known DEF IInv, LinksRunOut
<1>4. ASSUME NEW p \in People, [person |-> p] \notin stray
      PROVE  AddsUp(p)'
  <2>1. HalfMoved(p)' = HalfMoved(p)
    BY <1>1 DEF HalfMoved
  <2> QED
    BY <1>4, <2>1, PersonStays, Known DEF IInv, AccountsAddUp
<1> QED
  BY <1>2, <1>3, <1>4 DEF IInv, LinksRunOut, AccountsAddUp

LEMMA Reads ==
    ASSUME IInv, NEW t \in Threads,
           \/ \E e \in Emails : \/ SeedCheck(t, e) \/ Edit(t, e)
                               \/ \E new \in Emails : MoveCheck(t, e, new)
           \/ MergeRead(t) \/ MoveGet(t)
    PROVE  IInv'
<1>1. thread[t] \in Doing
  BY Known
<1>2. ASSUME NEW e \in Emails, SeedCheck(t, e)
      PROVE  IInv'
  <2> DEFINE state == [stage |-> "creating", email |-> e, new |-> 0]
  <2>1. state \in Doing
    BY Made
  <2>2. \A n \in Tokens : ~Sends(state, n) /\ ~Completes(state, n)
    BY TokenNumbers DEF Sends, Completes
  <2> QED
    BY <1>2, <2>1, <2>2, Made, Known, Proceeds DEF SeedCheck
<1>3. ASSUME NEW e \in Emails, Edit(t, e)
      PROVE  IInv'
  <2> DEFINE state == [stage |-> "finding", email |-> e, burn |-> 0, new |-> 0, copy |-> NoAccount]
  <2>1. state \in Doing
    BY Made
  <2>2. \A n \in Tokens : ~Sends(state, n) /\ ~Completes(state, n)
    BY TokenNumbers DEF Sends, Completes
  <2> QED
    BY <1>3, <2>1, <2>2, Made, Known, Proceeds DEF Edit
<1>4. ASSUME NEW e \in Emails, NEW new \in Emails, MoveCheck(t, e, new)
      PROVE  IInv'
  <2> DEFINE state == [stage |-> "free", email |-> e, to |-> new, copy |-> NoAccount]
  <2>1. state \in Doing
    BY Made
  <2>2. \A n \in Tokens : ~Sends(state, n) /\ ~Completes(state, n)
    BY DEF Sends, Completes
  <2> QED
    BY <1>4, <2>1, <2>2, Made, Known, Proceeds DEF MoveCheck
<1>5. CASE MergeRead(t)
  <2> DEFINE e == thread[t].email
  <2>1. thread[t].stage = "finding" /\ e \in Emails /\ accounts[e] \in Account \union {NoAccount}
        /\ UNCHANGED <<accounts, people, tokens, live, uses, removed, stray>>
    BY <1>1, <1>5, Doings, Made, Known DEF MergeRead
  <2>2. CASE accounts[e] # NoAccount
    <3> DEFINE state == [thread[t] EXCEPT !.stage = "merging", !.copy = accounts[e]]
    <3>1. state \in Doing /\ thread' = [thread EXCEPT ![t] = state]
      BY <1>1, <1>5, <2>1, <2>2, Made DEF MergeRead
    <3>2. /\ state.stage = "merging" /\ state.email = e
          /\ state.new = thread[t].new /\ state.burn = thread[t].burn
      BY <1>1, <2>1 DEF Doing, Idle
    <3>3. \A n \in Tokens : /\ Sends(state, n) => Sends(thread[t], n)
                            /\ Completes(state, n) => Completes(thread[t], n)
      BY <2>1, <3>2 DEF Sends, Completes
    <3> HIDE DEF state
    <3> QED
      BY <2>1, <3>1, <3>2, <3>3, Known, Proceeds
  <2>3. CASE accounts[e] = NoAccount /\ thread[t].new # 0
    <3> DEFINE state == [stage |-> "creating", email |-> e, new |-> thread[t].new]
    <3>1. state \in Doing /\ thread' = [thread EXCEPT ![t] = state]
      BY <1>1, <1>5, <2>1, <2>3, Made, Doings DEF MergeRead
    <3>2. \A n \in Tokens : (Sends(state, n) => Sends(thread[t], n)) /\ ~Completes(state, n)
      BY <2>1 DEF Sends, Completes
    <3> QED
      BY <2>1, <3>1, <3>2, Known, Proceeds
  <2>4. CASE accounts[e] = NoAccount /\ thread[t].new = 0
    <3>1. thread' = [thread EXCEPT ![t] = Idle]
      BY <1>5, <2>4 DEF MergeRead
    <3>2. \A n \in Tokens : ~Sends(Idle, n) /\ ~Completes(Idle, n)
      BY Made DEF Sends, Completes
    <3> QED
      BY <2>1, <3>1, <3>2, Made, Known, Proceeds
  <2> QED
    BY <2>2, <2>3, <2>4
<1>6. CASE MoveGet(t)
  <2> DEFINE e == thread[t].email
             state == [thread[t] EXCEPT !.stage = "moving", !.copy = accounts[e]]
  <2>1. /\ thread[t].stage = "free" /\ accounts[e] \in Account
        /\ UNCHANGED <<accounts, people, tokens, live, uses, removed, stray>>
    BY <1>1, <1>6, Doings, Made, Known DEF MoveGet
  <2>2. state \in Doing /\ thread' = [thread EXCEPT ![t] = state]
    BY <1>1, <1>6, <2>1, Made DEF MoveGet
  <2>3. state.stage = "moving"
    BY <1>1, <2>1 DEF Doing, Idle
  <2>4. \A n \in Tokens : ~Sends(state, n) /\ ~Completes(state, n)
    BY <2>3 DEF Sends, Completes
  <2> HIDE DEF state
  <2> QED
    BY <2>1, <2>2, <2>3, <2>4, Known, Proceeds
<1> QED
  BY <1>2, <1>3, <1>4, <1>5, <1>6

\* What goes astray are people and links.
LEMMA Astray ==
    /\ \A n \in Tokens : Token(n) = {[token |-> n]}
    /\ \A p \in People : Person(p) = {[person |-> p]}
    /\ \A account \in Account \union {NoAccount} :
         /\ Strays(account) \subseteq [person : People] \union [token : Tokens]
         /\ Token(account.token) \subseteq [token : Tokens]
         /\ \A n \in Tokens : account.token = n => [token |-> n] \in Strays(account)
         /\ \A p \in People : account.who = p => [person |-> p] \in Strays(account)
<1>1. \A n \in Tokens : Token(n) = {[token |-> n]}
  BY TokenNumbers DEF Token
<1>2. \A p \in People : Person(p) = {[person |-> p]}
  BY TokenNumbers DEF Person
<1>3. ASSUME NEW account \in Account \union {NoAccount}
      PROVE  /\ Strays(account) \subseteq [person : People] \union [token : Tokens]
             /\ Token(account.token) \subseteq [token : Tokens]
             /\ \A n \in Tokens : account.token = n => [token |-> n] \in Strays(account)
             /\ \A p \in People : account.who = p => [person |-> p] \in Strays(account)
  <2>1. account.who \in People \union {0} /\ account.token \in Tokens \union {0}
    BY Rows
  <2>2. Person(account.who) \subseteq [person : People] /\ Token(account.token) \subseteq [token : Tokens]
    BY <2>1 DEF Person, Token
  <2> QED
    BY <1>1, <1>2, <2>1, <2>2 DEF Strays
<1> QED
  BY <1>1, <1>2, <1>3

\* A request to complete n is alone, or n is astray.
LEMMA Setups ==
    ASSUME IInv, NEW t \in Threads, NEW n \in Tokens, Setup(t, n)
    PROVE  IInv'
<1>1. PICK e \in Emails :
        /\ accounts[e].token = n
        /\ thread' = [thread EXCEPT ![t] = [stage |-> "finding", email |-> e, burn |-> n, new |-> 0,
                                            copy |-> NoAccount]]
  BY DEF Setup
<1> DEFINE state == [stage |-> "finding", email |-> e, burn |-> n, new |-> 0, copy |-> NoAccount]
<1>2. /\ thread[t] = Idle /\ state \in Doing
      /\ UNCHANGED <<accounts, people, tokens, live, uses, removed>>
      /\ stray' = IF Overlaps(n) THEN stray \union Token(n) ELSE stray
  BY Made DEF Setup
<1>3. /\ thread' \in [Threads -> Doing] /\ thread'[t] = state
      /\ \A s \in Threads : s # t => thread'[s] = thread[s]
  BY <1>1, <1>2, Known, OneThread
<1>4. AccountTypeOK'
  BY <1>2, <1>3, Astray DEF IInv, AccountTypeOK
<1>5. \A m \in Tokens : /\ ~Sends(state, m) /\ (Completes(state, m) => m = n)
                        /\ ~Sends(thread[t], m) /\ ~Completes(thread[t], m)
  BY <1>2, TokenNumbers, Made DEF Sends, Completes
<1>6. ASSUME NEW m \in Tokens, [token |-> m] \notin stray, m # n
      PROVE  LinkRunsOut(m)'
  BY <1>2, <1>3, <1>5, <1>6, LinkFades, Known DEF IInv, LinksRunOut
<1>7. ASSUME [token |-> n] \notin stray'
      PROVE  LinkRunsOut(n)'
  <2>1. ~Overlaps(n) /\ LinkRunsOut(n)
    BY <1>2, <1>7, Astray DEF IInv, LinksRunOut
  <2>2. e \in StoredAt(n) /\ IsFiniteSet(StoredAt(n)) /\ ~Held(n)
    BY <1>1, <2>1 DEF StoredAt, Overlaps, LinkRunsOut
  <2>3. StoredAt(n) = {e}
    <3>1. Cardinality(StoredAt(n)) \in Nat /\ ~(Cardinality(StoredAt(n)) > 1)
      BY <2>1, <2>2, FS_CardinalityType DEF Overlaps
    <3>2. Cardinality(StoredAt(n)) = 1
      BY <2>2, <3>1, FS_EmptySet
    <3>3. \E x : StoredAt(n) = {x}
      BY <2>2, <3>2, FS_Singleton
    <3> QED
      BY <2>2, <3>3
  <2>4. StoredAt(n)' = StoredAt(n)
    BY <1>2 DEF StoredAt
  <2>5. /\ uses'[n] = 0 /\ ~(n > tokens') /\ uses[n] = uses'[n]
    BY <1>2, <2>1, <2>3, Known, TokenNumbers DEF LinkRunsOut
  <2>6. \A s \in Threads : ~Completes(thread[s], n) /\ ~Sends(thread[s], n)
    BY <2>1, <2>2, <2>3 DEF Held, LinkRunsOut
  <2>7. \A s \in Threads : ~Sends(thread'[s], n) /\ (Completes(thread'[s], n) => s = t)
    BY <1>3, <1>5, <2>6
  <2> QED
    BY <1>3, <2>2, <2>3, <2>4, <2>5, <2>7 DEF LinkRunsOut
<1>8. ASSUME NEW p \in People, [person |-> p] \notin stray
      PROVE  AddsUp(p)'
  <2>1. HalfMoved(p)' = HalfMoved(p)
    <3>1. state.stage = "finding" /\ thread[t].stage = "idle"
      BY <1>2, Made
    <3> QED
      BY <1>3, <3>1 DEF HalfMoved
  <2> QED
    BY <1>2, <1>8, <2>1, PersonStays, Known DEF IInv, AccountsAddUp
<1>9. stray \subseteq stray'
  BY <1>2
<1> QED
  BY <1>4, <1>6, <1>7, <1>8, <1>9 DEF IInv, LinksRunOut, AccountsAddUp

\* An invitation sends a link that nobody has seen.
LEMMA Invites ==
    ASSUME IInv, NEW t \in Threads, NEW e \in Emails, Invite(t, e)
    PROVE  IInv'
<1> DEFINE n == tokens + 1
           state == IF accounts[e] = NoAccount THEN [stage |-> "creating", email |-> e, new |-> n]
                    ELSE [stage |-> "finding", email |-> e, burn |-> 0, new |-> n, copy |-> NoAccount]
<1>1. /\ thread[t] = Idle /\ thread' = [thread EXCEPT ![t] = state]
      /\ tokens' = n /\ tokens < MaxTokens /\ n \in Tokens /\ live' = live \union {n}
      /\ UNCHANGED <<accounts, people, uses, removed, stray>>
  BY Known, AccountBounds DEF Invite, Tokens
<1>2. state \in Doing /\ state.stage \in {"creating", "finding"}
  BY <1>1, Made
<1>3. /\ thread' \in [Threads -> Doing] /\ thread'[t] = state
      /\ \A s \in Threads : s # t => thread'[s] = thread[s]
  BY <1>1, <1>2, Known, OneThread
<1>4. AccountTypeOK'
  <2>1. tokens' \in 0..MaxTokens
    BY <1>1, Known, AccountBounds
  <2> QED
    BY <1>1, <1>3, <2>1 DEF IInv, AccountTypeOK
<1>5. \A m \in Tokens : /\ ~Completes(state, m) /\ (Sends(state, m) => m = n)
                        /\ ~Sends(thread[t], m) /\ ~Completes(thread[t], m)
  BY <1>1, TokenNumbers, Made DEF Sends, Completes
<1>6. ASSUME NEW m \in Tokens, [token |-> m] \notin stray, m # n
      PROVE  LinkRunsOut(m)'
  <2> HIDE DEF state
  <2> QED
    BY <1>1, <1>3, <1>5, <1>6, LinkFades, Known DEF IInv, LinksRunOut
<1>7. ASSUME NEW m \in Tokens, [token |-> m] \notin stray, m = n
      PROVE  LinkRunsOut(m)'
  <2>1. LinkRunsOut(m) /\ m > tokens
    BY <1>1, <1>7, Known DEF IInv, LinksRunOut
  <2>2. /\ StoredAt(m) = {} /\ IsFiniteSet(StoredAt(m)) /\ uses[m] = 0
        /\ \A s \in Threads : ~Completes(thread[s], m) /\ ~Sends(thread[s], m)
    BY <2>1, Known, TokenNumbers DEF Held, LinkRunsOut
  <2> HIDE DEF state
  <2>3. \A s \in Threads : ~Completes(thread'[s], m) /\ (Sends(thread'[s], m) => s = t)
    BY <1>1, <1>3, <1>5, <2>2
  <2>4. StoredAt(m)' = StoredAt(m) /\ uses'[m] = 0 /\ ~(m > tokens')
    BY <1>1, <1>7, <2>2, Known DEF StoredAt
  <2> QED
    BY <2>2, <2>3, <2>4 DEF LinkRunsOut, Held
<1>8. ASSUME NEW p \in People, [person |-> p] \notin stray
      PROVE  AddsUp(p)'
  <2>1. HalfMoved(p)' = HalfMoved(p)
    <3>1. thread'[t].stage # "moved" /\ thread[t].stage # "moved"
      BY <1>1, <1>2, <1>3, Made
    <3> QED
      BY <1>3, <3>1 DEF HalfMoved
  <2> QED
    BY <1>1, <1>8, <2>1, PersonStays, Known DEF IInv, AccountsAddUp
<1> QED
  BY <1>1, <1>4, <1>6, <1>7, <1>8 DEF IInv, LinksRunOut, AccountsAddUp

\* A thread that gives up leaves no link, unless it had moved half of an account.
LEMMA GivesUp ==
    ASSUME IInv, NEW t \in Threads, GiveUp(t)
    PROVE  IInv'
<1>1. /\ thread[t] # Idle /\ thread' = [thread EXCEPT ![t] = Idle]
      /\ stray' = IF thread[t].stage = "moved" THEN stray \union Strays(thread[t].copy) ELSE stray
      /\ UNCHANGED <<accounts, people, tokens, live, uses, removed>>
  BY DEF GiveUp
<1>2. /\ thread' \in [Threads -> Doing] /\ thread'[t] = Idle
      /\ \A s \in Threads : s # t => thread'[s] = thread[s]
  BY <1>1, Made, Known, OneThread
<1>3. thread[t].stage = "moved" => thread[t].copy \in Account
  BY Known, Doings
<1>4. AccountTypeOK'
  BY <1>1, <1>2, <1>3, Astray DEF IInv, AccountTypeOK
<1>5. \A n \in Tokens : ~Sends(Idle, n) /\ ~Completes(Idle, n)
  BY Made DEF Sends, Completes
<1>6. ASSUME NEW n \in Tokens, [token |-> n] \notin stray
      PROVE  LinkRunsOut(n)'
  BY <1>1, <1>2, <1>5, <1>6, LinkFades, Known DEF IInv, LinksRunOut
<1>7. ASSUME NEW p \in People, [person |-> p] \notin stray'
      PROVE  AddsUp(p)'
  <2>1. [person |-> p] \notin stray /\ (thread[t].stage = "moved" => thread[t].copy.who # p)
    BY <1>1, <1>3, <1>7, Astray
  <2>2. HalfMoved(p)' = HalfMoved(p)
    BY <1>2, <2>1, Made DEF HalfMoved
  <2> QED
    BY <1>1, <2>1, <2>2, PersonStays, Known DEF IInv, AccountsAddUp
<1>8. stray \subseteq stray'
  BY <1>1
<1> QED
  BY <1>4, <1>6, <1>7, <1>8 DEF IInv, LinksRunOut, AccountsAddUp

(***************************************************************************)
(* Accounts that are created and deleted.                                  *)
(***************************************************************************)

\* A new person has the one account.
LEMMA PutAddsUp ==
    ASSUME IInv, NEW e \in Emails, NEW token \in Tokens \union {0}, Put(e, token), removed' = removed,
           NEW p \in People, [person |-> p] \notin stray, HalfMoved(p)' = HalfMoved(p)
    PROVE  AddsUp(p)'
<1>1. /\ people' = people + 1 /\ people' \in People
      /\ accounts' = [accounts EXCEPT ![e] = [who |-> people', token |-> token]]
  BY Known, AccountBounds DEF Put, People
<1>2. accounts'[e].who = people' /\ \A x \in Emails : x # e => accounts'[x] = accounts[x]
  BY <1>1, Known
<1>3. CASE p # people'
  BY <1>1, <1>2, <1>3, PersonStays, Known DEF IInv, AccountsAddUp
<1>4. CASE p = people'
  <2>1. AddsUp(p) /\ p > people
    BY <1>1, <1>4, Known DEF IInv, AccountsAddUp
  <2>2. /\ AccountsOf(p) = {} /\ p \notin removed /\ IsFiniteSet(HalfMoved(p))
        /\ Cardinality(HalfMoved(p)) \in Nat
    BY <2>1, FS_CardinalityType DEF AddsUp
  <2>3. AccountsOf(p)' = {e}
    BY <1>2, <1>4, <2>2 DEF AccountsOf
  <2>4. IsFiniteSet(AccountsOf(p)') /\ Cardinality(AccountsOf(p)') = 1
    BY <2>3, FS_Singleton
  <2> QED
    BY <1>1, <1>4, <2>2, <2>4, Known DEF AddsUp
<1> QED
  BY <1>3, <1>4

LEMMA PutTypes ==
    ASSUME IInv, NEW e \in Emails, NEW token \in Tokens \union {0}, Put(e, token)
    PROVE  /\ accounts' \in [Emails -> Account \union {NoAccount}] /\ people' \in 0..MaxPeople
           /\ accounts'[e].token = token /\ \A x \in Emails : x # e => accounts'[x] = accounts[x]
<1>1. people' \in People /\ people' \in 0..MaxPeople
  BY Known, AccountBounds DEF Put, People
<1> QED
  BY <1>1, Known, Rows DEF Put

LEMMA Creates ==
    ASSUME IInv, \/ \E e \in Emails : CreateUser(e)
                 \/ \E t \in Threads : Create(t)
    PROVE  IInv'
<1>1. ASSUME NEW e \in Emails, CreateUser(e)
      PROVE  IInv'
  <2>1. Put(e, 0) /\ UNCHANGED <<tokens, live, thread, uses, removed, stray>>
    BY <1>1 DEF CreateUser
  <2>2. AccountTypeOK'
    BY <2>1, PutTypes DEF IInv, AccountTypeOK
  <2>3. ASSUME NEW n \in Tokens, [token |-> n] \notin stray
        PROVE  LinkRunsOut(n)'
    <3>1. \A x \in Emails : accounts'[x].token = n => accounts[x].token = n
      BY <2>1, PutTypes, TokenNumbers
    <3> QED
      BY <2>1, <2>3, <3>1, LinkFades, Known DEF IInv, LinksRunOut
  <2>4. ASSUME NEW p \in People, [person |-> p] \notin stray
        PROVE  AddsUp(p)'
    <3>1. HalfMoved(p)' = HalfMoved(p)
      BY <2>1 DEF HalfMoved
    <3> QED
      BY <2>1, <2>4, <3>1, PutAddsUp
  <2> QED
    BY <2>1, <2>2, <2>3, <2>4 DEF IInv, LinksRunOut, AccountsAddUp
<1>2. ASSUME NEW t \in Threads, Create(t)
      PROVE  IInv'
  <2> DEFINE e == thread[t].email
             new == thread[t].new
  <2>1. /\ thread[t].stage = "creating" /\ e \in Emails /\ new \in Tokens \union {0}
        /\ Put(e, new) /\ thread' = [thread EXCEPT ![t] = Idle]
        /\ UNCHANGED <<tokens, live, uses, removed, stray>>
    BY <1>2, Known, Doings, Made DEF Create
  <2>2. /\ thread' \in [Threads -> Doing] /\ thread'[t] = Idle
        /\ \A s \in Threads : s # t => thread'[s] = thread[s]
    BY <2>1, Made, Known, OneThread
  <2>3. AccountTypeOK'
    BY <2>1, <2>2, PutTypes DEF IInv, AccountTypeOK
  <2>4. \A n \in Tokens : ~Sends(Idle, n) /\ ~Completes(Idle, n) /\ ~Completes(thread[t], n)
    BY <2>1, Made DEF Sends, Completes
  <2>5. ASSUME NEW n \in Tokens, [token |-> n] \notin stray
        PROVE  LinkRunsOut(n)'
    <3>1. LinkRunsOut(n) /\ n \in Nat
      BY <2>5, TokenNumbers DEF IInv, LinksRunOut
    <3>2. CASE n # new
      <4>1. \A x \in Emails : accounts'[x].token = n => accounts[x].token = n
        BY <2>1, <3>2, PutTypes
      <4> QED
        BY <2>1, <2>2, <2>4, <3>1, <4>1, LinkFades, Known
    <3>3. CASE n = new
      <4>1. Sends(thread[t], n)
        BY <2>1, <3>3 DEF Sends
      <4>2. /\ StoredAt(n) = {} /\ uses[n] = 0 /\ ~(n > tokens)
            /\ \A s \in Threads : ~Completes(thread[s], n) /\ (Sends(thread[s], n) => s = t)
        BY <3>1, <4>1, Known DEF LinkRunsOut, Held
      <4>3. StoredAt(n)' = {e}
        BY <2>1, <3>3, <4>2, PutTypes DEF StoredAt
      <4>4. IsFiniteSet(StoredAt(n)')
        BY <4>3, FS_Singleton
      <4>5. \A s \in Threads : ~Completes(thread'[s], n) /\ ~Sends(thread'[s], n)
        BY <2>2, <2>4, <4>2
      <4> QED
        BY <2>1, <3>1, <4>2, <4>4, <4>5, Known DEF LinkRunsOut
    <3> QED
      BY <3>2, <3>3
  <2>6. ASSUME NEW p \in People, [person |-> p] \notin stray
        PROVE  AddsUp(p)'
    <3>1. HalfMoved(p)' = HalfMoved(p)
      BY <2>1, <2>2, Made DEF HalfMoved
    <3> QED
      BY <2>1, <2>6, <3>1, PutAddsUp
  <2> QED
    BY <2>1, <2>3, <2>5, <2>6 DEF IInv, LinksRunOut, AccountsAddUp
<1> QED
  BY <1>1, <1>2

\* Of a person whose account is deleted one less is left, and one less may be.
LEMMA Deletes ==
    ASSUME IInv, NEW e \in Emails, DeleteUser(e)
    PROVE  IInv'
<1> DEFINE gone == accounts[e].who
<1>1. /\ accounts[e] \in Account /\ gone \in People /\ removed' = removed \union {gone}
      /\ accounts' = [accounts EXCEPT ![e] = NoAccount]
      /\ UNCHANGED <<people, tokens, live, thread, uses, stray>>
  BY Known DEF DeleteUser, Account
<1>2. /\ accounts' \in [Emails -> Account \union {NoAccount}] /\ accounts'[e] = NoAccount
      /\ \A x \in Emails : x # e => accounts'[x] = accounts[x]
  BY <1>1, Known
<1>3. AccountTypeOK'
  BY <1>1, <1>2 DEF IInv, AccountTypeOK
<1>4. ASSUME NEW n \in Tokens, [token |-> n] \notin stray
      PROVE  LinkRunsOut(n)'
  <2>1. \A x \in Emails : accounts'[x].token = n => accounts[x].token = n
    BY <1>2, Rows, TokenNumbers
  <2> QED
    BY <1>1, <1>4, <2>1, LinkFades, Known DEF IInv, LinksRunOut
<1>5. ASSUME NEW p \in People, [person |-> p] \notin stray
      PROVE  AddsUp(p)'
  <2>1. AddsUp(p) /\ HalfMoved(p)' = HalfMoved(p) /\ p \in Nat /\ p # 0
    BY <1>1, <1>5, TokenNumbers DEF HalfMoved, IInv, AccountsAddUp
  <2>2. CASE p # gone
    <3>1. \A x \in Emails : accounts'[x].who = p => accounts[x].who = p
      BY <1>2, <2>1, Rows
    <3>2. p \in removed' <=> p \in removed
      BY <1>1, <2>2
    <3> QED
      BY <1>1, <2>1, <3>1, <3>2, PersonStays, Known
  <2>3. CASE p = gone
    <3>1. AccountsOf(p)' = AccountsOf(p) \ {e} /\ e \in AccountsOf(p)
      BY <1>2, <2>1, <2>3, Rows DEF AccountsOf
    <3>2. /\ IsFiniteSet(AccountsOf(p)') /\ IsFiniteSet(AccountsOf(p))
          /\ Cardinality(AccountsOf(p)') = Cardinality(AccountsOf(p)) - 1
      BY <2>1, <3>1, FS_RemoveElement DEF AddsUp
    <3>3. /\ Cardinality(AccountsOf(p)) \in Nat /\ Cardinality(HalfMoved(p)) \in Nat
          /\ IsFiniteSet(HalfMoved(p)) /\ ~(p > people)
          /\ Cardinality(AccountsOf(p)) <= Cardinality(HalfMoved(p)) + 1
      BY <2>1, <3>1, <3>2, FS_CardinalityType DEF AddsUp
    <3>4. Cardinality(AccountsOf(p)') <= Cardinality(HalfMoved(p)) + 0
      BY <3>2, <3>3
    <3>5. p \in removed' /\ ~(p > people')
      BY <1>1, <2>3, <3>3
    <3> QED
      BY <2>1, <3>2, <3>3, <3>4, <3>5 DEF AddsUp
  <2> QED
    BY <2>2, <2>3
<1> QED
  BY <1>1, <1>3, <1>4, <1>5 DEF IInv, LinksRunOut, AccountsAddUp

(***************************************************************************)
(* Copies that are written back.                                           *)
(***************************************************************************)

\* What is not astray was written where it had been read.
LEMMA NewPeople ==
    ASSUME IInv, NEW e \in Emails, NEW copy \in Account,
           stray \union StaleAt(e, copy) \subseteq stray'
    PROVE  /\ stray \subseteq stray'
           /\ \A n \in Tokens : [token |-> n] \notin stray' /\ copy.token = n => accounts[e] = copy
           /\ \A p \in People : [person |-> p] \notin stray' /\ copy.who = p => accounts[e] = copy
<1>1. accounts[e] # copy => Strays(copy) \subseteq stray'
  BY DEF StaleAt
<1> QED
  BY <1>1, Astray

LEMMA StaleTypes ==
    ASSUME IInv, NEW e \in Emails, NEW copy \in Account
    PROVE  StaleAt(e, copy) \subseteq [person : People] \union [token : Tokens]
BY Known, Astray DEF StaleAt

\* An edit is written: a completion burns its link, an invitation stores its own.
LEMMA Merges ==
    ASSUME IInv, NEW t \in Threads, MergeWrite(t)
    PROVE  IInv'
<1> DEFINE e == thread[t].email
           copy == thread[t].copy
           burn == thread[t].burn
           new == thread[t].new
           merged == IF burn # 0 THEN [copy EXCEPT !.token = 0]
                     ELSE IF new # 0 THEN [copy EXCEPT !.token = new]
                     ELSE copy
<1>1. /\ thread[t].stage = "merging" /\ e \in Emails /\ copy \in Account
      /\ burn \in Tokens \union {0} /\ new \in Tokens \union {0}
      /\ accounts' = [accounts EXCEPT ![e] = merged]
      /\ stray' = stray \union StaleAt(e, copy)
      /\ uses' = IF burn = 0 \/ uses[burn] = 2 THEN uses ELSE [uses EXCEPT ![burn] = @ + 1]
      /\ thread' = [thread EXCEPT ![t] = Idle]
      /\ UNCHANGED <<people, tokens, live, removed>>
  BY Known, Doings, Made DEF MergeWrite
<1>2. /\ thread' \in [Threads -> Doing] /\ thread'[t] = Idle
      /\ \A s \in Threads : s # t => thread'[s] = thread[s]
  BY <1>1, Made, Known, OneThread
<1>3. /\ merged \in Account /\ merged.who = copy.who
      /\ merged.token = IF burn # 0 THEN 0 ELSE IF new # 0 THEN new ELSE copy.token
  BY <1>1 DEF Account
<1>4. /\ accounts' \in [Emails -> Account \union {NoAccount}] /\ accounts'[e] = merged
      /\ \A x \in Emails : x # e => accounts'[x] = accounts[x]
  BY <1>1, <1>3, Known
<1> HIDE DEF merged
<1>5. AccountTypeOK'
  <2>1. uses' \in [Tokens -> 0..2]
    BY <1>1, Known
  <2> QED
    BY <1>1, <1>2, <1>4, <2>1, StaleTypes DEF IInv, AccountTypeOK
<1>6. \A n \in Tokens : ~Sends(Idle, n) /\ ~Completes(Idle, n)
  BY Made DEF Sends, Completes
<1>7. stray \subseteq stray' /\ stray \union StaleAt(e, copy) \subseteq stray'
  BY <1>1
<1>8. ASSUME NEW n \in Tokens, [token |-> n] \notin stray'
      PROVE  LinkRunsOut(n)'
  <2>1. LinkRunsOut(n) /\ n \in Nat /\ n # 0
    BY <1>7, <1>8, TokenNumbers DEF IInv, LinksRunOut
  <2>2. CASE burn = n
    <3>1. Completes(thread[t], n) /\ Held(n)
      BY <1>1, <2>2 DEF Completes, Held
    <3>2. /\ StoredAt(n) \subseteq {e} /\ uses[n] = 0 /\ ~(n > tokens)
          /\ \A s \in Threads : ~Sends(thread[s], n) /\ (Completes(thread[s], n) => s = t)
      BY <2>1, <3>1, Known DEF LinkRunsOut
    <3>3. StoredAt(n)' = {}
      BY <1>3, <1>4, <2>1, <2>2, <3>2 DEF StoredAt
    <3>4. \A s \in Threads : ~Sends(thread'[s], n) /\ ~Completes(thread'[s], n)
      BY <1>2, <1>6, <3>2
    <3>5. uses'[n] = 1 /\ n <= tokens'
      BY <1>1, <2>1, <2>2, <3>2, Known
    <3> QED
      BY <3>3, <3>4, <3>5, FS_EmptySet DEF LinkRunsOut, Held
  <2>3. CASE burn = 0 /\ new = n
    <3>1. Sends(thread[t], n)
      BY <1>1, <2>3 DEF Sends
    <3>2. /\ StoredAt(n) = {} /\ uses[n] = 0 /\ ~(n > tokens)
          /\ \A s \in Threads : ~Completes(thread[s], n) /\ (Sends(thread[s], n) => s = t)
      BY <2>1, <3>1, Known DEF LinkRunsOut, Held
    <3>3. StoredAt(n)' = {e}
      BY <1>1, <1>3, <1>4, <2>1, <2>3, <3>2 DEF StoredAt
    <3>4. \A s \in Threads : ~Sends(thread'[s], n) /\ ~Completes(thread'[s], n)
      BY <1>2, <1>6, <3>2
    <3>5. uses'[n] = 0 /\ ~(n > tokens') /\ IsFiniteSet(StoredAt(n)')
      BY <1>1, <2>3, <3>2, <3>3, FS_Singleton
    <3> QED
      BY <3>3, <3>4, <3>5 DEF LinkRunsOut, Held
  <2>4. CASE burn # n /\ ~(burn = 0 /\ new = n)
    <3>1. merged.token = n => accounts[e].token = n
      BY <1>1, <1>3, <1>7, <1>8, <2>1, <2>4, NewPeople
    <3>2. uses'[n] = uses[n]
      BY <1>1, <2>4, Known
    <3> QED
      BY <1>1, <1>2, <1>4, <1>6, <2>1, <3>1, <3>2, LinkFades, Known
  <2> QED
    BY <2>2, <2>3, <2>4
<1>9. ASSUME NEW p \in People, [person |-> p] \notin stray'
      PROVE  AddsUp(p)'
  <2>1. HalfMoved(p)' = HalfMoved(p)
    BY <1>1, <1>2, Made DEF HalfMoved
  <2>2. merged.who = p => accounts[e].who = p
    BY <1>1, <1>3, <1>7, <1>9, NewPeople
  <2>3. AddsUp(p)
    BY <1>7, <1>9 DEF IInv, AccountsAddUp
  <2> QED
    BY <1>1, <1>4, <2>1, <2>2, <2>3, PersonStays, Known
<1> QED
  BY <1>5, <1>8, <1>9 DEF IInv, LinksRunOut, AccountsAddUp

\* The second account of a person is one that a move is to delete.
LEMMA MovesOver ==
    ASSUME IInv, NEW t \in Threads, MoveCreate(t)
    PROVE  IInv'
<1> DEFINE e == thread[t].email
           to == thread[t].to
           copy == thread[t].copy
           state == [thread[t] EXCEPT !.stage = "moved"]
<1>1. /\ thread[t].stage = "moving" /\ e \in Emails /\ to \in Emails /\ copy \in Account
      /\ accounts' = [accounts EXCEPT ![to] = copy]
      /\ stray' = stray \union StaleAt(e, copy)
                        \union IF Held(copy.token) THEN Token(copy.token) ELSE {}
      /\ thread' = [thread EXCEPT ![t] = state] /\ thread[t] \in Doing
      /\ UNCHANGED <<people, tokens, live, uses, removed>>
  BY Known, Doings, Made DEF MoveCreate
<1>2. state \in Doing /\ state.stage = "moved" /\ state.copy = copy
  <2>1. state \in Doing
    BY <1>1, Made
  <2>2. thread[t] \in [stage : {"moving", "moved"}, email : Emails, to : Emails, copy : Account]
    BY <1>1 DEF Doing, Idle
  <2> QED
    BY <2>1, <2>2
<1> HIDE DEF state
<1>3. /\ thread' \in [Threads -> Doing] /\ thread'[t] = state
      /\ \A s \in Threads : s # t => thread'[s] = thread[s]
  BY <1>1, <1>2, Known, OneThread
<1>4. /\ accounts' \in [Emails -> Account \union {NoAccount}] /\ accounts'[to] = copy
      /\ \A x \in Emails : x # to => accounts'[x] = accounts[x]
  BY <1>1, Known
<1>5. AccountTypeOK'
  <2>1. Token(copy.token) \subseteq [token : Tokens]
    BY <1>1, Astray
  <2>2. stray' \subseteq [person : People] \union [token : Tokens]
    BY <1>1, <2>1, StaleTypes, Known
  <2> QED
    BY <1>1, <1>3, <1>4, <2>2 DEF IInv, AccountTypeOK
<1>6. \A n \in Tokens : ~Sends(state, n) /\ ~Completes(state, n)
  BY <1>2 DEF Sends, Completes
<1>7. stray \subseteq stray' /\ stray \union StaleAt(e, copy) \subseteq stray'
  BY <1>1
<1>8. ASSUME NEW n \in Tokens, [token |-> n] \notin stray'
      PROVE  LinkRunsOut(n)'
  <2>1. LinkRunsOut(n)
    BY <1>7, <1>8 DEF IInv, LinksRunOut
  <2>2. CASE copy.token # n
    BY <1>1, <1>3, <1>4, <1>6, <2>1, <2>2, LinkFades, Known
  <2>3. CASE copy.token = n
    <3>1. accounts[e] = copy
      BY <1>1, <1>7, <1>8, <2>3, NewPeople
    <3>2. ~Held(n)
      BY <1>1, <1>8, <2>3, Astray
    <3>3. e \in StoredAt(n)
      BY <1>1, <2>3, <3>1 DEF StoredAt
    <3>4. /\ IsFiniteSet(StoredAt(n)) /\ uses[n] = 0 /\ ~(n > tokens)
          /\ \A s \in Threads : ~Sends(thread[s], n) /\ ~Completes(thread[s], n)
      BY <2>1, <3>2, <3>3, Known DEF LinkRunsOut, Held
    <3>5. StoredAt(n)' = StoredAt(n) \union {to}
      BY <1>1, <1>4, <2>3 DEF StoredAt
    <3>6. IsFiniteSet(StoredAt(n)')
      BY <3>4, <3>5, FS_AddElement
    <3>7. \A s \in Threads : ~Sends(thread'[s], n) /\ ~Completes(thread'[s], n)
      BY <1>3, <1>6, <3>4
    <3> QED
      BY <1>1, <3>4, <3>6, <3>7 DEF LinkRunsOut
  <2> QED
    BY <2>2, <2>3
<1>9. ASSUME NEW p \in People, [person |-> p] \notin stray'
      PROVE  AddsUp(p)'
  <2>1. AddsUp(p)
    BY <1>7, <1>9 DEF IInv, AccountsAddUp
  <2>2. CASE copy.who # p
    <3>1. HalfMoved(p)' = HalfMoved(p)
      BY <1>1, <1>2, <1>3, <2>2 DEF HalfMoved
    <3> QED
      BY <1>1, <1>4, <2>1, <2>2, <3>1, PersonStays, Known
  <2>3. CASE copy.who = p
    <3>1. accounts[e] = copy
      BY <1>1, <1>7, <1>9, <2>3, NewPeople
    <3>2. e \in AccountsOf(p) /\ AccountsOf(p)' = AccountsOf(p) \union {to}
      BY <1>1, <1>4, <2>3, <3>1 DEF AccountsOf
    <3>3. t \notin HalfMoved(p) /\ HalfMoved(p)' = HalfMoved(p) \union {t}
      BY <1>1, <1>2, <1>3, <2>3 DEF HalfMoved
    <3>4. /\ IsFiniteSet(AccountsOf(p)) /\ IsFiniteSet(HalfMoved(p))
          /\ Cardinality(AccountsOf(p)) \in Nat /\ Cardinality(HalfMoved(p)) \in Nat
          /\ ~(p > people)
          /\ Cardinality(AccountsOf(p)) <= Cardinality(HalfMoved(p)) + IF p \in removed THEN 0 ELSE 1
      BY <2>1, <3>2, FS_CardinalityType DEF AddsUp
    <3>5. /\ IsFiniteSet(AccountsOf(p)')
          /\ Cardinality(AccountsOf(p)') \in {Cardinality(AccountsOf(p)), Cardinality(AccountsOf(p)) + 1}
      BY <3>2, <3>4, FS_AddElement
    <3>6. IsFiniteSet(HalfMoved(p)') /\ Cardinality(HalfMoved(p)') = Cardinality(HalfMoved(p)) + 1
      BY <3>3, <3>4, FS_AddElement
    <3> QED
      BY <1>1, <3>4, <3>5, <3>6 DEF AddsUp
  <2> QED
    BY <2>2, <2>3
<1> QED
  BY <1>5, <1>8, <1>9 DEF IInv, LinksRunOut, AccountsAddUp

LEMMA MovesAway ==
    ASSUME IInv, NEW t \in Threads, MoveDelete(t)
    PROVE  IInv'
<1> DEFINE e == thread[t].email
           copy == thread[t].copy
<1>1. /\ thread[t].stage = "moved" /\ e \in Emails /\ copy \in Account
      /\ accounts' = [accounts EXCEPT ![e] = NoAccount]
      /\ stray' = stray \union StaleAt(e, copy)
      /\ thread' = [thread EXCEPT ![t] = Idle]
      /\ UNCHANGED <<people, tokens, live, uses, removed>>
  BY Known, Doings, Made DEF MoveDelete
<1>2. /\ thread' \in [Threads -> Doing] /\ thread'[t] = Idle
      /\ \A s \in Threads : s # t => thread'[s] = thread[s]
  BY <1>1, Made, Known, OneThread
<1>3. /\ accounts' \in [Emails -> Account \union {NoAccount}] /\ accounts'[e] = NoAccount
      /\ \A x \in Emails : x # e => accounts'[x] = accounts[x]
  BY <1>1, Known
<1>4. AccountTypeOK'
  BY <1>1, <1>2, <1>3, StaleTypes DEF IInv, AccountTypeOK
<1>5. \A n \in Tokens : ~Sends(Idle, n) /\ ~Completes(Idle, n)
  BY Made DEF Sends, Completes
<1>6. stray \subseteq stray' /\ stray \union StaleAt(e, copy) \subseteq stray'
  BY <1>1
<1>7. ASSUME NEW n \in Tokens, [token |-> n] \notin stray'
      PROVE  LinkRunsOut(n)'
  <2>1. LinkRunsOut(n)
    BY <1>6, <1>7 DEF IInv, LinksRunOut
  <2>2. \A x \in Emails : accounts'[x].token = n => accounts[x].token = n
    BY <1>3, Rows, TokenNumbers
  <2> QED
    BY <1>1, <1>2, <1>5, <2>1, <2>2, LinkFades, Known
<1>8. ASSUME NEW p \in People, [person |-> p] \notin stray'
      PROVE  AddsUp(p)'
  <2>1. AddsUp(p) /\ p # 0
    BY <1>6, <1>8, TokenNumbers DEF IInv, AccountsAddUp
  <2>2. CASE copy.who # p
    <3>1. HalfMoved(p)' = HalfMoved(p)
      BY <1>1, <1>2, <2>2, Made DEF HalfMoved
    <3>2. \A x \in Emails : accounts'[x].who = p => accounts[x].who = p
      BY <1>3, <2>1, Rows
    <3> QED
      BY <1>1, <2>1, <3>1, <3>2, PersonStays, Known
  <2>3. CASE copy.who = p
    <3>1. accounts[e] = copy
      BY <1>1, <1>6, <1>8, <2>3, NewPeople
    <3>2. e \in AccountsOf(p) /\ AccountsOf(p)' = AccountsOf(p) \ {e}
      BY <1>1, <1>3, <2>1, <2>3, <3>1, Rows DEF AccountsOf
    <3>3. t \in HalfMoved(p) /\ HalfMoved(p)' = HalfMoved(p) \ {t}
      BY <1>1, <1>2, <2>3, Made DEF HalfMoved
    <3>4. /\ IsFiniteSet(AccountsOf(p)) /\ IsFiniteSet(HalfMoved(p))
          /\ Cardinality(AccountsOf(p)) \in Nat /\ Cardinality(HalfMoved(p)) \in Nat
          /\ ~(p > people)
          /\ Cardinality(AccountsOf(p)) <= Cardinality(HalfMoved(p)) + IF p \in removed THEN 0 ELSE 1
      BY <2>1, <3>2, FS_CardinalityType DEF AddsUp
    <3>5. IsFiniteSet(AccountsOf(p)') /\ Cardinality(AccountsOf(p)') = Cardinality(AccountsOf(p)) - 1
      <4>1. /\ IsFiniteSet(AccountsOf(p) \ {e})
            /\ Cardinality(AccountsOf(p) \ {e}) = Cardinality(AccountsOf(p)) - 1
        <5> HIDE DEF e
        <5> QED
          BY <3>2, <3>4, FS_RemoveElement
      <4> QED
        BY <3>2, <4>1
    <3>6. IsFiniteSet(HalfMoved(p)') /\ Cardinality(HalfMoved(p)') = Cardinality(HalfMoved(p)) - 1
      BY <3>3, <3>4, FS_RemoveElement
    <3> QED
      BY <1>1, <3>4, <3>5, <3>6 DEF AddsUp
  <2> QED
    BY <2>2, <2>3
<1> QED
  BY <1>4, <1>7, <1>8 DEF IInv, LinksRunOut, AccountsAddUp

(***************************************************************************)
(* The theorems.                                                           *)
(***************************************************************************)

\* For any number of addresses, threads, invitations and accounts: the types, where a setup
\* link is at each moment of its life (app/api/routes/auth.py), and that every account of a
\* person beyond the one is about to be deleted.
THEOREM AccountsInvariance == Spec => []IInv
<1>1. Init => IInv
  <2> SUFFICES ASSUME Init
               PROVE  IInv
    OBVIOUS
  <2>1. /\ accounts = [e \in Emails |-> NoAccount] /\ people = 0 /\ tokens = 0 /\ live = {}
        /\ thread = [t \in Threads |-> Idle] /\ uses = [n \in Tokens |-> 0]
        /\ removed = {} /\ stray = {}
    BY DEF Init
  <2>2. AccountTypeOK
    <3>1. 0 \in 0..MaxPeople /\ 0 \in 0..MaxTokens
      BY AccountBounds
    <3>2. thread \in [Threads -> Doing]
      BY <2>1, Made
    <3>3. uses \in [Tokens -> 0..2]
      BY <2>1
    <3> QED
      BY <2>1, <3>1, <3>2, <3>3 DEF AccountTypeOK
  <2>3. ASSUME NEW n \in Tokens
        PROVE  LinkRunsOut(n)
    <3>1. StoredAt(n) = {}
      BY <2>1, Rows, TokenNumbers DEF StoredAt
    <3>2. \A t \in Threads : ~Sends(thread[t], n) /\ ~Completes(thread[t], n)
      BY <2>1, Made DEF Sends, Completes
    <3> QED
      BY <2>1, <3>1, <3>2, FS_EmptySet, TokenNumbers DEF LinkRunsOut, Held
  <2>4. ASSUME NEW p \in People
        PROVE  AddsUp(p)
    <3>1. AccountsOf(p) = {} /\ HalfMoved(p) = {}
      BY <2>1, Rows, TokenNumbers, Made DEF AccountsOf, HalfMoved
    <3> QED
      BY <2>1, <3>1, FS_EmptySet DEF AddsUp
  <2> QED
    BY <2>2, <2>3, <2>4 DEF IInv, LinksRunOut, AccountsAddUp
<1>2. IInv /\ [Next]_accountVars => IInv'
  <2> SUFFICES ASSUME IInv, [Next]_accountVars
               PROVE  IInv'
    OBVIOUS
  <2>1. CASE (\E e \in Emails : CreateUser(e)) \/ (\E t \in Threads : Create(t))
    BY <2>1, Creates
  <2>2. ASSUME NEW e \in Emails, DeleteUser(e)
        PROVE  IInv'
    BY <2>2, Deletes
  <2>3. ASSUME NEW t \in Threads,
               \/ \E e \in Emails : \/ SeedCheck(t, e) \/ Edit(t, e)
                                   \/ \E new \in Emails : MoveCheck(t, e, new)
               \/ MergeRead(t) \/ MoveGet(t)
        PROVE  IInv'
    BY <2>3, Reads
  <2>4. ASSUME NEW t \in Threads, NEW e \in Emails, Invite(t, e)
        PROVE  IInv'
    BY <2>4, Invites
  <2>5. ASSUME NEW t \in Threads, NEW n \in Tokens, Setup(t, n)
        PROVE  IInv'
    BY <2>5, Setups
  <2>6. ASSUME NEW t \in Threads, MergeWrite(t)
        PROVE  IInv'
    BY <2>6, Merges
  <2>7. ASSUME NEW t \in Threads, MoveCreate(t)
        PROVE  IInv'
    BY <2>7, MovesOver
  <2>8. ASSUME NEW t \in Threads, MoveDelete(t)
        PROVE  IInv'
    BY <2>8, MovesAway
  <2>9. ASSUME NEW t \in Threads, GiveUp(t)
        PROVE  IInv'
    BY <2>9, GivesUp
  <2>10. CASE (\E n \in Tokens : Lapse(n)) \/ UNCHANGED accountVars
    <3>1. /\ live' \subseteq Tokens
          /\ UNCHANGED <<accounts, people, tokens, thread, uses, removed, stray>>
      BY <2>10, Known DEF Lapse, accountVars
    <3>2. AccountTypeOK'
      BY <3>1 DEF IInv, AccountTypeOK
    <3>3. ASSUME NEW n \in Tokens, [token |-> n] \notin stray
          PROVE  LinkRunsOut(n)'
      BY <3>1, <3>3, LinkFades, Known DEF IInv, LinksRunOut
    <3>4. ASSUME NEW p \in People, [person |-> p] \notin stray
          PROVE  AddsUp(p)'
      <4>1. HalfMoved(p)' = HalfMoved(p)
        BY <3>1 DEF HalfMoved
      <4> QED
        BY <3>1, <3>4, <4>1, PersonStays, Known DEF IInv, AccountsAddUp
    <3> QED
      BY <3>1, <3>2, <3>3, <3>4 DEF IInv, LinksRunOut, AccountsAddUp
  <2> QED
    BY <2>1, <2>2, <2>3, <2>4, <2>5, <2>6, <2>7, <2>8, <2>9, <2>10 DEF Next
<1> QED
  BY <1>1, <1>2, PTL DEF Spec

\* A setup link sets one password, however requests, edits, moves and deletions interleave,
\* unless it went astray.
THEOREM SingleUse == Spec => []LinkIsSingleUse
<1>1. IInv => LinkIsSingleUse
  <2> SUFFICES ASSUME IInv, NEW n \in Tokens, [token |-> n] \notin stray
               PROVE  uses[n] <= 1
    BY DEF LinkIsSingleUse
  <2>1. uses[n] # 0 => uses[n] = 1
    BY DEF IInv, LinksRunOut, LinkRunsOut
  <2> QED
    BY <2>1
<1> QED
  BY <1>1, AccountsInvariance, PTL

\* A person has one account, and none once an admin has deleted it, but for a move between
\* its creation of the second and its deletion of the first.
THEOREM OneEach == Spec => []OneAccountEach
<1>1. IInv => OneAccountEach
  <2> SUFFICES ASSUME IInv, NEW p \in 1..people, [person |-> p] \notin stray, HalfMoved(p) = {},
                      AccountsOf(p) # {}
               PROVE  Cardinality(AccountsOf(p)) = 1 /\ p \notin removed
    BY DEF OneAccountEach
  <2>1. p \in People
    BY Known, AccountBounds DEF People
  <2>2. AddsUp(p)
    BY <2>1 DEF IInv, AccountsAddUp
  <2>3. /\ IsFiniteSet(AccountsOf(p)) /\ Cardinality(AccountsOf(p)) # 0
        /\ Cardinality(AccountsOf(p)) \in Nat /\ Cardinality(HalfMoved(p)) = 0
    BY <2>2, FS_EmptySet, FS_CardinalityType DEF AddsUp
  <2>4. Cardinality(AccountsOf(p)) <= IF p \in removed THEN 0 ELSE 1
    BY <2>2, <2>3 DEF AddsUp
  <2> QED
    BY <2>3, <2>4
<1> QED
  BY <1>1, AccountsInvariance, PTL
=============================================================================
