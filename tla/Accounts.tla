------------------------------ MODULE Accounts ------------------------------
(***************************************************************************)
(* HR accounts (app/api/routes/auth.py): rows of auth_users keyed by       *)
(* e-mail address, created, invited, set up, edited, moved to another      *)
(* address and deleted.  Every edit is service.patch, which reads the row, *)
(* merges and upserts it; nothing stops the row from being deleted, moved  *)
(* or replaced in between.  Passwords and roles are left out, and who is   *)
(* signed in: any of these requests may arrive at any time.                *)
(***************************************************************************)
EXTENDS Integers, FiniteSets

CONSTANTS Emails,    \* addresses
          Threads,   \* threads serving requests, and one booting process
          MaxTokens, \* bound: invitations sent in a behaviour
          MaxPeople  \* bound: accounts created in a behaviour

ASSUME AccountBounds == MaxTokens \in Nat /\ MaxPeople \in Nat

VARIABLES accounts,  \* the auth_users table
          people,    \* history: accounts created so far; each new one is a new person
          tokens,    \* setup tokens issued so far
          live,      \* tokens issued within _SETUP_TTL_HOURS
          thread,    \* what each thread is doing
          uses,      \* history: passwords set with each token (counted to 2)
          removed,   \* history: people whose account an admin deleted
          stray      \* history: people and tokens whose row a stale copy was written over or
                     \* from, whose move died halfway, or whom two requests held at once

accountVars == <<accounts, people, tokens, live, thread, uses, removed, stray>>

-----------------------------------------------------------------------------

Tokens == 1..MaxTokens
People == 1..MaxPeople

NoAccount == [who |-> 0, token |-> 0]
Account == [who : People, token : Tokens \union {0}]

Idle == [stage |-> "idle"]

\* burn: the token a setup burns; new: the token an invitation brings, 0 for other edits.
Doing ==
    {Idle}
    \union [stage : {"creating"}, email : Emails, new : Tokens \union {0}]
    \union [stage : {"finding"}, email : Emails, burn : Tokens \union {0},
            new : Tokens \union {0}, copy : {NoAccount}]
    \union [stage : {"merging"}, email : Emails, burn : Tokens \union {0},
            new : Tokens \union {0}, copy : Account]
    \union [stage : {"free"}, email : Emails, to : Emails, copy : {NoAccount}]
    \union [stage : {"moving", "moved"}, email : Emails, to : Emails, copy : Account]

AccountTypeOK ==
    /\ accounts \in [Emails -> Account \union {NoAccount}]
    /\ people \in 0..MaxPeople /\ tokens \in 0..MaxTokens
    /\ live \subseteq Tokens
    /\ thread \in [Threads -> Doing]
    /\ uses \in [Tokens -> 0..2]
    /\ removed \subseteq People
    /\ stray \subseteq [person : People] \union [token : Tokens]

Person(p) == IF p = 0 THEN {} ELSE {[person |-> p]}
Token(n) == IF n = 0 THEN {} ELSE {[token |-> n]}
Strays(account) == Person(account.who) \union Token(account.token)

\* What goes astray when e's row, read as copy, is written as though it were still that.
StaleAt(e, copy) ==
    IF accounts[e] = copy THEN {} ELSE Strays(accounts[e]) \union Strays(copy)

-----------------------------------------------------------------------------
\* service.create is an upsert: create_user and an invitation replace a row that exists.

Put(e, token) ==
    /\ people < MaxPeople
    /\ people' = people + 1
    /\ accounts' = [accounts EXCEPT ![e] = [who |-> people', token |-> token]]

CreateUser(e) ==
    /\ Put(e, 0)
    /\ UNCHANGED <<tokens, live, thread, uses, removed, stray>>

\* seed_admin_accounts: the check and the creation are separate statements.
SeedCheck(t, e) ==
    /\ thread[t] = Idle
    /\ accounts[e] = NoAccount
    /\ thread' = [thread EXCEPT ![t] = [stage |-> "creating", email |-> e, new |-> 0]]
    /\ UNCHANGED <<accounts, people, tokens, live, uses, removed, stray>>

\* invite_user: a new token, patched into the account if there is one.
Invite(t, e) ==
    /\ thread[t] = Idle
    /\ tokens < MaxTokens
    /\ tokens' = tokens + 1
    /\ live' = live \union {tokens'}
    /\ thread' = [thread EXCEPT ![t] =
         IF accounts[e] = NoAccount THEN [stage |-> "creating", email |-> e, new |-> tokens']
         ELSE [stage |-> "finding", email |-> e, burn |-> 0, new |-> tokens', copy |-> NoAccount]]
    /\ UNCHANGED <<accounts, people, uses, removed, stray>>

\* The row of the creation replaces whatever has come to be there.
Create(t) ==
    /\ thread[t].stage = "creating"
    /\ Put(thread[t].email, thread[t].new)
    /\ thread' = [thread EXCEPT ![t] = Idle]
    /\ UNCHANGED <<tokens, live, uses, removed, stray>>

-----------------------------------------------------------------------------
\* Edits by address: a password reset, a profile, the upgrade of a plaintext password
\* at login.

Edit(t, e) ==
    /\ thread[t] = Idle
    /\ thread' = [thread EXCEPT ![t] = [stage |-> "finding", email |-> e, burn |-> 0, new |-> 0,
                                        copy |-> NoAccount]]
    /\ UNCHANGED <<accounts, people, tokens, live, uses, removed, stray>>

Sends(state, n) == state.stage \in {"creating", "finding", "merging"} /\ state.new = n
Completes(state, n) == state.stage \in {"finding", "merging"} /\ state.burn = n

\* A completion of n is under way, or a move has put it at two addresses.
Held(n) == \E t \in Threads : Completes(thread[t], n)
StoredAt(n) == {e \in Emails : accounts[e].token = n}
Overlaps(n) == Held(n) \/ Cardinality(StoredAt(n)) > 1

\* setup_complete: _find_by_setup_token and _setup_is_live on one read of the table.
Setup(t, n) ==
    /\ thread[t] = Idle
    /\ n \in live
    /\ \E e \in Emails :
         /\ accounts[e].token = n
         /\ thread' = [thread EXCEPT ![t] = [stage |-> "finding", email |-> e, burn |-> n, new |-> 0,
                                             copy |-> NoAccount]]
    /\ stray' = IF Overlaps(n) THEN stray \union Token(n) ELSE stray
    /\ UNCHANGED <<accounts, people, tokens, live, uses, removed>>

\* service.patch reads the row; an invitation that finds none creates the account
\* instead, the others answer 404.
MergeRead(t) ==
    /\ thread[t].stage = "finding"
    /\ LET e == thread[t].email IN
       thread' = [thread EXCEPT ![t] =
         IF accounts[e] # NoAccount THEN [@ EXCEPT !.stage = "merging", !.copy = accounts[e]]
         ELSE IF thread[t].new # 0 THEN [stage |-> "creating", email |-> e, new |-> thread[t].new]
         ELSE Idle]
    /\ UNCHANGED <<accounts, people, tokens, live, uses, removed, stray>>

\* Mutant: the password is stored and the token is left.
MergeKeepingToken(t) ==
    /\ thread[t].stage = "merging"
    /\ LET e == thread[t].email IN
       /\ accounts' = [accounts EXCEPT ![e] =
            IF thread[t].new # 0 THEN [thread[t].copy EXCEPT !.token = thread[t].new]
            ELSE thread[t].copy]
       /\ stray' = stray \union StaleAt(e, thread[t].copy)
    /\ uses' = IF thread[t].burn = 0 \/ uses[thread[t].burn] = 2 THEN uses
               ELSE [uses EXCEPT ![thread[t].burn] = @ + 1]
    /\ thread' = [thread EXCEPT ![t] = Idle]
    /\ UNCHANGED <<people, tokens, live, removed>>

\* The merged row is upserted: a setup burns the token, an invitation brings its own.
MergeWrite(t) ==
    /\ thread[t].stage = "merging"
    /\ LET e == thread[t].email
           merged == IF thread[t].burn # 0 THEN [thread[t].copy EXCEPT !.token = 0]
                     ELSE IF thread[t].new # 0 THEN [thread[t].copy EXCEPT !.token = thread[t].new]
                     ELSE thread[t].copy
       IN /\ accounts' = [accounts EXCEPT ![e] = merged]
          /\ stray' = stray \union StaleAt(e, thread[t].copy)
    /\ uses' = IF thread[t].burn = 0 \/ uses[thread[t].burn] = 2 THEN uses
               ELSE [uses EXCEPT ![thread[t].burn] = @ + 1]
    /\ thread' = [thread EXCEPT ![t] = Idle]
    /\ UNCHANGED <<people, tokens, live, removed>>

-----------------------------------------------------------------------------
\* change_email: is the new address free, get the account, create it there, delete it here.

MoveCheck(t, old, new) ==
    /\ thread[t] = Idle
    /\ old # new
    /\ accounts[new] = NoAccount
    /\ thread' = [thread EXCEPT ![t] = [stage |-> "free", email |-> old, to |-> new,
                                        copy |-> NoAccount]]
    /\ UNCHANGED <<accounts, people, tokens, live, uses, removed, stray>>

MoveGet(t) ==
    /\ thread[t].stage = "free"
    /\ accounts[thread[t].email] # NoAccount
    /\ thread' = [thread EXCEPT ![t].stage = "moving", ![t].copy = accounts[thread[t].email]]
    /\ UNCHANGED <<accounts, people, tokens, live, uses, removed, stray>>

\* Whoever has come to the new address meanwhile is replaced.
MoveCreate(t) ==
    /\ thread[t].stage = "moving"
    /\ accounts' = [accounts EXCEPT ![thread[t].to] = thread[t].copy]
    /\ stray' = stray \union StaleAt(thread[t].email, thread[t].copy)
                      \union IF Held(thread[t].copy.token) THEN Token(thread[t].copy.token) ELSE {}
    /\ thread' = [thread EXCEPT ![t].stage = "moved"]
    /\ UNCHANGED <<people, tokens, live, uses, removed>>

\* Mutant: the account stays at its old address, too.
MoveKeepingOld(t) ==
    /\ thread[t].stage = "moved"
    /\ thread' = [thread EXCEPT ![t] = Idle]
    /\ UNCHANGED <<accounts, people, tokens, live, uses, removed, stray>>

MoveDelete(t) ==
    /\ thread[t].stage = "moved"
    /\ accounts' = [accounts EXCEPT ![thread[t].email] = NoAccount]
    /\ stray' = stray \union StaleAt(thread[t].email, thread[t].copy)
    /\ thread' = [thread EXCEPT ![t] = Idle]
    /\ UNCHANGED <<people, tokens, live, uses, removed>>

DeleteUser(e) ==
    /\ accounts[e] # NoAccount
    /\ accounts' = [accounts EXCEPT ![e] = NoAccount]
    /\ removed' = removed \union {accounts[e].who}
    /\ UNCHANGED <<people, tokens, live, thread, uses, stray>>

-----------------------------------------------------------------------------

\* 72 hours pass.
Lapse(n) ==
    /\ n \in live
    /\ live' = live \ {n}
    /\ UNCHANGED <<accounts, people, tokens, thread, uses, removed, stray>>

\* A refusal, a failed statement or a dead process.
GiveUp(t) ==
    /\ thread[t] # Idle
    /\ stray' = IF thread[t].stage = "moved" THEN stray \union Strays(thread[t].copy) ELSE stray
    /\ thread' = [thread EXCEPT ![t] = Idle]
    /\ UNCHANGED <<accounts, people, tokens, live, uses, removed>>

Init ==
    /\ accounts = [e \in Emails |-> NoAccount]
    /\ people = 0 /\ tokens = 0
    /\ live = {}
    /\ thread = [t \in Threads |-> Idle]
    /\ uses = [n \in Tokens |-> 0]
    /\ removed = {} /\ stray = {}

Next ==
    \/ \E e \in Emails : CreateUser(e) \/ DeleteUser(e)
    \/ \E t \in Threads :
         \/ \E e \in Emails : \/ SeedCheck(t, e) \/ Invite(t, e) \/ Edit(t, e)
                              \/ \E new \in Emails : MoveCheck(t, e, new)
         \/ \E n \in Tokens : Setup(t, n)
         \/ Create(t) \/ MergeRead(t) \/ MergeWrite(t)
         \/ MoveGet(t) \/ MoveCreate(t) \/ MoveDelete(t)
         \/ GiveUp(t)
    \/ \E n \in Tokens : Lapse(n)

Spec == Init /\ [][Next]_accountVars

-----------------------------------------------------------------------------
\* What keeps the properties, as one inductive invariant.

\* A link is not stored before it was sent nor completed before it is stored, by one
\* request each; once it has set a password it is nowhere.
LinkRunsOut(n) ==
    /\ IsFiniteSet(StoredAt(n))
    /\ \A s, t \in Threads : Sends(thread[s], n) /\ Sends(thread[t], n) => s = t
    /\ \A s, t \in Threads : Completes(thread[s], n) /\ Completes(thread[t], n) => s = t
    /\ \A t \in Threads : Sends(thread[t], n) => StoredAt(n) = {} /\ ~Held(n)
    /\ \A t \in Threads : Completes(thread[t], n) => StoredAt(n) \subseteq {thread[t].email}
    /\ uses[n] # 0 \/ n > tokens =>
         StoredAt(n) = {} /\ ~Held(n) /\ \A t \in Threads : ~Sends(thread[t], n)
    /\ uses[n] # 0 => uses[n] = 1 /\ n <= tokens

AccountsOf(p) == {e \in Emails : accounts[e].who = p}
HalfMoved(p) == {t \in Threads : thread[t].stage = "moved" /\ thread[t].copy.who = p}

\* Every account of a person beyond the one is about to be deleted by a move, and once an
\* admin has deleted one, so is every one that is left.
AddsUp(p) ==
    /\ IsFiniteSet(AccountsOf(p)) /\ IsFiniteSet(HalfMoved(p))
    /\ Cardinality(AccountsOf(p)) <=
          Cardinality(HalfMoved(p)) + IF p \in removed THEN 0 ELSE 1
    /\ p > people => AccountsOf(p) = {} /\ p \notin removed

LinksRunOut == \A n \in Tokens : [token |-> n] \in stray \/ LinkRunsOut(n)
AccountsAddUp == \A p \in People : [person |-> p] \in stray \/ AddsUp(p)

IInv == AccountTypeOK /\ LinksRunOut /\ AccountsAddUp

-----------------------------------------------------------------------------
\* Properties.

\* "burns the token so the link is single-use" (auth.py:503): a setup link sets one
\* password, through re-invitations, edits, moves and deletions of its account, unless a
\* completion found it while another was under way or a move had it at two addresses, or a
\* stale copy brought it back.
LinkIsSingleUse == \A n \in Tokens : uses[n] <= 1 \/ [token |-> n] \in stray

\* A person has one account, and none once an admin has deleted it, except while
\* change_email has created the second and not deleted the first; unless that died between
\* the two (auth.py:271), or an edit or move wrote a row that had changed since it was read.
OneAccountEach ==
    \A p \in 1..people :
        \/ AccountsOf(p) = {}
        \/ Cardinality(AccountsOf(p)) = 1 /\ p \notin removed
        \/ [person |-> p] \in stray
        \/ HalfMoved(p) # {}
=============================================================================
