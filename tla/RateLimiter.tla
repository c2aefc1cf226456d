---------------------------- MODULE RateLimiter ----------------------------
(***************************************************************************)
(* The per-IP limits on public requests: SlidingWindowRateLimiter of       *)
(* core/rate_limit.py and the middleware of main.py that picks a limiter   *)
(* for each request.  allow runs under the limiter's lock, so it is one    *)
(* step; the limiters live and die with the one process.  Paths stand for  *)
(* the predicates main.py matches them with.                               *)
(***************************************************************************)
EXTENDS Integers, FiniteSets, FiniteSetsExt

CONSTANTS Addresses,  \* client_ip of the requests
          Paths,      \* the paths requested, a subset of DOMAIN LimiterOf
          Rules,      \* limiter -> set of [max, window]
          GcEvery,    \* 60 seconds
          MaxNow      \* bound: how long a behaviour lasts

VARIABLES now,      \* time.monotonic()
          hits,     \* _hits of each limiter: address -> the hits kept; no key is the empty set
          lastGc,   \* _last_gc of each limiter
          granted   \* history: the requests let through, never dropped

limiterVars == <<now, hits, lastGc, granted>>

-----------------------------------------------------------------------------
\* rate_limit_public_writes.  What is not listed is never limited.

LimiterOf ==
    [vapi |-> "vapi_webhook", screening |-> "screening_call", upload |-> "public_upload",
     apply |-> "public_write", login |-> "public_write", candidates |-> "public_write",
     documents |-> "public_write", credentials |-> "public_write", feed |-> "public_write",
     portal |-> "public_read"]

\* hr_write_paths honour the origin; nothing else does.
Exempt(path, trusted) == trusted /\ path \in {"candidates", "documents"}

Limiters == {LimiterOf[path] : path \in Paths}

ASSUME LimiterAssumption ==
    /\ Paths \subseteq DOMAIN LimiterOf
    /\ Limiters \subseteq DOMAIN Rules
    /\ \A l \in Limiters : /\ Rules[l] # {} /\ IsFiniteSet(Rules[l])
                           /\ Rules[l] \subseteq [max : Nat, window : Nat \ {0}]
    /\ MaxNow \in Nat /\ GcEvery \in Nat

\* A request let through: its time, and a number that tells it from others of that time.
\* The order of a queue is that of the times and is left out.
Hit == [at : 0..MaxNow, no : Nat]

LimiterTypeOK ==
    /\ now \in 0..MaxNow
    /\ hits \in [Limiters -> [Addresses -> SUBSET Hit]]
    /\ lastGc \in [Limiters -> 0..MaxNow]
    /\ granted \in [Limiters -> [Addresses -> SUBSET Hit]]

-----------------------------------------------------------------------------
\* SlidingWindowRateLimiter.allow.

MaxWindow(l) == Max({rule.window : rule \in Rules[l]})

After(some, start) == {hit \in some : hit.at > start}
\* Mutant: what has left the shortest window is dropped.
RecentInBurst(l, ip) == After(hits[l][ip], now - Min({rule.window : rule \in Rules[l]}))

Recent(l, ip) == After(hits[l][ip], now - MaxWindow(l))

WithinRules(l, recent) ==
    \A rule \in Rules[l] : Cardinality(After(recent, now - rule.window)) < rule.max

\* _collect_garbage drops what is too old at every address, when it is due.
Collected(l, table) ==
    IF now - lastGc[l] < GcEvery THEN table
    ELSE [ip \in Addresses |-> After(table[ip], now - MaxWindow(l))]

\* A request that is let through; one that is refused only drops its address's old hits.
Allow(l, ip) ==
    LET recent == Recent(l, ip)
        hit == [at |-> now, no |-> Cardinality(granted[l][ip])]
    IN
    IF WithinRules(l, recent)
    THEN /\ hits' = [hits EXCEPT ![l] = Collected(l, [@ EXCEPT ![ip] = recent \union {hit}])]
         /\ lastGc' = [lastGc EXCEPT ![l] = IF now - @ < GcEvery THEN @ ELSE now]
         /\ granted' = [granted EXCEPT ![l][ip] = @ \union {hit}]
    ELSE /\ hits' = [hits EXCEPT ![l][ip] = recent]
         /\ UNCHANGED <<lastGc, granted>>

HandleRequest(ip, path, trusted) ==
    /\ IF Exempt(path, trusted) THEN UNCHANGED <<hits, lastGc, granted>>
       ELSE Allow(LimiterOf[path], ip)
    /\ UNCHANGED now

Tick ==
    /\ now < MaxNow
    /\ now' = now + 1
    /\ UNCHANGED <<hits, lastGc, granted>>

LimiterInit ==
    /\ now = 0
    /\ hits = [l \in Limiters |-> [ip \in Addresses |-> {}]]
    /\ lastGc = [l \in Limiters |-> 0]
    /\ granted = [l \in Limiters |-> [ip \in Addresses |-> {}]]

LimiterNext ==
    \/ \E ip \in Addresses, path \in Paths, trusted \in BOOLEAN : HandleRequest(ip, path, trusted)
    \/ Tick

LimiterSpec == LimiterInit /\ [][LimiterNext]_limiterVars

-----------------------------------------------------------------------------
\* Property.

\* "Allow at most N hits per key within each configured time window"
\* (core/rate_limit.py:36): whichever window of a rule one looks at, now or earlier, no
\* more than its maximum was let through in it, whatever is dropped at the front, by the
\* collection or shared between paths; and what is remembered of an address for the
\* longest window is what was let through in it, so a refused request costs nothing.
WindowsHold ==
    \A l \in Limiters, ip \in Addresses :
        /\ \A rule \in Rules[l], t \in 0..now :
             Cardinality({hit \in granted[l][ip] :
                            t - rule.window < hit.at /\ hit.at <= t}) <= rule.max
        /\ After(hits[l][ip], now - MaxWindow(l)) = After(granted[l][ip], now - MaxWindow(l))

\* The inductive invariant: what was let through is numbered in the order it came, at times
\* that have been.
GrantsAreNumbered ==
    \A l \in Limiters, ip \in Addresses :
        /\ IsFiniteSet(granted[l][ip])
        /\ \A hit \in granted[l][ip] : hit.at <= now /\ hit.no < Cardinality(granted[l][ip])

LimiterIInv == LimiterTypeOK /\ GrantsAreNumbered /\ WindowsHold
=============================================================================
