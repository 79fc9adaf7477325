------------------------------ MODULE Trending -------------------------------
(***************************************************************************)
(* GET /influencers/trending of one process (app/routes/influencers.py):   *)
(* an answer is kept in _TRENDING_CACHE and served again while it is       *)
(* young.  Requests that miss read the table at once and store in any      *)
(* order.                                                                  *)
(***************************************************************************)
EXTENDS Integers

CONSTANTS
    Requests,  \* requests under way at once: a bound
    Ttl,       \* _TRENDING_CACHE_TTL_SEC in clock ticks
    Slow,      \* ticks the two queries can take
    MaxTime    \* bound: the clock stops here

\* What the constants must satisfy.
TrendingAssumption == Ttl \in Nat \ {0} /\ Slow \in Nat /\ MaxTime \in Nat /\ Ttl <= MaxTime

VARIABLES
    now,      \* time.monotonic of the process
    listed,   \* the bots that are active, as the time of the latest change
    cached,   \* the entry: its age's start, and the list it holds
    request,  \* per request: its step, when it began, the list it read
    served,   \* history: the list last served from the entry, and when
    changes   \* history: the times the list changed

trendingVars == <<now, listed, cached, request, served, changes>>

Entry == [at: 0..MaxTime, list: 0..MaxTime]
TypeOK ==
    /\ now \in 0..MaxTime /\ listed \in 0..MaxTime
    /\ cached \in Entry /\ served \in Entry /\ changes \subseteq 0..MaxTime
    /\ request \in [Requests -> [pc: {"idle", "list", "store"}, at: 0..MaxTime, list: 0..MaxTime]]

\* An empty cache is an entry too old to be served.
Init ==
    /\ now = Ttl /\ listed = 0 /\ changes = {}
    /\ cached = [at |-> 0, list |-> 0] /\ served = [at |-> 0, list |-> 0]
    /\ request = [r \in Requests |-> [pc |-> "idle", at |-> 0, list |-> 0]]

Waits(r) == request[r].pc # "idle"
Tick ==
    /\ now < MaxTime /\ \A r \in Requests : Waits(r) => now < request[r].at + Slow
    /\ now' = now + 1 /\ UNCHANGED <<listed, cached, request, served, changes>>

\* A bot is created, deleted, banned or brought back.
Change ==
    /\ listed < now /\ listed' = now /\ changes' = changes \cup {now}
    /\ UNCHANGED <<now, cached, request, served>>

Young(entry) == now - entry.at < Ttl
Look(r) ==
    /\ ~Waits(r)
    /\ IF Young(cached)
       THEN served' = [at |-> now, list |-> cached.list] /\ UNCHANGED request
       ELSE /\ request' = [request EXCEPT ![r] = [pc |-> "list", at |-> now, list |-> 0]]
            /\ UNCHANGED served
    /\ UNCHANGED <<now, listed, cached, changes>>

List(r) ==
    /\ request[r].pc = "list"
    /\ request' = [request EXCEPT ![r].pc = "store", ![r].list = listed]
    /\ UNCHANGED <<now, listed, cached, served, changes>>

\* The entry is as old as the look that missed, not as the store.
StoredAfresh(r) == [at |-> now, list |-> request[r].list]
Stored(r) == [at |-> request[r].at, list |-> request[r].list]
Store(r) ==
    /\ request[r].pc = "store"
    /\ cached' = Stored(r) /\ request' = [request EXCEPT ![r].pc = "idle"]
    /\ UNCHANGED <<now, listed, served, changes>>

Next == Tick \/ Change \/ \E r \in Requests : Look(r) \/ List(r) \/ Store(r)
Spec == Init /\ [][Next]_trendingVars

-----------------------------------------------------------------------------
\* list_trending "60s freshness": however slow the queries and whatever order they end
\* in, a change shows in every answer once the entry's time is over.
ChangesShow ==
    \A t \in changes : served.at >= t + Ttl => served.list >= t
=============================================================================
