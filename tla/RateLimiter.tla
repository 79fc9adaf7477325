---------------------------- MODULE RateLimiter ----------------------------
(***************************************************************************)
(* The request limiter (app/rate_limiter.py): limits in Postgres, mirrored *)
(* without expiry into a Redis hash that every process fills at startup    *)
(* and an admin edits; one counter per identity for the minute and one for *)
(* the hour; and the middleware, which lets a request through whenever     *)
(* Redis or the limits are not to be had.                                  *)
(*                                                                         *)
(* One identity and its two windows.  A step is one query or one pipeline. *)
(***************************************************************************)
EXTENDS Integers, FiniteSets, FiniteSetsExt

CONSTANTS
    Reqs,     \* requests by number, in the order they arrive
    Procs,    \* server processes that start
    Puts,     \* PUT /admin/rate-limits/config requests, each sent once
    Limits,   \* values a limit may have
    Default,  \* DEFAULT_LIMITS: the minute's and the hour's
    Minutes,  \* bound: the hour under test has minutes 1..Minutes
    Outages   \* whether Redis may become unreachable

Windows == {"min", "hour"}

IntMax == 2147483647

\* What the constants must satisfy: rate_limit_config.value is an INT and positive.
LimiterAssumption ==
    /\ IsFiniteSet(Reqs) /\ Reqs \subseteq Nat /\ Minutes \in Nat \ {0}
    /\ Limits \subseteq 1..IntMax /\ Default \in [Windows -> Limits]

VARIABLES
    table,    \* rate_limit_config
    hash,     \* rate:config in Redis, Absent for a key it lacks
    inMin,    \* the counter of each minute
    inHour,   \* the counter of the hour
    req,      \* each request: where it is, its minute, the limits it read
    boot,     \* hydrate_from_db of each process, with the rows it read
    put,      \* each edit
    redis, minute,
    mixed,    \* history: two writers of the limits overlapped
    dark      \* history: Redis has been unreachable

vars == <<table, hash, inMin, inHour, req, boot, put, redis, minute, mixed, dark>>
config == <<table, hash, boot, put, mixed>>

Absent == 0
NoLimits == [w \in Windows |-> Absent]
Ends == {"served", "rejected", "waved"}

TypeOK ==
    /\ table \in [Windows -> Limits] /\ hash \in [Windows -> Limits \cup {Absent}]
    /\ inMin \in [1..Minutes -> 0..Cardinality(Reqs)] /\ inHour \in 0..Cardinality(Reqs)
    /\ req \in [Reqs -> [pc: {"new", "hit"} \cup Ends, bucket: 0..Minutes,
                         lim: [Windows -> Limits \cup {Absent}]]]
    /\ boot \in [Procs -> [pc: {"off", "read", "up"}, rows: [Windows -> Limits \cup {Absent}]]]
    /\ put \in [Puts -> [pc: {"new", "hset", "done"}, key: Windows, val: Limits \cup {Absent}]]
    /\ redis \in BOOLEAN /\ minute \in 1..Minutes /\ mixed \in BOOLEAN /\ dark \in BOOLEAN

Init ==
    /\ table = Default /\ hash = NoLimits
    /\ inMin = [m \in 1..Minutes |-> 0] /\ inHour = 0
    /\ req = [r \in Reqs |-> [pc |-> "new", bucket |-> 0, lim |-> NoLimits]]
    /\ boot = [p \in Procs |-> [pc |-> "off", rows |-> NoLimits]]
    /\ put = [a \in Puts |-> [pc |-> "new", key |-> "min", val |-> Absent]]
    /\ redis = TRUE /\ minute = 1 /\ mixed = FALSE /\ dark = FALSE

-----------------------------------------------------------------------------
(* The limits: hydration at startup and the admin's edits. *)

Writing == (\E p \in Procs: boot[p].pc = "read") \/ (\E a \in Puts: put[a].pc = "hset")
Serving == \E p \in Procs: boot[p].pc = "up"

HydrateRead(p) ==
    /\ boot[p].pc = "off" /\ boot' = [boot EXCEPT ![p] = [pc |-> "read", rows |-> table]]
    /\ mixed' = (mixed \/ Writing)
    /\ UNCHANGED <<table, hash, inMin, inHour, req, put, redis, minute, dark>>

\* The process serves from then on, whether or not Redis took the limits.
HydrateWrite(p) ==
    /\ boot[p].pc = "read" /\ boot' = [boot EXCEPT ![p] = [pc |-> "up", rows |-> NoLimits]]
    /\ hash' = IF redis THEN boot[p].rows ELSE hash
    /\ UNCHANGED <<table, inMin, inHour, req, put, redis, minute, mixed, dark>>

PutTable(a, w, v) ==
    /\ Serving /\ put[a].pc = "new" /\ table' = [table EXCEPT ![w] = v]
    /\ put' = [put EXCEPT ![a] = [pc |-> "hset", key |-> w, val |-> v]]
    /\ mixed' = (mixed \/ Writing)
    /\ UNCHANGED <<hash, inMin, inHour, req, boot, redis, minute, dark>>

PutNothing(a) ==
    /\ put[a].pc = "hset" /\ put' = [put EXCEPT ![a].pc = "done"]
    /\ UNCHANGED <<table, hash, inMin, inHour, req, boot, redis, minute, mixed, dark>>
PutHash(a) ==
    /\ put[a].pc = "hset" /\ put' = [put EXCEPT ![a].pc = "done"]
    /\ hash' = IF redis THEN [hash EXCEPT ![put[a].key] = put[a].val] ELSE hash
    /\ UNCHANGED <<table, inMin, inHour, req, boot, redis, minute, mixed, dark>>

-----------------------------------------------------------------------------
(* One request through the middleware. *)

\* get_current_limits: an empty hash, or no Redis, means the defaults; a hash
\* with some keys is taken as it is.
Current == IF ~redis \/ hash = NoLimits THEN Default ELSE hash

Read(r) ==
    /\ Serving /\ req[r].pc = "new" /\ \A s \in Reqs: s < r => req[s].pc # "new"
    /\ req' = [req EXCEPT ![r] = [pc |-> "hit", bucket |-> minute, lim |-> Current]]
    /\ UNCHANGED <<config, inMin, inHour, redis, minute, dark>>

\* Both counters go up in one pipeline, then the minute is judged before the
\* hour.  A limit that is missing raises, and the request goes through.
Verdict(lim, ofMin, ofHour) ==
    IF Absent \in {lim[w] : w \in Windows} THEN "waved"
    ELSE IF ofMin > lim["min"] \/ ofHour > lim["hour"] THEN "rejected" ELSE "served"

HitTwice(r) ==
    /\ req[r].pc = "hit" /\ redis
    /\ inMin' = [inMin EXCEPT ![req[r].bucket] = @ + 2] /\ inHour' = inHour + 2
    /\ req' = [req EXCEPT ![r].pc = Verdict(req[r].lim, inMin'[req[r].bucket], inHour')]
    /\ UNCHANGED <<config, redis, minute, dark>>
Hit(r) ==
    /\ req[r].pc = "hit" /\ redis
    /\ inMin' = [inMin EXCEPT ![req[r].bucket] = @ + 1] /\ inHour' = inHour + 1
    /\ req' = [req EXCEPT ![r].pc = Verdict(req[r].lim, inMin'[req[r].bucket], inHour')]
    /\ UNCHANGED <<config, redis, minute, dark>>

HitFails(r) ==
    /\ req[r].pc = "hit" /\ ~redis /\ req' = [req EXCEPT ![r].pc = "waved"]
    /\ UNCHANGED <<config, inMin, inHour, redis, minute, dark>>

NextMinute ==
    /\ minute < Minutes /\ minute' = minute + 1
    /\ UNCHANGED <<config, inMin, inHour, req, redis, dark>>

RedisToggle ==
    /\ Outages /\ redis' = ~redis /\ dark' = TRUE
    /\ UNCHANGED <<config, inMin, inHour, req, minute>>

Next ==
    \/ \E p \in Procs: HydrateRead(p) \/ HydrateWrite(p)
    \/ \E a \in Puts: PutHash(a) \/ \E w \in Windows, v \in Limits: PutTable(a, w, v)
    \/ \E r \in Reqs: Read(r) \/ Hit(r) \/ HitFails(r)
    \/ NextMinute \/ RedisToggle

Spec == Init /\ [][Next]_vars

-----------------------------------------------------------------------------
Served(m) == {r \in Reqs: req[r].pc = "served" /\ req[r].bucket = m}
AllServed == UNION {Served(m) : m \in 1..Minutes}

\* However requests of several processes interleave, and whatever edits happen
\* meanwhile: no minute and no hour has more requests served under a limit than
\* the highest limit one of them read.
CapsHold ==
    /\ \A m \in 1..Minutes: Served(m) # {} =>
        Cardinality(Served(m)) <= Max({req[r].lim["min"] : r \in Served(m)})
    /\ AllServed # {} =>
        Cardinality(AllServed) <= Max({req[r].lim["hour"] : r \in AllServed})

\* Limits that were written one after the other, with Redis there all along, are
\* what every process enforces once the last write is done.
LimitsFollowTable ==
    Serving /\ ~Writing /\ ~mixed /\ ~dark => Current = table

\* No window serves more than its limit, and limits that were written one after the other
\* are in force.
LimitsHold == CapsHold /\ LimitsFollowTable

=============================================================================
