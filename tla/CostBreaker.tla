---------------------------- MODULE CostBreaker ----------------------------
(***************************************************************************)
(* The cost circuit breaker (services/ops/cost_breaker.py): the check in   *)
(* front of an LLM call, its configuration in Postgres with a Redis hash   *)
(* as cache, and the hourly spend summed from the ledger llm_costs with    *)
(* the sum cached in Redis.                                                *)
(*                                                                         *)
(* A step is one query or one Redis command.  A tick is ten seconds or so: *)
(* the few commands of a check or of an edit do not span one, the LLM call *)
(* may.                                                                    *)
(***************************************************************************)
EXTENDS Integers, FiniteSets

CONSTANTS
    Calls,      \* LLM calls by number, each made once and costing one unit
    Streams,    \* those of them made through call_stream or call_transcribe
    Users,      \* users, and
    UserOf,     \*   the user a call is made for
    Patches,    \* PATCH /admin/cost-breaker/config requests, each sent once
    HourCap,    \* b6_global_hourly_usd, in units
    UserCap,    \* b6_per_user_daily_usd, in units
    Hour,       \* the rolling hour, in ticks
    ConfigTtl,  \* _CONFIG_CACHE_TTL_SEC, in ticks
    CostTtl,    \* b6_cache_ttl_sec, in ticks
    Faults      \* a subset of FaultKinds

FaultKinds == {"redis", "db", "sql"}
NoUser == "no user"

\* What the constants must satisfy: caps and lives are positive.
BreakerAssumption ==
    /\ IsFiniteSet(Calls) /\ Calls \subseteq Nat /\ Streams \subseteq Calls
    /\ UserOf \in [Calls -> Users] /\ NoUser \notin Users
    /\ HourCap \in Nat \ {0} /\ UserCap \in Nat \ {0}
    /\ Hour \in Nat \ {0} /\ ConfigTtl \in Nat \ {0} /\ CostTtl \in Nat \ {0}
    /\ Faults \subseteq FaultKinds

VARIABLES
    table,    \* circuit_breaker_config
    hash,     \* the Redis hash cb:config, Absent for a key it lacks
    ttl,      \* ticks the hash has left, Persistent without an EXPIRE
    hourly,   \* the cached sum and the ticks it has left
    age,      \* the ledger: ticks since the call's row, Unbooked while it has none
    booked,   \* the ledger: units spent today by the user_id of the row
    spent,    \* units the calls made for a user cost today, and
    since,    \*   ticks since that reached the user's cap
    call, patch, redis,
    still,    \* history: ticks since each key last changed in the table
    on,       \* history: ticks since each key was last TRUE in the table
    over,     \* history: ticks the hour has been at its cap
    under     \* history: ticks since the hour was at its cap

vars == <<table, hash, ttl, hourly, age, booked, spent, since, call, patch, redis,
          still, on, over, under>>

Keys == {"enabled", "enforce"}
Unbooked == -1
Absent == "absent"
Values == {"true", "false"}
Persistent == -1
MaxAge == ConfigTtl + CostTtl  \* bound: history ages are counted up to here

Defaults == [k \in Keys |-> "false"]
NoSum == [val |-> 0, ttl |-> 0]
Call(pc) == [pc |-> pc, cfg |-> Defaults, sum |-> 0]
CallState == {"new", "rows", "hset", "expire", "hour", "sum", "store", "go", "blocked", "done"}

TypeOK ==
    /\ table \in [Keys -> Values] /\ hash \in [Keys -> Values \cup {Absent}]
    /\ ttl \in {Persistent} \cup 0..ConfigTtl
    /\ hourly \in [val: 0..Cardinality(Calls), ttl: 0..CostTtl]
    /\ age \in [Calls -> {Unbooked} \cup 0..Hour]
    /\ booked \in [Users -> 0..Cardinality(Calls)]
    /\ spent \in [Users -> 0..Cardinality(Calls)] /\ since \in [Users -> 0..MaxAge]
    /\ call \in [Calls -> [pc: CallState, cfg: [Keys -> Values],
                           sum: 0..Cardinality(Calls)]]
    /\ patch \in [Patches -> [pc: {"new", "hset", "expire", "done"}, key: Keys, val: Values]]
    /\ redis \in BOOLEAN
    /\ still \in [Keys -> 0..MaxAge] /\ on \in [Keys -> 0..MaxAge]
    /\ over \in 0..MaxAge /\ under \in 0..MaxAge

Init ==
    /\ table \in [Keys -> Values] /\ hash = [k \in Keys |-> Absent] /\ ttl = 0
    /\ hourly = NoSum /\ age = [c \in Calls |-> Unbooked]
    /\ booked = [u \in Users |-> 0]
    /\ spent = [u \in Users |-> 0] /\ since = [u \in Users |-> 0]
    /\ call = [c \in Calls |-> Call("new")]
    /\ patch = [h \in Patches |-> [pc |-> "new", key |-> "enabled", val |-> "false"]]
    /\ redis = TRUE
    /\ still = [k \in Keys |-> MaxAge]
    /\ on = [k \in Keys |-> IF table[k] = "true" THEN 0 ELSE MaxAge]
    /\ over = 0 /\ under = MaxAge

configVars == <<table, hash, ttl, still, on>>
spendVars == <<hourly, age, booked, spent, since, over, under>>

HourSum == Cardinality({c \in Calls: age[c] \in 0..(Hour - 1)})

\* get_config when the hash has any key at all: the others read as defaults.
Cached == redis /\ \E k \in Keys: hash[k] # Absent
Merged == [k \in Keys |-> IF hash[k] = Absent THEN Defaults[k] ELSE hash[k]]
Effective == IF Cached THEN Merged ELSE table

\* The user_id a call hands to check() and its ledger row: no caller of the
\* registry passes one.
UserId(c) == NoUser

-----------------------------------------------------------------------------
(* One call: get_config, the two sums, the verdict, the call, the ledger.  *)

At(c, pc) == call[c].pc = pc
Goto(c, pc) == call' = [call EXCEPT ![c].pc = pc]
Decide(c, verdict) == call' = [call EXCEPT ![c] = Call(verdict)]
Enabled(c) == call[c].cfg.enabled = "true"
Enforcing(c) == call[c].cfg.enforce = "true"

\* Calls are numbered in the order they are made.
Turn(c) == At(c, "new") /\ \A d \in Calls: d < c => ~At(d, "new")

\* These do not come past the breaker.
Stream(c) ==
    /\ c \in Streams /\ Turn(c) /\ Decide(c, "go")
    /\ UNCHANGED <<configVars, spendVars, patch, redis>>

ReadCache(c) ==
    /\ c \notin Streams /\ Turn(c)
    /\ IF Cached THEN call' = [call EXCEPT ![c].pc = "hour", ![c].cfg = Merged]
       ELSE Goto(c, "rows")
    /\ UNCHANGED <<configVars, spendVars, patch, redis>>

ReadRows(c) ==
    /\ At(c, "rows") /\ call' = [call EXCEPT ![c].pc = "hset", ![c].cfg = table]
    /\ UNCHANGED <<configVars, spendVars, patch, redis>>

\* No configuration to be had: the defaults, and they are "disabled".
RowsFail(c) ==
    /\ "db" \in Faults /\ At(c, "rows")
    /\ Decide(c, "go")
    /\ UNCHANGED <<configVars, spendVars, patch, redis>>

\* HSET keeps the time an existing key has left; a new key has no limit.
HsetTtl == IF Cached THEN ttl ELSE Persistent

Refill(c) ==
    /\ At(c, "hset")
    /\ IF redis THEN /\ hash' = call[c].cfg /\ ttl' = HsetTtl /\ Goto(c, "expire")
       ELSE Goto(c, "hour") /\ UNCHANGED <<hash, ttl>>
    /\ UNCHANGED <<table, still, on, spendVars, patch, redis>>

Expire(c) ==
    /\ At(c, "expire") /\ Goto(c, "hour")
    /\ ttl' = IF redis THEN ConfigTtl ELSE ttl
    /\ UNCHANGED <<table, hash, still, on, spendVars, patch, redis>>

Outcome(c, tripped) == IF tripped /\ Enforcing(c) THEN "blocked" ELSE "go"

VerdictExclusive(c, sum) == Outcome(c, sum > HourCap)
\* A sum at its cap blocks when enforcing and is only logged in shadow mode.
Verdict(c, sum) == Outcome(c, sum >= HourCap)

\* The user's own cap is looked at first, for a call with a user_id.
UserOver(c) == UserId(c) \in Users /\ booked[UserId(c)] >= UserCap
SumCached == redis /\ hourly.ttl > 0

ReadHour(c) ==
    /\ At(c, "hour")
    /\ IF Enabled(c) /\ ~UserOver(c) /\ ~SumCached THEN Goto(c, "sum")
       ELSE Decide(c, IF ~Enabled(c) THEN "go"
                      ELSE IF UserOver(c) THEN Outcome(c, TRUE) ELSE Verdict(c, hourly.val))
    /\ UNCHANGED <<configVars, spendVars, patch, redis>>

SumHour(c) ==
    /\ At(c, "sum") /\ call' = [call EXCEPT ![c].pc = "store", ![c].sum = HourSum]
    /\ UNCHANGED <<configVars, spendVars, patch, redis>>

\* A sum that cannot be had is 0.
SumFails(c) ==
    /\ "db" \in Faults /\ At(c, "sum")
    /\ Decide(c, "go")
    /\ UNCHANGED <<configVars, spendVars, patch, redis>>

Store(c) ==
    /\ At(c, "store") /\ Decide(c, Verdict(c, call[c].sum))
    /\ hourly' = IF redis THEN [val |-> call[c].sum, ttl |-> CostTtl] ELSE hourly
    /\ UNCHANGED <<configVars, age, booked, spent, since, over, under, patch, redis>>

Aged(n) == IF n < MaxAge THEN n + 1 ELSE n

\* The call returns and is booked; booking is best effort.
Finish(c) ==
    /\ At(c, "go") /\ Goto(c, "done")
    /\ spent' = [spent EXCEPT ![UserOf[c]] = @ + 1]
    /\ booked' = IF UserId(c) \in Users THEN [booked EXCEPT ![UserId(c)] = @ + 1] ELSE booked
    /\ age' = [age EXCEPT ![c] = 0]
    /\ under' = IF HourSum' >= HourCap THEN 0 ELSE under
    /\ UNCHANGED <<configVars, hourly, since, over, patch, redis>>
FinishUnbooked(c) ==
    /\ "db" \in Faults /\ At(c, "go") /\ Goto(c, "done")
    /\ spent' = [spent EXCEPT ![UserOf[c]] = @ + 1]
    /\ UNCHANGED <<configVars, hourly, age, booked, since, over, under, patch, redis>>

-----------------------------------------------------------------------------
(* The operator: PATCH writes the table, then the hash; SQL only the table. *)

SetKey(k, v) ==
    /\ table' = [table EXCEPT ![k] = v]
    /\ still' = [still EXCEPT ![k] = 0]
    /\ on' = IF "true" \in {table[k], v} THEN [on EXCEPT ![k] = 0] ELSE on

PatchTable(h, k, v) ==
    /\ patch[h].pc = "new" /\ SetKey(k, v)
    /\ patch' = [patch EXCEPT ![h] = [pc |-> "hset", key |-> k, val |-> v]]
    /\ UNCHANGED <<hash, ttl, spendVars, call, redis>>

PatchHash(h) ==
    /\ patch[h].pc = "hset"
    /\ IF redis
       THEN /\ hash' = [hash EXCEPT ![patch[h].key] = patch[h].val] /\ ttl' = HsetTtl
            /\ patch' = [patch EXCEPT ![h].pc = "expire"]
       ELSE patch' = [patch EXCEPT ![h].pc = "done"] /\ UNCHANGED <<hash, ttl>>
    /\ UNCHANGED <<table, still, on, spendVars, call, redis>>

PatchExpire(h) ==
    /\ patch[h].pc = "expire" /\ patch' = [patch EXCEPT ![h].pc = "done"]
    /\ ttl' = IF redis THEN ConfigTtl ELSE ttl
    /\ UNCHANGED <<table, hash, still, on, spendVars, call, redis>>

\* UPDATE circuit_breaker_config by hand, which the docs recommend.
SqlEdit(h, k, v) ==
    /\ "sql" \in Faults /\ patch[h].pc = "new" /\ SetKey(k, v)
    /\ patch' = [patch EXCEPT ![h].pc = "done"]
    /\ UNCHANGED <<hash, ttl, spendVars, call, redis>>

-----------------------------------------------------------------------------
\* Redis goes between two commands only of different requests: an HSET is
\* followed by its EXPIRE.
RedisToggle ==
    /\ "redis" \in Faults /\ redis' = ~redis
    /\ \A c \in Calls: ~At(c, "expire")
    /\ \A h \in Patches: patch[h].pc # "expire"
    /\ UNCHANGED <<configVars, spendVars, call, patch>>

Checking == {"rows", "hset", "expire", "hour", "sum", "store"}
Prompt ==
    /\ \A c \in Calls: call[c].pc \notin Checking
    /\ \A h \in Patches: patch[h].pc \in {"new", "done"}

\* Ten seconds pass: keys expire, ledger rows age out of the hour.
Tick ==
    /\ Prompt
    /\ ttl' = IF ttl > 0 THEN ttl - 1 ELSE ttl
    /\ hash' = IF ttl = 1 THEN [k \in Keys |-> Absent] ELSE hash
    /\ hourly' = IF hourly.ttl <= 1 THEN NoSum ELSE [hourly EXCEPT !.ttl = @ - 1]
    /\ age' = [c \in Calls |-> IF age[c] \in 0..(Hour - 1) THEN age[c] + 1 ELSE age[c]]
    /\ still' = [k \in Keys |-> Aged(still[k])]
    /\ on' = [k \in Keys |-> IF table[k] = "true" THEN 0 ELSE Aged(on[k])]
    /\ since' = [u \in Users |-> IF spent[u] >= UserCap THEN Aged(since[u]) ELSE 0]
    /\ over' = IF HourSum' >= HourCap THEN Aged(over) ELSE 0
    /\ under' = IF HourSum' >= HourCap THEN 0 ELSE Aged(under)
    /\ UNCHANGED <<table, booked, spent, call, patch, redis>>

CallStep(c) ==
    \/ Stream(c) \/ ReadCache(c) \/ ReadRows(c) \/ RowsFail(c) \/ Refill(c) \/ Expire(c)
    \/ ReadHour(c) \/ SumHour(c) \/ SumFails(c) \/ Store(c) \/ Finish(c) \/ FinishUnbooked(c)
PatchStep(h) ==
    \/ PatchHash(h) \/ PatchExpire(h)
    \/ \E k \in Keys, v \in Values: PatchTable(h, k, v) \/ SqlEdit(h, k, v)

Next ==
    \/ \E c \in Calls: CallStep(c)
    \/ \E h \in Patches: PatchStep(h)
    \/ RedisToggle \/ Tick

Spec == Init /\ [][Next]_vars

-----------------------------------------------------------------------------
\* The check of c ends with this step, and it could read what it asked for.
Decided(c) == call[c].pc \in {"hour", "store"} /\ call'[c].pc \in {"go", "blocked"}

\* Within the lives of the two caches, a call is let through or blocked as the
\* hour and the operator would have it.  One whose check found the breaker
\* enabled and enforcing, and could read the ledger, is not let through once the
\* hour has been at its cap for the life of a cached sum: no interleaving of the
\* cache's readers and writers keeps an old sum in place for longer.  And one is
\* blocked only if the hour really was at its cap, and both switches on: a tooling
\* failure never blocks.  (A PATCH of one switch renews the life of the whole hash:
\* it keeps what the hash says of the other, which may be old, for as long again.)
VerdictMatchesSpend ==
    [][\A c \in Calls: Decided(c) =>
        /\ call'[c].pc = "go" /\ Enabled(c) /\ Enforcing(c) => over < CostTtl
        /\ call'[c].pc = "blocked"
            => /\ under < CostTtl
               /\ \A k \in Keys:
                    on[k] < ConfigTtl \/ \E j \in Keys \ {k}: still[j] < ConfigTtl]_vars

\* When nobody has edited for the life of the cached hash, every process acts
\* on the table, whatever readers and editors wrote to the hash meanwhile.
ConfigSettles ==
    (\A k \in Keys: still[k] >= ConfigTtl) => Effective = table

\* "a bypass user driving cost past threshold gets a 503": no call of a user
\* is let through who has been over the daily cap for longer than a cached sum lives.
SpenderIsStopped ==
    [][\A c \in Calls:
        /\ Decided(c) /\ call'[c].pc = "go"
        /\ Enabled(c) /\ Enforcing(c)
        => since[UserOf[c]] <= CostTtl]_vars
=============================================================================
