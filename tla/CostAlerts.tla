------------------------------ MODULE CostAlerts ------------------------------
(***************************************************************************)
(* The two alerts on LLM spending (app/services/ops/cost_alerts.py): every *)
(* process looks at the ledger on its own, and a key in Redis, one for     *)
(* each alert and window of the clock, decides who tells Sentry.           *)
(***************************************************************************)
EXTENDS Integers, FiniteSets

CONSTANTS
    Procs,     \* processes running cost_alerts_loop
    Window,    \* per alert, the length of its bucket, which is also its key's TTL
    Delay,     \* ticks a Redis call can take before its client gives up
    Restarts,  \* bound: times Redis comes back without its keys
    MaxTime    \* bound: the clock stops here

Alerts == DOMAIN Window
First == "hourly_gemini"
Second == "async_errors"

\* What the constants must satisfy: 3600 s and 300 s, against a Redis timeout of seconds.
AlertsAssumption ==
    /\ Alerts = {First, Second} /\ Delay \in Nat /\ Restarts \in Nat /\ MaxTime \in Nat
    /\ \A a \in Alerts : Window[a] \in Nat /\ Delay < Window[a]

VARIABLES
    now,     \* the clock of all processes and of Redis
    keys,    \* cost_alert:<alert>:<bucket>: when each expires
    proc,    \* per process: its step and the bucket it goes for
    fired,   \* history: per alert and bucket, the times Sentry was told
    crossed, \* history: keys set after their window had passed
    restarts \* restarts left

alertVars == <<now, keys, proc, fired, crossed, restarts>>

Buckets == 0..MaxTime
Asleep == [pc |-> "sleep", alert |-> First, bucket |-> 0, since |-> 0]

TypeOK ==
    /\ now \in 0..MaxTime /\ restarts \in 0..Restarts
    /\ keys \in [Alerts \X Buckets -> Nat] /\ fired \in [Alerts \X Buckets -> Nat]
    /\ crossed \subseteq Alerts \X Buckets
    /\ proc \in [Procs -> [pc: {"sleep", "look", "set"}, alert: Alerts, bucket: Buckets, since: Buckets]]

Init ==
    /\ now = 0 /\ restarts = Restarts
    /\ keys = [k \in Alerts \X Buckets |-> 0] /\ fired = [k \in Alerts \X Buckets |-> 0]
    /\ proc = [p \in Procs |-> Asleep] /\ crossed = {}

\* A SET that is under way is answered, or given up, within Delay.
Tick ==
    /\ now < MaxTime /\ \A p \in Procs : proc[p].pc = "set" => now < proc[p].since + Delay
    /\ now' = now + 1 /\ UNCHANGED <<keys, proc, fired, crossed, restarts>>

Wake(p) ==
    /\ proc[p].pc = "sleep"
    /\ proc' = [proc EXCEPT ![p].pc = "look"]
    /\ UNCHANGED <<now, keys, fired, crossed, restarts>>

Onward(p) ==
    proc' = [proc EXCEPT ![p] =
        IF @.alert = First THEN [Asleep EXCEPT !.pc = "look", !.alert = Second] ELSE Asleep]

\* The sum over llm_costs, above the threshold or not; the bucket is the present one.
Look(p) ==
    /\ proc[p].pc = "look"
    /\ \/ Onward(p)
       \/ proc' = [proc EXCEPT ![p] =
              [@ EXCEPT !.pc = "set", !.bucket = now \div Window[proc[p].alert], !.since = now]]
    /\ UNCHANGED <<now, keys, fired, crossed, restarts>>

\* SET NX EX, then Sentry, unless its client fails.  Without Redis the alert is dropped.
Set(p) ==
    LET k == <<proc[p].alert, proc[p].bucket>> IN
    /\ proc[p].pc = "set" /\ Onward(p)
    /\ \/ /\ keys[k] <= now
          /\ keys' = [keys EXCEPT ![k] = now + Window[proc[p].alert]]
          /\ \E told \in 0..1 : fired' = [fired EXCEPT ![k] = @ + told]
          /\ crossed' = crossed \cup {x \in {k} : now \div Window[k[1]] # k[2]}
       \/ UNCHANGED <<keys, fired, crossed>>
    /\ UNCHANGED <<now, restarts>>

RedisRestarts ==
    /\ restarts > 0 /\ restarts' = restarts - 1
    /\ keys' = [k \in DOMAIN keys |-> 0]
    /\ UNCHANGED <<now, proc, fired, crossed>>

Next ==
    \/ Tick \/ RedisRestarts
    \/ \E p \in Procs : Wake(p) \/ Look(p) \/ Set(p)
Spec == Init /\ [][Next]_alertVars

-----------------------------------------------------------------------------
\* cost_alerts.py:113 "fire one Sentry alert (NX-deduped on the UTC-hour bucket)": all
\* processes together tell Sentry once in a window, and once more only for each time
\* Redis lost its keys and for a key that was set when its window had passed: a key
\* lives no longer than its window lasts.
OncePerWindow ==
    \A k \in DOMAIN fired :
        fired[k] <= 1 + (Restarts - restarts) + (IF k \in crossed THEN 1 ELSE 0)
=============================================================================
