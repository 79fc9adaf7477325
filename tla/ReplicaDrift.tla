---------------------------- MODULE ReplicaDrift ----------------------------
(***************************************************************************)
(* The replica-drift thread of the watchdog (watchdog/replica_drift.py and *)
(* _replica_check_loop).  A poll lists the Swarm services, reads each      *)
(* one's tasks, updates the tracking state as it goes and collects alerts; *)
(* only when the whole pass succeeded are the alerts emitted, and each     *)
(* drift alert followed by one heal attempt.                               *)
(*                                                                         *)
(* A step is one Docker call with the bookkeeping that follows it.         *)
(***************************************************************************)
EXTENDS Integers, Sequences, FiniteSets

CONSTANTS
    Services,   \* Swarm services under WATCHDOG_REPLICA_SERVICES_FILTER
    AlertAfter, \* WATCHDOG_REPLICA_DRIFT_ALERT_SEC, in polls
    MaxAge,     \* bound: durations are counted up to here, AlertAfter at least
    MayVanish,  \* whether services are removed and deployed again
    Faults      \* which Docker calls may raise, a subset of FaultKinds

FaultKinds == {"list", "tasks"}

\* What the constants must satisfy.
DriftAssumption ==
    /\ IsFiniteSet(Services)
    /\ AlertAfter \in Nat /\ MaxAge \in Nat /\ AlertAfter <= MaxAge /\ Faults \subseteq FaultKinds

VARIABLES
    health,  \* what Swarm would report: short of replicas, full, or removed
    state,   \* the DriftState of each tracked service
    pc,      \* where the loop is
    listed,  \* service.list() of this poll, by name
    left,    \* services of this poll not looked at yet
    alerts,  \* alerts collected by this poll, then those still to emit
    told,    \* history: the last alert emitted per service, "none" at first
    quiet,   \* history: seen full, or gone, since its last drift alert
    dropped  \* history: services whose drift alert an abandoned pass discarded

vars == <<health, state, pc, listed, left, alerts, told, quiet, dropped>>

Untracked == -2
NotStarted == -1
Health == {"full", "short", "gone"}

\* age: polls since drift_started_at, NotStarted when that is None, Untracked
\* when the service has no entry.
DriftState == [age: {Untracked, NotStarted} \cup (0..MaxAge), alerted: BOOLEAN]
Fresh == [age |-> NotStarted, alerted |-> FALSE]
Absent == [age |-> Untracked, alerted |-> FALSE]
Alert == [svc: Services, kind: {"drift", "recovery"}]

TypeOK ==
    /\ health \in [Services -> Health]
    /\ state \in [Services -> DriftState]
    /\ pc \in {"sleep", "list", "scan", "emit", "heal"}
    /\ listed \subseteq Services /\ left \subseteq listed
    /\ alerts \in Seq(Alert) /\ Len(alerts) <= Cardinality(Services)
    /\ told \in [Services -> {"none", "drift", "recovery"}]
    /\ quiet \in [Services -> BOOLEAN] /\ dropped \subseteq Services

Init ==
    /\ health = [s \in Services |-> "full"]
    /\ state = [s \in Services |-> Absent]
    /\ pc = "sleep" /\ listed = {} /\ left = {} /\ alerts = <<>>
    /\ told = [s \in Services |-> "none"]
    /\ quiet = [s \in Services |-> TRUE] /\ dropped = {}

-----------------------------------------------------------------------------
\* A service loses replicas, regains them, is removed or deployed.
Swarm ==
    /\ \E s \in Services, h \in Health:
        /\ h # health[s]
        /\ MayVanish \/ h # "gone"
        /\ health' = [health EXCEPT ![s] = h]
    /\ UNCHANGED <<state, pc, listed, left, alerts, told, quiet, dropped>>

\* The sleep of REPLICA_INTERVAL_SEC: every running duration grows by a poll.
Wake ==
    /\ pc = "sleep" /\ pc' = "list"
    /\ state' = [s \in Services |->
                    IF state[s].age \in 0..(MaxAge - 1)
                    THEN [state[s] EXCEPT !.age = @ + 1] ELSE state[s]]
    /\ UNCHANGED <<health, listed, left, alerts, told, quiet, dropped>>

Pending(s, kind) == \E i \in 1..Len(alerts): alerts[i] = [svc |-> s, kind |-> kind]

\* An exception anywhere in check_once: the iteration is over, and whatever it
\* had collected goes with it.
Discard == alerts' = <<>> /\ dropped' = dropped \cup {s \in Services: Pending(s, "drift")}
Abandon == pc' = "sleep" /\ listed' = {} /\ left' = {} /\ Discard

ListOk ==
    /\ pc = "list" /\ pc' = "scan"
    /\ listed' = {s \in Services: health[s] # "gone"} /\ left' = listed'
    /\ UNCHANGED <<health, state, alerts, told, quiet, dropped>>

ListRaises ==
    /\ pc = "list" /\ "list" \in Faults /\ Abandon
    /\ UNCHANGED <<health, state, told, quiet>>

\* What check_once makes of a service below, or at, its desired count.
Short(st) ==
    LET age == IF st.age = NotStarted \/ st.age = Untracked THEN 0 ELSE st.age
    IN  [age |-> age, alerted |-> st.alerted \/ age >= AlertAfter]

Full(st) == Fresh

\* The alert the transition calls for, if any.
DriftDue(st) == ~st.alerted /\ Short(st).age >= AlertAfter
RecoveryDueUnalerted(st) == st.age >= 0
RecoveryDue(st) == st.age >= 0 /\ st.alerted

Note(due, s, kind) ==
    alerts' = IF due THEN Append(alerts, [svc |-> s, kind |-> kind]) ELSE alerts

\* One service of the pass: its tasks are read now, not when it was listed.
Look(s) ==
    /\ pc = "scan" /\ s \in left /\ left' = left \ {s}
    /\ \/ /\ health[s] = "short"
          /\ state' = [state EXCEPT ![s] = Short(@)]
          /\ Note(DriftDue(state[s]), s, "drift") /\ UNCHANGED quiet
       \/ /\ health[s] = "full"
          /\ state' = [state EXCEPT ![s] = Full(@)]
          /\ Note(RecoveryDue(state[s]), s, "recovery")
          /\ quiet' = [quiet EXCEPT ![s] = TRUE]
    /\ UNCHANGED <<health, pc, listed, told, dropped>>

\* Docker refuses the tasks of a service removed since, or fails otherwise.
LookRaises(s) ==
    /\ pc = "scan" /\ s \in left
    /\ health[s] = "gone" \/ "tasks" \in Faults
    /\ Abandon
    /\ UNCHANGED <<health, state, told, quiet>>

\* The end of check_once: services no longer listed are forgotten.
Forget(st, names) == [s \in Services |-> IF s \in names THEN st[s] ELSE Absent]

EndScan ==
    /\ pc = "scan" /\ left = {}
    /\ state' = Forget(state, listed)
    /\ quiet' = [s \in Services |-> quiet[s] \/ s \notin listed]
    /\ listed' = {} /\ pc' = "emit"
    /\ UNCHANGED <<health, left, alerts, told, dropped>>

\* _emit_replica_alert; a drift goes on to the heal, a recovery does not.
Emit ==
    /\ pc = "emit" /\ alerts # <<>>
    /\ LET a == Head(alerts)
       IN  /\ told' = [told EXCEPT ![a.svc] = a.kind]
           /\ quiet' = [quiet EXCEPT ![a.svc] = @ /\ a.kind # "drift"]
           /\ dropped' = dropped \ {a.svc}
           /\ IF a.kind = "drift"
              THEN pc' = "heal" /\ UNCHANGED alerts
              ELSE alerts' = Tail(alerts) /\ UNCHANGED pc
    /\ UNCHANGED <<health, state, listed, left>>

\* try_heal and its result, which the loop only reports (module Autoheal).
Heal ==
    /\ pc = "heal" /\ pc' = "emit" /\ alerts' = Tail(alerts)
    /\ UNCHANGED <<health, state, listed, left, told, quiet, dropped>>

EndPoll ==
    /\ pc = "emit" /\ alerts = <<>> /\ pc' = "sleep"
    /\ UNCHANGED <<health, state, listed, left, alerts, told, quiet, dropped>>

LoopStep ==
    \/ Wake \/ ListOk \/ ListRaises \/ EndScan \/ Emit \/ Heal \/ EndPoll
    \/ \E s \in Services: Look(s) \/ LookRaises(s)

Next == Swarm \/ LoopStep

Spec == Init /\ [][Next]_vars

-----------------------------------------------------------------------------
(* Properties *)

\* replica_drift.py:152 "Only emit recovery if we ever alerted on this drift
\* episode": Sentry is told of a recovery only when the last thing it was told
\* of that service is the drift, or an abandoned pass has discarded that alert.
\* :107 an episode is reported once, however many polls are abandoned: a second
\* drift alert comes only after a poll saw the service full or no longer saw it.
Recovers(s) == told'[s] = "recovery" /\ told[s] # "recovery"
AlertsMatchEpisodes ==
    [][\A s \in Services:
        /\ Recovers(s) => told[s] = "drift" \/ s \in dropped
        /\ Emit /\ Head(alerts) = [svc |-> s, kind |-> "drift"] => quiet[s]]_vars

\* A service that stays short of replicas is reported, unless its alert is
\* discarded.
LongDriftReported ==
    \A s \in Services:
        <>[](health[s] = "short") => <>[](told[s] = "drift" \/ s \in dropped)
=============================================================================
