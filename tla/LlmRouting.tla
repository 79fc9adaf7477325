----------------------------- MODULE LlmRouting -----------------------------
(***************************************************************************)
(* The routing pins of the LLM registry: the table llm_process_config, the *)
(* copy every server process keeps in memory (_db_overrides), and the      *)
(* Redis channel that asks the copies to be read again after an edit       *)
(* (services/llm/llm_registry.py, llm_routing_pubsub.py, app/main.py).     *)
(*                                                                         *)
(* A reload is two steps, the SELECT and the assignment, with an await     *)
(* between them: reloads of one process overlap.                           *)
(***************************************************************************)
EXTENDS Naturals, FiniteSets

CONSTANTS
    Procs,     \* server processes, four to a replica
    Pins,      \* provider/model pairs an admin may pin a process name to
    Handlers,  \* admin requests one process may serve at the same time
    MaxEdits,  \* bound on the edits of a behaviour
    Faults     \* a subset of FaultKinds

FaultKinds == {"redis", "restart", "select"}
NoPin == "no pin"

\* What the constants must satisfy: handlers are not the reloads of a process itself, and a
\* pin is not the absence of one.
RoutingAssumption ==
    /\ IsFiniteSet(Procs) /\ IsFiniteSet(Handlers) /\ Handlers \cap {"startup", "listener"} = {}
    /\ NoPin \notin Pins /\ MaxEdits \in Nat /\ Faults \subseteq FaultKinds

VARIABLES
    row,      \* the pin in the table, NoPin without a row
    cache,    \* _db_overrides of each process
    sub,      \* its subscriber: not running yet, listening, or returned
    inbox,    \* invalidations its subscriber has not handled
    load,     \* the reloads in progress, by process and by who asked
    redis,    \* whether Redis answers
    edits,    \* edits made so far
    untold    \* history: processes some edit never told, see Uninformed

vars == <<row, cache, sub, inbox, load, redis, edits, untold>>

Tasks == {"startup", "listener"} \cup Handlers
Idle == [pc |-> "idle", got |-> NoPin, announce |-> FALSE]

TypeOK ==
    /\ row \in Pins \cup {NoPin} /\ cache \in [Procs -> Pins \cup {NoPin}]
    /\ sub \in [Procs -> {"off", "on", "dead"}]
    /\ inbox \in [Procs -> 0..MaxEdits]
    /\ load \in [Procs -> [Tasks -> [pc: {"idle", "fetch", "assign", "publish"},
                                     got: Pins \cup {NoPin}, announce: BOOLEAN]]]
    /\ redis \in BOOLEAN /\ edits \in 0..MaxEdits /\ untold \subseteq Procs

Booting == [t \in Tasks |-> IF t = "startup" THEN [Idle EXCEPT !.pc = "fetch"] ELSE Idle]

Init ==
    /\ row = NoPin /\ cache = [p \in Procs |-> NoPin]
    /\ sub = [p \in Procs |-> "off"] /\ inbox = [p \in Procs |-> 0]
    /\ load = [p \in Procs |-> Booting]
    /\ redis = TRUE /\ edits = 0 /\ untold = {}

Serving(p) == load[p]["startup"].pc = "idle"

-----------------------------------------------------------------------------
\* A SELECT that no other reload of the process can still overwrite with an
\* older answer makes up for everything missed so far.
Alone(p, t) == \A u \in Tasks \ {t}: load[p][u].pc # "assign"
Fetch(p, t) ==
    /\ load[p][t].pc = "fetch"
    /\ load' = [load EXCEPT ![p][t].pc = "assign", ![p][t].got = row]
    /\ untold' = IF Alone(p, t) THEN untold \ {p} ELSE untold
    /\ UNCHANGED <<row, cache, sub, inbox, redis, edits>>

\* Startup and subscriber stop there; an edit goes on to its broadcast, unless
\* it was a DELETE that found nothing.
AfterAssign(p, t) ==
    load' = [load EXCEPT ![p][t] = IF @.announce THEN [@ EXCEPT !.pc = "publish"] ELSE Idle]

\* A stale assignment nobody follows up: the DELETE of nothing read the table
\* before an edit the subscriber has meanwhile loaded.
Overwrites(p, t) == t \in Handlers /\ ~load[p][t].announce /\ load[p][t].got # row

Assign(p, t) ==
    /\ load[p][t].pc = "assign"
    /\ cache' = [cache EXCEPT ![p] = load[p][t].got]
    /\ AfterAssign(p, t)
    /\ untold' = IF Overwrites(p, t) THEN untold \cup {p} ELSE untold
    /\ UNCHANGED <<row, sub, inbox, redis, edits>>

\* `except Exception`: the overrides are dropped, not kept.
FetchFails(p, t) ==
    /\ "select" \in Faults /\ load[p][t].pc = "fetch"
    /\ cache' = [cache EXCEPT ![p] = NoPin] /\ untold' = untold \cup {p}
    /\ AfterAssign(p, t)
    /\ UNCHANGED <<row, sub, inbox, redis, edits>>

-----------------------------------------------------------------------------
\* start_subscriber is a task of its own, created after the startup reload.
Subscribe(p) ==
    /\ sub[p] = "off" /\ Serving(p)
    /\ sub' = [sub EXCEPT ![p] = IF redis THEN "on" ELSE "dead"]
    /\ UNCHANGED <<row, cache, inbox, load, redis, edits, untold>>

\* The subscriber takes the next message once the reload of the last is done.
Receive(p) ==
    /\ sub[p] = "on" /\ inbox[p] > 0 /\ load[p]["listener"].pc = "idle"
    /\ inbox' = [inbox EXCEPT ![p] = @ - 1]
    /\ load' = [load EXCEPT ![p]["listener"].pc = "fetch"]
    /\ UNCHANGED <<row, cache, sub, redis, edits, untold>>

\* upsert_override and delete_override write first, then reload, then publish.
Edit(p, h, pin) ==
    /\ Serving(p) /\ load[p][h].pc = "idle" /\ edits < MaxEdits
    /\ row' = pin /\ edits' = edits + 1
    /\ load' = [load EXCEPT ![p][h] = [pc |-> "fetch", got |-> NoPin,
                                       announce |-> pin # NoPin \/ row # NoPin]]
    /\ UNCHANGED <<cache, sub, inbox, redis, untold>>

\* Redis delivers to the processes listening now, and to no other.
Hears(p) == redis /\ sub[p] = "on"
PublishElsewhere(p, h) ==
    LET hears(q) == Hears(q) /\ q # p
    IN  /\ load[p][h].pc = "publish" /\ load' = [load EXCEPT ![p][h] = Idle]
        /\ inbox' = [q \in Procs |-> IF hears(q) THEN inbox[q] + 1 ELSE inbox[q]]
        /\ untold' = untold \cup {q \in Procs: ~Hears(q)}
        /\ UNCHANGED <<row, cache, sub, redis, edits>>
Publish(p, h) ==
    /\ load[p][h].pc = "publish" /\ load' = [load EXCEPT ![p][h] = Idle]
    /\ inbox' = [q \in Procs |-> IF Hears(q) THEN inbox[q] + 1 ELSE inbox[q]]
    /\ untold' = untold \cup {q \in Procs: ~Hears(q)}
    /\ UNCHANGED <<row, cache, sub, redis, edits>>

-----------------------------------------------------------------------------
\* Redis goes: every subscriber returns, with what it had not read.
RedisDown ==
    /\ "redis" \in Faults /\ redis /\ redis' = FALSE
    /\ sub' = [p \in Procs |-> IF sub[p] = "on" THEN "dead" ELSE sub[p]]
    /\ untold' = untold \cup {p \in Procs: inbox[p] > 0}
    /\ inbox' = [p \in Procs |-> 0]
    /\ UNCHANGED <<row, cache, load, edits>>
RedisUp == ~redis /\ redis' = TRUE /\ UNCHANGED <<row, cache, sub, inbox, load, edits, untold>>

\* A process dies and starts again, knowing nothing until it has read the
\* table.  Nobody hears of an edit it had written and not yet broadcast.
Restart(p) ==
    /\ "restart" \in Faults
    /\ untold' = IF \E h \in Handlers: load[p][h].announce
                 THEN Procs ELSE untold \cup {p}
    /\ cache' = [cache EXCEPT ![p] = NoPin] /\ sub' = [sub EXCEPT ![p] = "off"]
    /\ inbox' = [inbox EXCEPT ![p] = 0] /\ load' = [load EXCEPT ![p] = Booting]
    /\ UNCHANGED <<row, redis, edits>>

ProcStep(p) ==
    \/ \E t \in Tasks: Fetch(p, t) \/ Assign(p, t)
    \/ \E h \in Handlers: Publish(p, h)
    \/ Subscribe(p) \/ Receive(p)
Admin == \E p \in Procs, h \in Handlers, pin \in Pins \cup {NoPin}: Edit(p, h, pin)
Failure ==
    \/ RedisDown \/ RedisUp
    \/ \E p \in Procs: Restart(p) \/ \E t \in Tasks: FetchFails(p, t)

Next == Admin \/ Failure \/ \E p \in Procs: ProcStep(p)

Spec == Init /\ [][Next]_vars

-----------------------------------------------------------------------------
\* Nothing is on its way to p, and no edit has its broadcast still to come.
Quiet(p) ==
    /\ \A t \in Tasks: load[p][t].pc = "idle"
    /\ inbox[p] = 0
    /\ \A q \in Procs, h \in Handlers: ~load[q][h].announce

\* Once things are quiet a process routes by the table, whatever order its
\* overlapping reloads ended in; unless some edit never told it, because Redis
\* was down, it was not listening yet, the editor died before the broadcast,
\* its SELECT failed, or the DELETE of nothing overwrote its copy.
QuietMeansAgreed ==
    \A p \in Procs: Quiet(p) /\ p \notin untold => cache[p] = row

\* An edit reaches every process that is told of it, in the end: no overlap of
\* reloads leaves it waiting.
EditsArrive == \A p \in Procs: cache[p] # row ~> (cache[p] = row \/ p \in untold)
=============================================================================
