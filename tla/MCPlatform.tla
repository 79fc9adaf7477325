----------------------------- MODULE MCPlatform -----------------------------
(***************************************************************************)
(* What keeps the service running: LLM calls, that is the routing pins of  *)
(* the processes and the calls one process dispatches; and the watchdog,   *)
(* that is its heal engine and two episode loops.  The engine has callers  *)
(* that may ask for any heal at any time, a superset of what the loops do. *)
(* The parts share no variable, so a behaviour of PlatformSpec exercises   *)
(* one of them, chosen at the start, while the others rest.                *)
(*                                                                         *)
(* TLC takes the constants from Platform_all.cfg; PlatformProofs proves    *)
(* the same properties for all of their values.                            *)
(***************************************************************************)
EXTENDS Integers, TLC

CONSTANTS
    \* LlmRouting
    Procs, Pins, Handlers, MaxEdits, RoutingFaults,
    \* LlmCall
    Calls, Streams, Backed, Cap, Limited, Token, Capacity, MaxWait, Timeout, RetryAfter,
    MaxRetries, Span,
    \* Autoheal
    Threads, Services, Watches, Allowlisted, MaxPerHour, MaxGlobalPerHour, Window, MaxTime,
    HealFaults,
    \* ReplicaDrift
    DriftAfter, MaxAge, MayVanish, DriftFaults,
    \* PatroniLeader
    LeaderAfter, LastPoll, Unreachable

VARIABLES
    part,
    row, cache, sub, inbox, load, redis, edits, untold,
    call, queue, units, sent, rows, denied, waited, taken,
    heals, global, disabled, pc, svc, at, landed, promised, now,
    health, state, loop, listed, left, alerts, told, quiet, dropped,
    leader, started, alerted, pages, ledAt, polls

routingVars == <<row, cache, sub, inbox, load, redis, edits, untold>>
callVars == <<call, queue, units, sent, rows, denied, waited, taken>>
engineVars == <<heals, global, disabled, pc, svc, at, landed, promised, now>>
driftVars == <<health, state, loop, listed, left, alerts, told, quiet, dropped>>
leaderVars == <<leader, started, alerted, pages, ledAt, polls>>
platformVars == <<part, callVars, routingVars, engineVars, driftVars, leaderVars>>

Routing == INSTANCE LlmRouting WITH Faults <- RoutingFaults
Dispatching == INSTANCE LlmCall WITH Window <- Span
Engine == INSTANCE Autoheal WITH Faults <- HealFaults
Drift == INSTANCE ReplicaDrift WITH AlertAfter <- DriftAfter, Faults <- DriftFaults, pc <- loop
Leader == INSTANCE PatroniLeader WITH AlertAfter <- LeaderAfter, MaxTime <- LastPoll, now <- polls

\* Values a cfg cannot write: one slot at each provider; the patroni services match the
\* "yral-" filter of the drift loop as well.
OneSlot == [p \in {"primary", "fallback"} |-> 1]
SharedWatches == ("dns" :> {"patroni"}) @@ ("drift" :> {"patroni", "sentinel"})

ASSUME PlatformAssumption ==
    /\ Dispatching!LlmCallAssumption /\ Routing!RoutingAssumption /\ Engine!AutohealAssumption
    /\ Drift!DriftAssumption /\ Leader!LeaderAssumption

PlatformInit ==
    /\ part \in {"routing", "calls", "engine", "drift", "leader"}
    /\ Dispatching!Init /\ Routing!Init /\ Engine!Init /\ Drift!Init /\ Leader!Init

InCalls(step) ==
    /\ part = "calls" /\ step
    /\ UNCHANGED <<part, routingVars, engineVars, driftVars, leaderVars>>
InRouting(step) ==
    /\ part = "routing" /\ step
    /\ UNCHANGED <<part, callVars, engineVars, driftVars, leaderVars>>
InEngine(step) ==
    /\ part = "engine" /\ step
    /\ UNCHANGED <<part, callVars, routingVars, driftVars, leaderVars>>
InDrift(step) ==
    /\ part = "drift" /\ step
    /\ UNCHANGED <<part, callVars, routingVars, engineVars, leaderVars>>
InLeader(step) ==
    /\ part = "leader" /\ step
    /\ UNCHANGED <<part, callVars, routingVars, engineVars, driftVars>>

PlatformNext ==
    \/ InCalls(Dispatching!Next) \/ InRouting(Routing!Next)
    \/ InEngine(Engine!Next) \/ InDrift(Drift!Swarm) \/ InDrift(Drift!LoopStep)
    \/ InLeader(Leader!Next)

\* The event loop of a process keeps running, and providers answer or time out; a process
\* takes up its reloads, its subscription and its messages.  The drift thread runs for
\* ever, `while True` swallows every exception, and Docker does not refuse the same
\* question for ever.
PlatformSpec ==
    /\ PlatformInit /\ [][PlatformNext]_platformVars
    /\ WF_platformVars(InCalls(Dispatching!Tick) \/ InDrift(Drift!LoopStep))
    /\ \A c \in Calls: WF_platformVars(InCalls(Dispatching!Step(c)))
    /\ \A p \in Procs: WF_platformVars(InRouting(Routing!ProcStep(p)))
    /\ SF_platformVars(InDrift(Drift!ListOk))
    /\ \A s \in Services: SF_platformVars(InDrift(Drift!Look(s)))

-----------------------------------------------------------------------------
(* The properties of the parts under names a cfg can list; each is stated  *)
(* and explained in its own module.  A part that rests satisfies its own.  *)

\* The types of all parts.
PlatformTypeOK ==
    /\ Dispatching!TypeOK /\ Routing!TypeOK /\ Engine!TypeOK /\ Drift!TypeOK /\ Leader!TypeOK
\* LlmRouting: quiet processes route by the table.
QuietMeansAgreed == Routing!QuietMeansAgreed
\* LlmCall: tokens are paced, and the ledger has a row for every attempt.
CallsAreBooked == Dispatching!TokensPaced /\ Dispatching!LedgerMatchesAttempts
\* Autoheal: the caps hold in every window, and a refused heal gives its slot back.
HealsAreBounded == Engine!HealCapsHold /\ Engine!NoSlotBurnt
\* Autoheal, ReplicaDrift, PatroniLeader: a cooldown is honoured, an episode is told once
\* and its end after it, nobody is paged soon after a leader was seen.
EpisodesAreTold ==
    Engine!CooldownHonoured /\ Drift!AlertsMatchEpisodes /\ Leader!RecentLeaderNotPaged
\* LlmRouting, LlmCall, ReplicaDrift: an edit reaches every process that is told of it,
\* every call ends, and a service that stays short is reported.
PlatformDelivers == Routing!EditsArrive /\ Dispatching!EveryCallEnds /\ Drift!LongDriftReported
=============================================================================
