------------------------------ MODULE Autoheal ------------------------------
(***************************************************************************)
(* The watchdog's auto-heal engine (watchdog/autoheal.py).  The DNS loop   *)
(* and the replica-drift thread call try_heal; the shared state is two     *)
(* rolling windows of reservations and a cooldown per service, each read   *)
(* and written under one lock.  A heal reserves a slot, force-updates the  *)
(* service outside the lock, gives the slot back when Docker raised, and   *)
(* otherwise verifies the service and may put it in cooldown.              *)
(*                                                                         *)
(* A step is one critical section, or one call to Docker.                  *)
(***************************************************************************)
EXTENDS Integers, Sequences, FiniteSets

CONSTANTS
    Threads,          \* the loops that call try_heal
    Services,         \* Swarm services
    Watches,          \* thread -> the services it may ask to heal
    Allowlisted,      \* services matching WATCHDOG_AUTOHEAL_ALLOWLIST
    MaxPerHour,       \* WATCHDOG_AUTOHEAL_MAX_PER_HOUR
    MaxGlobalPerHour, \* WATCHDOG_AUTOHEAL_MAX_GLOBAL_PER_HOUR
    Window,           \* _WINDOW_SEC, in clock ticks
    MaxTime,          \* bound: the clock stops here
    Faults            \* what may go wrong between the watchdog and Docker

FaultKinds == {"refused", "lost_reply"}

\* What the constants must satisfy.
AutohealAssumption ==
    /\ IsFiniteSet(Threads) /\ Watches \in [Threads -> SUBSET Services]
    /\ Allowlisted \subseteq Services
    /\ MaxPerHour \in Nat /\ MaxGlobalPerHour \in Nat
    /\ Window \in Nat \ {0} /\ MaxTime \in Nat
    /\ Faults \subseteq FaultKinds
    /\ "none" \notin Services

VARIABLES
    heals,     \* heals_per_service: reservation times, oldest first
    global,    \* global_heals
    disabled,  \* disabled_until, NotDisabled when the key is absent
    pc, svc, at,  \* per thread: step, service, the `now` of its call
    landed,    \* history: force-updates done: service, `now`, and which one of that `now`
    promised,  \* history: the latest cooldown deadline announced
    now        \* time.time()

vars == <<heals, global, disabled, pc, svc, at, landed, promised, now>>

NotDisabled == -1
Times == 0..MaxTime
Steps == {"idle", "reserve", "update", "rollback", "verify", "disable"}

TypeOK ==
    /\ heals \in [Services -> Seq(Times)]
    /\ global \in Seq(Times)
    /\ disabled \in [Services -> Nat \cup {NotDisabled}]
    /\ pc \in [Threads -> Steps]
    /\ svc \in [Threads -> Services \cup {"none"}]
    /\ at \in [Threads -> Times]
    /\ landed \subseteq [svc: Services, at: Times, nth: Nat \ {0}]
    /\ promised \in [Services -> Nat]
    /\ now \in Times
    /\ \A s \in Services: Len(heals[s]) <= MaxPerHour
    /\ Len(global) <= MaxGlobalPerHour

Init ==
    /\ heals = [s \in Services |-> <<>>]
    /\ global = <<>>
    /\ disabled = [s \in Services |-> NotDisabled]
    /\ pc = [t \in Threads |-> "idle"]
    /\ svc = [t \in Threads |-> "none"]
    /\ at = [t \in Threads |-> 0]
    /\ landed = {}
    /\ promised = [s \in Services |-> 0]
    /\ now = 0

-----------------------------------------------------------------------------
\* _trim: drop the leading timestamps that left the window.
TrimEager(dq, n) == SelectSeq(dq, LAMBDA x: x > n - Window)
Trim(dq, n) ==
    LET kept == {i \in 1..Len(dq): dq[i] >= n - Window}
    IN  IF kept = {} THEN <<>>
        ELSE SubSeq(dq, CHOOSE i \in kept: \A j \in kept: i <= j, Len(dq))

\* _rollback_reservation on one deque: the timestamp goes if it is the last.
Unwind(dq, n) ==
    IF dq # <<>> /\ dq[Len(dq)] = n THEN SubSeq(dq, 1, Len(dq) - 1) ELSE dq

InCooldown(s, n) == disabled[s] # NotDisabled /\ n < disabled[s]

Goto(t, step) == pc' = [pc EXCEPT ![t] = step]

\* Back to the caller.
Return(t) ==
    /\ Goto(t, "idle")
    /\ svc' = [svc EXCEPT ![t] = "none"]
    /\ at' = [at EXCEPT ![t] = 0]

\* try_heal up to the lock: kill switch on, service allowlisted, time taken.
Call(t, s) ==
    /\ pc[t] = "idle" /\ s \in Watches[t] \cap Allowlisted
    /\ svc' = [svc EXCEPT ![t] = s] /\ at' = [at EXCEPT ![t] = now]
    /\ Goto(t, "reserve")
    /\ UNCHANGED <<heals, global, disabled, landed, promised, now>>

\* _check_and_reserve while the service is in cooldown.
RejectDisabled(t) ==
    /\ pc[t] = "reserve" /\ InCooldown(svc[t], at[t])
    /\ Return(t)
    /\ UNCHANGED <<heals, global, disabled, landed, promised, now>>

\* _check_and_reserve otherwise: the expired cooldown goes, the global window
\* is trimmed and, unless it is full, the service's window too; a slot is taken
\* in both or in neither.
Full(dq, max) == Len(dq) >= max

Reserve(t) ==
    LET s == svc[t]
        n == at[t]
        g == Trim(global, n)
        h == Trim(heals[s], n)
    IN  /\ pc[t] = "reserve" /\ ~InCooldown(s, n)
        /\ disabled' = [disabled EXCEPT ![s] = NotDisabled]
        /\ \/ /\ Full(g, MaxGlobalPerHour)
              /\ global' = g /\ Return(t)
              /\ UNCHANGED heals
           \/ /\ ~Full(g, MaxGlobalPerHour) /\ Full(h, MaxPerHour)
              /\ global' = g /\ heals' = [heals EXCEPT ![s] = h] /\ Return(t)
           \/ /\ ~Full(g, MaxGlobalPerHour) /\ ~Full(h, MaxPerHour)
              /\ global' = Append(g, n) /\ heals' = [heals EXCEPT ![s] = Append(h, n)]
              /\ Goto(t, "update")
              /\ UNCHANGED <<svc, at>>
        /\ UNCHANGED <<landed, promised, now>>

\* The force-updates of services of a set whose `now` was n.
Landings(S, n) == {h \in landed: h.svc \in S /\ h.at = n}

\* services.get and force_update.  Docker may refuse, and the reply to an
\* update it did apply may be lost; both raise.
Landed(t) ==
    landed' = landed \cup
        {[svc |-> svc[t], at |-> at[t], nth |-> Cardinality(Landings({svc[t]}, at[t])) + 1]}

ForceUpdate(t) ==
    /\ pc[t] = "update"
    /\ \/ Landed(t) /\ Goto(t, "verify")
       \/ "refused" \in Faults /\ UNCHANGED landed /\ Goto(t, "rollback")
       \/ "lost_reply" \in Faults /\ Landed(t) /\ Goto(t, "rollback")
    /\ UNCHANGED <<heals, global, disabled, svc, at, promised, now>>

\* _rollback_reservation, and the docker_error result.
Rollback(t) ==
    /\ pc[t] = "rollback"
    /\ heals' = [heals EXCEPT ![svc[t]] = Unwind(@, at[t])]
    /\ global' = Unwind(global, at[t])
    /\ Return(t)
    /\ UNCHANGED <<disabled, landed, promised, now>>

\* The sleep of VERIFY_DELAY_SEC and verify_fn; an exception counts as failing.
Verify(t) ==
    /\ pc[t] = "verify"
    /\ \/ Return(t)
       \/ Goto(t, "disable") /\ UNCHANGED <<svc, at>>
    /\ UNCHANGED <<heals, global, disabled, landed, promised, now>>

\* The verify_failed branch: cooldown for an hour from the call.
Deadline(n) == n + Window

Later(a, b) == IF a >= b THEN a ELSE b

Disable(t) ==
    /\ pc[t] = "disable"
    /\ disabled' = [disabled EXCEPT ![svc[t]] = Deadline(at[t])]
    /\ promised' = [promised EXCEPT ![svc[t]] = Later(@, at[t] + Window)]
    /\ Return(t)
    /\ UNCHANGED <<heals, global, landed, now>>

\* The wait for the lock, which is held for memory operations only, is far
\* shorter than a tick.
Tick ==
    /\ now < MaxTime /\ \A t \in Threads: pc[t] # "reserve"
    /\ now' = now + 1
    /\ UNCHANGED <<heals, global, disabled, pc, svc, at, landed, promised>>

ThreadStep(t) ==
    \/ RejectDisabled(t) \/ Reserve(t) \/ ForceUpdate(t)
    \/ Rollback(t) \/ Verify(t) \/ Disable(t)

Next ==
    \/ \E t \in Threads, s \in Services: Call(t, s)
    \/ \E t \in Threads: ThreadStep(t)
    \/ Tick

Spec == Init /\ [][Next]_vars

-----------------------------------------------------------------------------
(* Properties *)

\* The force-updates whose `now` lies in the window that ends at the present.
Recent(S) == {h \in landed: h.svc \in S /\ h.at <= now /\ h.at >= now - Window}

\* autoheal.py:23 "Cap per-service (default 3/hour)": no rolling window ever
\* holds more force-updates of one service than the cap, whatever Docker
\* refuses and however the two threads overlap.
ServiceCapHolds == \A s \in Services: Cardinality(Recent({s})) <= MaxPerHour

\* "... and global (default 10/hour)": nor more of all services together.
GlobalCapHolds == Cardinality(Recent(Services)) <= MaxGlobalPerHour

\* Both caps, in every window.
HealCapsHold == ServiceCapHolds /\ GlobalCapHolds

\* The services only one loop heals.  Two loops on one service do not keep the
\* two promises below: a heal reserved in between leaves the refused one's slot
\* taken, and the heal verified last overwrites a later deadline.
HealedByOne == {s \in Services: Cardinality({t \in Threads: s \in Watches[t]}) = 1}

\* autoheal.py:214 a refused heal is unwound "without silently burning the
\* per-service quota": every slot taken belongs to a heal that landed or is
\* still under way.
InFlight(S, n) ==
    {t \in Threads: pc[t] \in {"update", "rollback"} /\ svc[t] \in S /\ at[t] = n}
Slots(dq, n) == {i \in 1..Len(dq): dq[i] = n}
NoSlotBurnt ==
    \A s \in HealedByOne, n \in Times:
        Cardinality(Slots(heals[s], n))
            <= Cardinality(Landings({s}, n)) + Cardinality(InFlight({s}, n))

\* autoheal.py:312 "disabled until +1h": once a heal failed verification, no
\* slot is granted to that service before the hour it announced is over.
CooldownHonoured ==
    [][\A t \in Threads:
        pc[t] = "reserve" /\ pc'[t] = "update" /\ svc[t] \in HealedByOne
            => at[t] >= promised[svc[t]]]_vars
=============================================================================
