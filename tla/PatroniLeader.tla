---------------------------- MODULE PatroniLeader ----------------------------
(***************************************************************************)
(* The Patroni leadership thread of the watchdog (watchdog/patroni_leader  *)
(* and _patroni_leader_check_loop).  Each poll asks the REST endpoints for *)
(* the cluster view; a poll nobody answers is skipped, any other advances  *)
(* the leaderless episode and may page.                                    *)
(***************************************************************************)
EXTENDS Integers

CONSTANTS
    AlertAfter,  \* LEADERLESS_ALERT_SEC, in polls
    MaxTime,     \* bound: the clock stops here
    Unreachable  \* whether every REST endpoint may fail to answer

\* What the constants must satisfy.
LeaderAssumption == AlertAfter \in Nat /\ MaxTime \in Nat

VARIABLES
    leader,   \* whether a running member holds a leader role
    started,  \* leaderless_started_at, NotStarted when None
    alerted,  \* LeaderState.alerted
    pages,    \* history: leaderless pages of this episode
    ledAt,    \* history: the last poll that saw a leader, NotStarted at first
    now       \* time.time(), in polls

vars == <<leader, started, alerted, pages, ledAt, now>>

NotStarted == -1

TypeOK ==
    /\ leader \in BOOLEAN /\ alerted \in BOOLEAN
    /\ started \in {NotStarted} \cup (0..now)
    /\ pages \in 0..1
    /\ ledAt \in {NotStarted} \cup (0..now) /\ now \in 0..MaxTime

Init ==
    /\ leader = TRUE /\ started = NotStarted /\ alerted = FALSE
    /\ pages = 0 /\ ledAt = NotStarted /\ now = 0

-----------------------------------------------------------------------------
\* The cluster elects a leader or loses it.
Elect == ~leader /\ leader' = TRUE /\ UNCHANGED <<started, alerted, pages, ledAt, now>>
Lose == leader /\ leader' = FALSE /\ UNCHANGED <<started, alerted, pages, ledAt, now>>

\* The page a leaderless poll calls for, from the episode's start.
PageDue(start) == ~alerted /\ now - start >= AlertAfter

\* check_once on a view without a leader.
PollLeaderless ==
    LET start == IF started = NotStarted THEN now ELSE started
    IN  /\ ~leader
        /\ started' = start
        /\ alerted' = (alerted \/ PageDue(start))
        /\ pages' = IF PageDue(start) THEN pages + 1 ELSE pages
        /\ UNCHANGED <<leader, ledAt>>

\* check_once on a view with one: recovery if paged, and the episode ends.
Ended == started' = NotStarted

PollLed ==
    /\ leader
    /\ Ended /\ alerted' = FALSE /\ pages' = 0 /\ ledAt' = now
    /\ UNCHANGED leader

\* No endpoint answered: the check is skipped.
PollSkipped == Unreachable /\ UNCHANGED <<leader, started, alerted, pages, ledAt>>

Poll ==
    /\ now < MaxTime /\ now' = now + 1
    /\ PollLeaderless \/ PollLed \/ PollSkipped

Next == Elect \/ Lose \/ Poll

Spec == Init /\ [][Next]_vars

-----------------------------------------------------------------------------
(* Properties *)

\* A poll that saw a leader starts the count again: no page within AlertAfter
\* polls of it, whatever happened to the polls in between.
RecentLeaderNotPaged ==
    [][pages' > pages => now - ledAt > AlertAfter \/ ledAt = NotStarted]_vars
=============================================================================
