------------------------------- MODULE Handoff -------------------------------
(***************************************************************************)
(* The one-time tickets that sign a user of the app in on the web brand    *)
(* (services/safety/spicy_handoff.py, routes/spicy_handoff.py): the app    *)
(* mints, the web server exchanges, possibly more than once for one        *)
(* ticket, and Redis keeps the ticket for TICKET_TTL_SEC.                  *)
(***************************************************************************)
EXTENDS Integers, FiniteSets

CONSTANTS
    Users,      \* users of the app
    Mints,      \* calls of mint_handoff: a bound
    Exchanges,  \* calls of exchange_handoff: a bound
    Ttl,        \* TICKET_TTL_SEC in clock ticks
    MaxTime     \* bound: the clock stops here

\* What the constants must satisfy.
HandoffAssumption ==
    /\ Mints \cap Exchanges = {} /\ IsFiniteSet(Mints) /\ IsFiniteSet(Exchanges)
    /\ Ttl \in Nat \ {0} /\ MaxTime \in Nat /\ Users \cap {"none", "503"} = {}

VARIABLES
    tickets,  \* spicy:handoff:*: per live ticket, its user and when it expires
    app,      \* per mint: nothing yet, its user, or "503"
    web,      \* per exchange: nothing yet, the ticket sent, then the answer
    minted,   \* history: per ticket, its user and the time
    now       \* Redis's clock

handoffVars == <<tickets, app, web, minted, now>>

Pending == [pc |-> "idle"]
Refused == [pc: {"401"}, ticket: Mints]
SignedIn == [pc: {"200"}, ticket: Mints, user: Users, at: Nat]

TypeOK ==
    /\ DOMAIN tickets \subseteq Mints /\ DOMAIN minted \subseteq Mints
    /\ \A m \in DOMAIN tickets : tickets[m] \in [user: Users, until: Nat]
    /\ \A m \in DOMAIN minted : minted[m] \in [user: Users, at: Nat]
    /\ app \in [Mints -> Users \cup {"none", "503"}]
    /\ web \in [Exchanges -> {Pending} \cup Refused \cup SignedIn]
    /\ now \in 0..MaxTime

Init ==
    /\ tickets = << >> /\ minted = << >> /\ now = 0
    /\ app = [m \in Mints |-> "none"] /\ web = [x \in Exchanges |-> Pending]

\* The ticket is fresh entropy: here, the call that mints it.  Without Redis: 503.
Mint(m, u) ==
    /\ app[m] = "none"
    /\ \/ /\ app' = [app EXCEPT ![m] = u]
          /\ tickets' = [t \in DOMAIN tickets \cup {m} |->
                 IF t = m THEN [user |-> u, until |-> now + Ttl] ELSE tickets[t]]
          /\ minted' = [t \in DOMAIN minted \cup {m} |->
                 IF t = m THEN [user |-> u, at |-> now] ELSE minted[t]]
       \/ app' = [app EXCEPT ![m] = "503"] /\ UNCHANGED <<tickets, minted>>
    /\ UNCHANGED <<web, now>>

\* GETDEL, atomic.
TakeKeeping(m) == UNCHANGED tickets
Take(m) == tickets' = [t \in DOMAIN tickets \ {m} |-> tickets[t]]

\* Any ticket in an URL may be sent, at any time and again; Redis may also be down,
\* and a payload taken out may still be lost on the way back.
Exchange(x, m) ==
    /\ web[x] = Pending /\ app[m] \in Users
    /\ \/ /\ m \in DOMAIN tickets /\ Take(m)
          /\ web' = [web EXCEPT ![x] =
                 [pc |-> "200", ticket |-> m, user |-> tickets[m].user, at |-> now]]
       \/ m \in DOMAIN tickets /\ Take(m) /\ web' = [web EXCEPT ![x] = [pc |-> "401", ticket |-> m]]
       \/ UNCHANGED tickets /\ web' = [web EXCEPT ![x] = [pc |-> "401", ticket |-> m]]
    /\ UNCHANGED <<app, minted, now>>

Expired == {m \in DOMAIN tickets : tickets[m].until <= now + 1}
Tick ==
    /\ now < MaxTime /\ now' = now + 1
    /\ tickets' = [m \in DOMAIN tickets \ Expired |-> tickets[m]]
    /\ UNCHANGED <<app, web, minted>>

Next ==
    \/ Tick
    \/ \E m \in Mints : \E u \in Users : Mint(m, u)
    \/ \E x \in Exchanges, m \in Mints : Exchange(x, m)
Spec == Init /\ [][Next]_handoffVars

-----------------------------------------------------------------------------
\* spicy_handoff.py:122 "Redeem a ticket exactly once": of all the exchanges of one
\* ticket at most one signs in, as the user who minted it and before it is Ttl old.
RedeemedOnce ==
    LET Served == {x \in Exchanges : web[x].pc = "200"} IN
    /\ \A x, y \in Served : web[x].ticket = web[y].ticket => x = y
    /\ \A x \in Served :
        LET m == minted[web[x].ticket] IN web[x].user = m.user /\ web[x].at - m.at < Ttl
=============================================================================
