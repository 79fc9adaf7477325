------------------------------- MODULE Sockets -------------------------------
(***************************************************************************)
(* Live events to one user's WebSockets (websocket_manager.py, started in  *)
(* main.py, and the endpoint in routes/websocket.py).  Every process keeps *)
(* its own sockets; an event is published to one Redis channel that every  *)
(* process's subscriber listens to, and goes to the publisher's own        *)
(* sockets when Redis fails.                                               *)
(***************************************************************************)
EXTENDS Integers, Sequences, FiniteSets

CONSTANTS
    Procs,    \* processes
    Phones,   \* the user's devices, each with at most one socket at a time
    Events,   \* broadcasts: a bound
    Outages   \* bound: times Redis goes away

\* What the constants must satisfy.
SocketsAssumption == Procs \cap {"new", "out"} = {} /\ Outages \in Nat

VARIABLES
    conns,    \* per process: _connections of the user
    alive,    \* devices whose socket still works
    redis,    \* Redis answers
    heard,    \* per process: its subscriber's unread events; Dead once it returned
    sent,     \* per event: "new", the process that closes its client, or "out"
    got,      \* history: per device, how often each event reached its present socket
    twice,    \* history: events a failing aclose sent out a second time
    outages   \* outages left

socketVars == <<conns, alive, redis, heard, sent, got, twice, outages>>

Dead == [queue |-> << >>, on |-> FALSE]
Listening(queue) == [queue |-> queue, on |-> TRUE]

TypeOK ==
    /\ conns \in [Procs -> SUBSET Phones] /\ alive \subseteq Phones
    /\ redis \in BOOLEAN /\ outages \in 0..Outages
    /\ heard \in [Procs -> [queue: Seq(Events), on: BOOLEAN]]
    /\ sent \in [Events -> {"new", "out"} \cup Procs]
    /\ got \in [Phones -> [Events -> Nat]] /\ twice \subseteq Events

\* start_redis_subscriber ran at start-up in every process.
Init ==
    /\ conns = [p \in Procs |-> {}] /\ alive = {} /\ redis = TRUE
    /\ heard = [p \in Procs |-> Listening(<< >>)]
    /\ sent = [e \in Events |-> "new"]
    /\ got = [d \in Phones |-> [e \in Events |-> 0]]
    /\ twice = {} /\ outages = Outages

-----------------------------------------------------------------------------
(* websocket_endpoint: connect, and disconnect whenever the read loop ends. *)

Connect(p, d) ==
    /\ d \notin alive /\ \A q \in Procs : d \notin conns[q]
    /\ alive' = alive \cup {d} /\ conns' = [conns EXCEPT ![p] = @ \cup {d}]
    /\ got' = [got EXCEPT ![d] = [e \in Events |-> 0]]
    /\ UNCHANGED <<redis, heard, sent, twice, outages>>
Breaks(d) ==
    /\ d \in alive /\ alive' = alive \ {d}
    /\ UNCHANGED <<conns, redis, heard, sent, got, twice, outages>>
Disconnect(p, d) ==
    /\ d \in conns[p] /\ d \notin alive
    /\ conns' = [conns EXCEPT ![p] = @ \ {d}]
    /\ UNCHANGED <<alive, redis, heard, sent, got, twice, outages>>

\* _send_to_user_local: to every socket of the process; those that fail are dropped.
SendLocal(p, e) ==
    /\ got' = [d \in Phones |-> IF d \in conns[p] \cap alive
                                THEN [got[d] EXCEPT ![e] = @ + 1] ELSE got[d]]
    /\ conns' = [conns EXCEPT ![p] = @ \cap alive]

-----------------------------------------------------------------------------
(* _publish, in a task of its own for each event. *)

Publish(p, e) ==
    /\ sent[e] = "new"
    /\ \/ /\ redis
          /\ heard' = [q \in Procs |-> IF heard[q].on
                                       THEN Listening(Append(heard[q].queue, e)) ELSE Dead]
          /\ sent' = [sent EXCEPT ![e] = p]
          /\ UNCHANGED <<conns, got>>
       \/ /\ ~redis /\ SendLocal(p, e)
          /\ sent' = [sent EXCEPT ![e] = "out"] /\ UNCHANGED heard
    /\ UNCHANGED <<alive, redis, twice, outages>>

\* aclose is inside the try: when it fails the event goes out locally as well.
Close(e) ==
    /\ sent[e] \in Procs
    /\ sent' = [sent EXCEPT ![e] = "out"]
    /\ IF redis THEN UNCHANGED <<conns, got, twice>>
       ELSE SendLocal(sent[e], e) /\ twice' = twice \cup {e}
    /\ UNCHANGED <<alive, redis, heard, outages>>

\* start_redis_subscriber: one message of listen().
Deliver(p) ==
    /\ heard[p].queue # << >>
    /\ SendLocal(p, Head(heard[p].queue))
    /\ heard' = [heard EXCEPT ![p] = Listening(Tail(@.queue))]
    /\ UNCHANGED <<alive, redis, sent, twice, outages>>

\* "Redis subscriber died": the task returns and nothing starts it again.
SubscriberDies(p) ==
    /\ ~redis /\ heard[p].on
    /\ heard' = [heard EXCEPT ![p] = Dead]
    /\ UNCHANGED <<conns, alive, redis, sent, got, twice, outages>>

RedisFails ==
    /\ redis /\ outages > 0
    /\ redis' = FALSE /\ outages' = outages - 1
    /\ UNCHANGED <<conns, alive, heard, sent, got, twice>>
RedisReturns ==
    /\ ~redis /\ redis' = TRUE
    /\ UNCHANGED <<conns, alive, heard, sent, got, twice, outages>>

Next ==
    \/ RedisFails \/ RedisReturns
    \/ \E d \in Phones : Breaks(d)
    \/ \E e \in Events : Close(e)
    \/ \E p \in Procs :
        \/ Deliver(p) \/ SubscriberDies(p)
        \/ \E d \in Phones : Connect(p, d) \/ Disconnect(p, d)
        \/ \E e \in Events : Publish(p, e)
Spec == Init /\ [][Next]_socketVars

-----------------------------------------------------------------------------
\* A socket carries an event once, however many processes there are; twice only when
\* the publisher's client failed to close after it had published (_publish).
HeardOnce ==
    \A d \in Phones, e \in Events : got[d][e] <= IF e \in twice THEN 2 ELSE 1

\* An event still waiting for a process has reached none of its sockets, so they get
\* what comes through the channel in the order it was published (listen() is read by
\* one task); only the copy a failing aclose sent may be ahead.
NotAheadOfQueue ==
    \A p \in Procs : \A i \in DOMAIN heard[p].queue, d \in conns[p] :
        LET e == heard[p].queue[i] IN got[d][e] <= IF e \in twice THEN 1 ELSE 0
=============================================================================
