--------------------------- MODULE PlatformProofs ---------------------------
(***************************************************************************)
(* Proofs about what keeps the service running, for all constants of       *)
(* MCPlatform.                                                             *)
(*                                                                         *)
(* LlmRouting, for any number of processes, admin requests and edits: once *)
(* things are quiet a process that was told of every edit routes by the    *)
(* table, in whatever order its overlapping reloads ended.                 *)
(* LlmCall, for any number of calls: tokens are paced, waits are kept and  *)
(* every attempt has its row in the ledger.                                *)
(* Autoheal, for any number of loops and services: no window of an hour    *)
(* holds more heals than its caps, no refused heal keeps its slot, and no  *)
(* cooldown is cut short.                                                  *)
(* ReplicaDrift and PatroniLeader, for any number of services and polls:   *)
(* alerts and pages stand for what was seen.                               *)
(***************************************************************************)
EXTENDS MCPlatform, Sequences, FiniteSets, TLAPS, FiniteSetTheorems, WellFoundedInduction,
        NaturalsInduction

-----------------------------------------------------------------------------
(* A set of numbers has a least element.                                   *)

LEMMA LeastElement ==
    ASSUME NEW T, T \subseteq Nat, T # {}
    PROVE  \E x \in T: \A y \in T: x <= y
<1>1. PICK x \in T: \A y \in T: ~(<<y, x>> \in OpToRel(<, Nat))
  BY NatLessThanWellFounded, WFMin
<1>2. \A y \in T: ~(y < x)
  BY <1>1 DEF OpToRel
<1> QED
  BY <1>2

-----------------------------------------------------------------------------
(* LlmRouting.                                                             *)

\* A broadcast that is still to come belongs to an admin request under way.
Announcing == {e \in Procs \X Handlers: load[e[1]][e[2]].announce}

\* Every message stands for an edit whose broadcast was made.
InboxesAreBounded == \A p \in Procs: inbox[p] + Cardinality(Announcing) <= edits

TasksAreReal ==
    \A p \in Procs, t \in Routing!Tasks:
        /\ load[p][t].pc = "publish" => load[p][t].announce
        /\ load[p][t].announce => t \in Handlers /\ load[p][t].pc # "idle"

\* Before its startup reload is over a process does nothing else and hears nothing.
StartsAlone ==
    \A p \in Procs:
        \/ Routing!Serving(p)
        \/ /\ sub[p] = "off" /\ inbox[p] = 0
           /\ \A t \in Routing!Tasks \ {"startup"}: load[p][t].pc = "idle"

\* The copy of p will be what the table says: it is, or the reload that makes it so is
\* under way, and no reload that nobody follows up has read anything older.
Settling(p) ==
    /\ \A t \in {"startup", "listener"}: load[p][t].pc = "assign" => load[p][t].got = row
    /\ \/ cache[p] = row
       \/ \E t \in Routing!Tasks: load[p][t].pc = "fetch" \/ (load[p][t].pc = "assign" /\ load[p][t].got = row)

\* Or p is still to hear of an edit, or about to read the table for the one it heard of.
WillHear(p) == Announcing # {} \/ inbox[p] > 0 \/ load[p]["listener"].pc = "fetch"
ComesRight == \A p \in Procs: p \in untold \/ WillHear(p) \/ Settling(p)

RoutingInv == Routing!TypeOK /\ InboxesAreBounded /\ TasksAreReal /\ StartsAlone /\ ComesRight

\* What a reload is, and a step that changes one reload only.
Reload == [pc: {"idle", "fetch", "assign", "publish"}, got: Pins \cup {Routing!NoPin}, announce: BOOLEAN]
OneReload(p, t) ==
    /\ load' \in [Procs -> [Routing!Tasks -> Reload]]
    /\ \A q \in Procs, u \in Routing!Tasks: q # p \/ u # t => load'[q][u] = load[q][u]
Followed(p, t) ==
    /\ load'[p][t].announce = load[p][t].announce /\ load'[p][t].got \in {load[p][t].got, Routing!NoPin}
    /\ load'[p][t].pc = IF load[p][t].announce THEN "publish" ELSE "idle"

LEMMA Update ==
    ASSUME Routing!TypeOK, NEW p \in Procs, NEW t \in Routing!Tasks, NEW r \in Reload,
           load' = [load EXCEPT ![p][t] = r]
    PROVE  OneReload(p, t) /\ load'[p][t] = r
BY DEF Routing!TypeOK, Reload, OneReload

LEMMA FetchFacts ==
    ASSUME Routing!TypeOK, NEW p \in Procs, NEW t \in Routing!Tasks, Routing!Fetch(p, t)
    PROVE  /\ OneReload(p, t) /\ load'[p][t].pc = "assign" /\ load'[p][t].got = row
           /\ load'[p][t].announce = load[p][t].announce
<1> DEFINE r == [load[p][t] EXCEPT !.pc = "assign", !.got = row]
<1>0. load[p][t] \in Reload /\ row \in Pins \cup {Routing!NoPin}
  BY DEF Routing!TypeOK, Reload
<1>1. r \in Reload /\ r.pc = "assign" /\ r.got = row /\ r.announce = load[p][t].announce
  <2>1. r \in Reload
    BY <1>0 DEF Reload
  <2>2. r.pc = "assign" /\ r.got = row
    BY <1>0 DEF Reload
  <2>3. r.announce = load[p][t].announce
    BY <1>0 DEF Reload
  <2> QED
    BY <2>1, <2>2, <2>3
<1>2. load' = [load EXCEPT ![p][t] = r]
  BY DEF Routing!Fetch, Routing!TypeOK
<1> HIDE DEF r
<1> QED
  BY <1>1, <1>2, Update

LEMMA AfterAssignFacts ==
    ASSUME Routing!TypeOK, NEW p \in Procs, NEW t \in Routing!Tasks, Routing!AfterAssign(p, t)
    PROVE  OneReload(p, t) /\ Followed(p, t)
<1> DEFINE r == IF load[p][t].announce THEN [load[p][t] EXCEPT !.pc = "publish"] ELSE Routing!Idle
<1>1. r \in Reload
  BY DEF Routing!TypeOK, Reload, Routing!Idle
<1>2. load' = [load EXCEPT ![p][t] = r]
  BY DEF Routing!AfterAssign
<1>3. load'[p][t] = r /\ OneReload(p, t)
  BY <1>1, <1>2, Update
<1>4. CASE load[p][t].announce
  <2>1. load[p][t] \in Reload /\ load'[p][t] = [load[p][t] EXCEPT !.pc = "publish"]
    BY <1>3, <1>4 DEF Routing!TypeOK, Reload
  <2>2. load'[p][t].pc = "publish" /\ load'[p][t].got = load[p][t].got
    BY <2>1 DEF Reload
  <2>3. load'[p][t].announce = load[p][t].announce
    BY <2>1 DEF Reload
  <2> QED
    BY <1>3, <1>4, <2>2, <2>3 DEF Followed
<1>5. CASE ~load[p][t].announce
  <2>1. load'[p][t] = Routing!Idle
    BY <1>3, <1>5
  <2>2. load'[p][t].pc = "idle" /\ load'[p][t].got = Routing!NoPin /\ load'[p][t].announce = FALSE
    BY <2>1 DEF Routing!Idle
  <2>3. load[p][t].announce \in BOOLEAN
    BY DEF Routing!TypeOK
  <2> QED
    BY <1>3, <1>5, <2>2, <2>3 DEF Followed
<1> QED
  BY <1>4, <1>5

LEMMA EditFacts ==
    ASSUME Routing!TypeOK, NEW p \in Procs, NEW h \in Handlers, NEW pin \in Pins \cup {Routing!NoPin},
           Routing!Edit(p, h, pin)
    PROVE  /\ OneReload(p, h) /\ load'[p][h].pc = "fetch"
           /\ load'[p][h].announce <=> (pin # Routing!NoPin \/ row # Routing!NoPin)
<1> DEFINE r == [pc |-> "fetch", got |-> Routing!NoPin, announce |-> pin # Routing!NoPin \/ row # Routing!NoPin]
<1>1. r \in Reload
  BY DEF Reload
<1>2. load' = [load EXCEPT ![p][h] = r]
  BY DEF Routing!Edit
<1>3. load'[p][h] = r /\ OneReload(p, h)
  BY <1>1, <1>2, Update DEF Routing!Tasks
<1>4. load'[p][h].pc = "fetch"
  BY <1>3
<1>5. load'[p][h].announce <=> (pin # Routing!NoPin \/ row # Routing!NoPin)
  <2>1. r.announce = (pin # Routing!NoPin \/ row # Routing!NoPin)
    OBVIOUS
  <2> HIDE DEF r
  <2> QED
    BY <1>3, <2>1
<1> QED
  BY <1>3, <1>4, <1>5

LEMMA PublishFacts ==
    ASSUME Routing!TypeOK, NEW p \in Procs, NEW h \in Handlers, Routing!Publish(p, h)
    PROVE  /\ OneReload(p, h) /\ load'[p][h].pc = "idle" /\ ~load'[p][h].announce
<1>1. Routing!Idle \in Reload
  BY DEF Reload, Routing!Idle
<1>2. load' = [load EXCEPT ![p][h] = Routing!Idle]
  BY DEF Routing!Publish
<1>3. load'[p][h] = Routing!Idle /\ OneReload(p, h)
  BY <1>1, <1>2, Update DEF Routing!Tasks
<1> QED
  BY <1>3 DEF Routing!Idle

LEMMA ReceiveFacts ==
    ASSUME Routing!TypeOK, NEW p \in Procs, Routing!Receive(p)
    PROVE  /\ OneReload(p, "listener") /\ load'[p]["listener"].pc = "fetch"
           /\ load'[p]["listener"].announce = load[p]["listener"].announce
           /\ load'[p]["listener"].got = load[p]["listener"].got
<1> DEFINE r == [load[p]["listener"] EXCEPT !.pc = "fetch"]
<1>0. "listener" \in Routing!Tasks
  BY DEF Routing!Tasks
<1>1. r \in Reload /\ r.pc = "fetch" /\ r.announce = load[p]["listener"].announce /\ r.got = load[p]["listener"].got
  <2>1. load[p]["listener"] \in Reload
    BY <1>0 DEF Routing!TypeOK, Reload
  <2>2. r \in Reload
    BY <2>1 DEF Reload
  <2>3. r.pc = "fetch" /\ r.got = load[p]["listener"].got
    BY <2>1 DEF Reload
  <2>4. r.announce = load[p]["listener"].announce
    BY <2>1 DEF Reload
  <2> QED
    BY <2>2, <2>3, <2>4
<1>2. load' = [load EXCEPT ![p]["listener"] = r]
  BY DEF Routing!Receive
<1> HIDE DEF r
<1> QED
  BY <1>0, <1>1, <1>2, Update

LEMMA RestartFacts ==
    ASSUME Routing!TypeOK, NEW p \in Procs, Routing!Restart(p)
    PROVE  /\ load' \in [Procs -> [Routing!Tasks -> Reload]]
           /\ \A q \in Procs \ {p}: load'[q] = load[q]
           /\ \A t \in Routing!Tasks: /\ load'[p][t].pc = IF t = "startup" THEN "fetch" ELSE "idle"
                                      /\ ~load'[p][t].announce
<1>1. Routing!Booting \in [Routing!Tasks -> Reload]
  BY DEF Routing!Booting, Routing!Idle, Reload
<1>2. load' = [load EXCEPT ![p] = Routing!Booting]
  BY DEF Routing!Restart
<1>3. load'[p] = Routing!Booting
  BY <1>2 DEF Routing!TypeOK
<1> QED
  BY <1>1, <1>2, <1>3 DEF Routing!TypeOK, Routing!Booting, Routing!Idle, Reload

-----------------------------------------------------------------------------
(* The steps.                                                              *)

\* A step keeps who announces, or is an edit, a broadcast or a restart.
SameAnnouncers == \A p \in Procs, t \in Routing!Tasks: load'[p][t].announce = load[p][t].announce

LEMMA AnnouncingIsFinite ==
    ASSUME Routing!RoutingAssumption
    PROVE  /\ IsFiniteSet(Announcing) /\ Cardinality(Announcing) \in Nat
           /\ Cardinality(Announcing') \in Nat
<1>0. IsFiniteSet(Procs) /\ IsFiniteSet(Handlers)
  BY DEF Routing!RoutingAssumption, Routing!IsFiniteSet, IsFiniteSet
<1>1. IsFiniteSet(Procs \X Handlers)
  BY <1>0, FS_Product, Zenon
<1>2. Announcing \in SUBSET (Procs \X Handlers) /\ Announcing' \in SUBSET (Procs \X Handlers)
  BY DEF Announcing
<1> QED
  BY <1>1, <1>2, FS_Subset, FS_CardinalityType

LEMMA FewerStaysBounded ==
    ASSUME Routing!RoutingAssumption, Routing!TypeOK, InboxesAreBounded, inbox' \in [Procs -> Nat],
           \A p \in Procs: inbox'[p] <= inbox[p], Announcing' \subseteq Announcing, edits' = edits
    PROVE  InboxesAreBounded'
<1>1. Cardinality(Announcing') <= Cardinality(Announcing) /\ Cardinality(Announcing') \in Nat
  BY AnnouncingIsFinite, FS_Subset, FS_CardinalityType
<1> QED
  BY <1>1, AnnouncingIsFinite DEF InboxesAreBounded, Routing!TypeOK, Routing!RoutingAssumption

LEMMA RestIsSame ==
    ASSUME SameAnnouncers
    PROVE  Announcing' = Announcing
<1>1. \A e \in Procs \X Handlers: e[1] \in Procs /\ e[2] \in Routing!Tasks
  BY DEF Routing!Tasks
<1>2. \A e \in Procs \X Handlers: load'[e[1]][e[2]].announce = load[e[1]][e[2]].announce
  BY <1>1 DEF SameAnnouncers
<1> QED
  BY <1>2, Zenon DEF Announcing

LEMMA ReloadSteps ==
    ASSUME Routing!TypeOK, NEW p \in Procs, NEW t \in Routing!Tasks,
           Routing!Fetch(p, t) \/ Routing!Assign(p, t) \/ Routing!FetchFails(p, t)
    PROVE  OneReload(p, t) /\ SameAnnouncers /\ UNCHANGED <<row, sub, inbox, redis, edits>>
<1>1. CASE Routing!Fetch(p, t)
  <2>1. OneReload(p, t) /\ load'[p][t].announce = load[p][t].announce
    BY <1>1, FetchFacts
  <2>2. SameAnnouncers
    BY <2>1, Zenon DEF OneReload, SameAnnouncers
  <2> QED
    BY <1>1, <2>1, <2>2 DEF Routing!Fetch
<1>2. CASE Routing!Assign(p, t) \/ Routing!FetchFails(p, t)
  BY <1>2, AfterAssignFacts DEF Routing!Assign, Routing!FetchFails, OneReload, SameAnnouncers, Followed
<1> QED
  BY <1>1, <1>2

LEMMA BoundStep ==
    ASSUME Routing!RoutingAssumption, Routing!TypeOK, InboxesAreBounded, TasksAreReal, Routing!Next
    PROVE  InboxesAreBounded' /\ inbox' \in [Procs -> Nat]
<1> USE DEF Routing!TypeOK, Routing!RoutingAssumption
<1>0. inbox \in [Procs -> Nat] /\ edits \in Nat
  OBVIOUS
<1>1. ASSUME NEW p \in Procs, NEW t \in Routing!Tasks,
             Routing!Fetch(p, t) \/ Routing!Assign(p, t) \/ Routing!FetchFails(p, t)
      PROVE  InboxesAreBounded' /\ inbox' \in [Procs -> Nat]
  BY <1>0, <1>1, ReloadSteps, RestIsSame, FewerStaysBounded
<1>2. ASSUME NEW p \in Procs, NEW h \in Handlers, NEW pin \in Pins \cup {Routing!NoPin},
             Routing!Edit(p, h, pin)
      PROVE  InboxesAreBounded' /\ inbox' \in [Procs -> Nat]
  <2>1. inbox' = inbox /\ edits' = edits + 1
    BY <1>2 DEF Routing!Edit
  <2>2. Announcing' \in SUBSET (Announcing \cup {<<p, h>>})
    <3>0. \A e \in Procs \X Handlers: e = <<e[1], e[2]>> /\ e[1] \in Procs /\ e[2] \in Routing!Tasks
      BY DEF Routing!Tasks
    <3>5. OneReload(p, h)
      BY <1>2, EditFacts
    <3>1. \A e \in Procs \X Handlers: e # <<p, h>> => load'[e[1]][e[2]] = load[e[1]][e[2]]
      BY <3>0, <3>5 DEF OneReload
    <3> QED
      BY <3>1 DEF Announcing
  <2>3. /\ Cardinality(Announcing') <= Cardinality(Announcing \cup {<<p, h>>})
        /\ Cardinality(Announcing') \in Nat
    BY <2>2, AnnouncingIsFinite, FS_AddElement, FS_Subset, FS_CardinalityType
  <2>4. Cardinality(Announcing \cup {<<p, h>>}) <= Cardinality(Announcing) + 1
    <3>1. Cardinality(Announcing \cup {<<p, h>>}) =
             IF <<p, h>> \in Announcing THEN Cardinality(Announcing) ELSE Cardinality(Announcing) + 1
      BY AnnouncingIsFinite, FS_AddElement, Zenon
    <3> QED
      BY <3>1, AnnouncingIsFinite
  <2>5. Cardinality(Announcing \cup {<<p, h>>}) \in Nat
    BY AnnouncingIsFinite, FS_AddElement, FS_CardinalityType
  <2> QED
    BY <1>0, <2>1, <2>3, <2>4, <2>5, AnnouncingIsFinite DEF InboxesAreBounded
<1>3. ASSUME NEW p \in Procs, NEW h \in Handlers, Routing!Publish(p, h)
      PROVE  InboxesAreBounded' /\ inbox' \in [Procs -> Nat]
  <2>1. edits' = edits /\ inbox' = [q \in Procs |-> IF Routing!Hears(q) THEN inbox[q] + 1 ELSE inbox[q]]
    BY <1>3 DEF Routing!Publish
  <2>2. <<p, h>> \in Announcing /\ Announcing' = Announcing \ {<<p, h>>}
    <3>0. \A e \in Procs \X Handlers: e = <<e[1], e[2]>> /\ e[1] \in Procs /\ e[2] \in Routing!Tasks
      BY DEF Routing!Tasks
    <3>5. OneReload(p, h)
      BY <1>3, PublishFacts
    <3>1. \A e \in Procs \X Handlers: e # <<p, h>> => load'[e[1]][e[2]] = load[e[1]][e[2]]
      BY <3>0, <3>5 DEF OneReload
    <3>2. load[p][h].announce /\ ~load'[p][h].announce
      BY <1>3, PublishFacts DEF TasksAreReal, Routing!Tasks, Routing!Publish
    <3>3. <<p, h>> \in Procs \X Handlers /\ <<p, h>>[1] = p /\ <<p, h>>[2] = h
      OBVIOUS
    <3> QED
      BY <3>1, <3>2, <3>3 DEF Announcing
  <2>3. Cardinality(Announcing') = Cardinality(Announcing) - 1
    BY <2>2, AnnouncingIsFinite, FS_RemoveElement
  <2>4. inbox' \in [Procs -> Nat] /\ \A q \in Procs: inbox'[q] <= inbox[q] + 1
    BY <1>0, <2>1
  <2> QED
    BY <1>0, <2>1, <2>3, <2>4, AnnouncingIsFinite DEF InboxesAreBounded
<1>4. ASSUME NEW p \in Procs, Routing!Receive(p)
      PROVE  InboxesAreBounded' /\ inbox' \in [Procs -> Nat]
  <2>1. inbox' \in [Procs -> Nat] /\ (\A q \in Procs: inbox'[q] <= inbox[q]) /\ edits' = edits
    BY <1>0, <1>4 DEF Routing!Receive
  <2>2. SameAnnouncers
    BY <1>4, ReceiveFacts DEF SameAnnouncers, OneReload
  <2> QED
    BY <2>1, <2>2, RestIsSame, FewerStaysBounded
<1>5. ASSUME NEW p \in Procs, Routing!Restart(p)
      PROVE  InboxesAreBounded' /\ inbox' \in [Procs -> Nat]
  <2>1. inbox' \in [Procs -> Nat] /\ (\A q \in Procs: inbox'[q] <= inbox[q]) /\ edits' = edits
    BY <1>0, <1>5 DEF Routing!Restart
  <2>2. Announcing' \subseteq Announcing
    BY <1>5, RestartFacts DEF Announcing, Routing!Tasks
  <2> QED
    BY <2>1, <2>2, FewerStaysBounded
<1>6. ASSUME NEW p \in Procs, Routing!Subscribe(p)
      PROVE  InboxesAreBounded' /\ inbox' \in [Procs -> Nat]
  BY <1>0, <1>6, FewerStaysBounded DEF Routing!Subscribe, Announcing
<1>7. CASE Routing!RedisDown \/ Routing!RedisUp
  <2>1. inbox' \in [Procs -> Nat] /\ (\A q \in Procs: inbox'[q] <= inbox[q]) /\ edits' = edits /\ load' = load
    BY <1>0, <1>7 DEF Routing!RedisDown, Routing!RedisUp
  <2> QED
    BY <2>1, FewerStaysBounded DEF Announcing
<1> QED
  BY <1>1, <1>2, <1>3, <1>4, <1>5, <1>6, <1>7
     DEF Routing!Next, Routing!Admin, Routing!Failure, Routing!ProcStep

LEMMA RoutingTypeStep ==
    ASSUME Routing!RoutingAssumption, Routing!TypeOK, InboxesAreBounded, TasksAreReal, Routing!Next
    PROVE  Routing!TypeOK'
<1> USE DEF Routing!TypeOK, Routing!RoutingAssumption
<1> DEFINE Rest == /\ row' \in Pins \cup {Routing!NoPin} /\ cache' \in [Procs -> Pins \cup {Routing!NoPin}]
                   /\ sub' \in [Procs -> {"off", "on", "dead"}] /\ untold' \subseteq Procs
                   /\ edits' \in 0..MaxEdits
<1>1. Rest
  <2>1. ASSUME NEW p \in Procs, NEW t \in Routing!Tasks, Routing!Fetch(p, t)
        PROVE  Rest
    BY <2>1 DEF Routing!Fetch
  <2>2. ASSUME NEW p \in Procs, NEW t \in Routing!Tasks, Routing!Assign(p, t)
        PROVE  Rest
    BY <2>2 DEF Routing!Assign
  <2>3. ASSUME NEW p \in Procs, NEW t \in Routing!Tasks, Routing!FetchFails(p, t)
        PROVE  Rest
    BY <2>3 DEF Routing!FetchFails
  <2>4. ASSUME NEW p \in Procs, NEW h \in Handlers, NEW pin \in Pins \cup {Routing!NoPin},
               Routing!Edit(p, h, pin)
        PROVE  Rest
    BY <2>4 DEF Routing!Edit
  <2>5. ASSUME NEW p \in Procs, NEW h \in Handlers, Routing!Publish(p, h)
        PROVE  Rest
    BY <2>5 DEF Routing!Publish
  <2>6. ASSUME NEW p \in Procs, Routing!Receive(p) \/ Routing!Subscribe(p) \/ Routing!Restart(p)
        PROVE  Rest
    BY <2>6 DEF Routing!Receive, Routing!Subscribe, Routing!Restart
  <2>7. CASE Routing!RedisDown \/ Routing!RedisUp
    BY <2>7 DEF Routing!RedisDown, Routing!RedisUp
  <2> QED
    BY <2>1, <2>2, <2>3, <2>4, <2>5, <2>6, <2>7
       DEF Routing!Next, Routing!Admin, Routing!Failure, Routing!ProcStep
<1>2. inbox' \in [Procs -> 0..MaxEdits]
  <2>1. inbox' \in [Procs -> Nat] /\ InboxesAreBounded'
    BY BoundStep
  <2>2. Cardinality(Announcing') \in Nat
    BY AnnouncingIsFinite
  <2> QED
    BY <1>1, <2>1, <2>2 DEF InboxesAreBounded
<1>3. load' \in [Procs -> [Routing!Tasks -> Reload]]
  <2>1. ASSUME NEW p \in Procs, Routing!Subscribe(p)
        PROVE  load' = load
    BY <2>1 DEF Routing!Subscribe
  <2>2. CASE Routing!RedisDown \/ Routing!RedisUp
    BY <2>2 DEF Routing!RedisDown, Routing!RedisUp, Reload
  <2>3. load \in [Procs -> [Routing!Tasks -> Reload]]
    BY DEF Reload
  <2> QED
    BY <2>1, <2>2, <2>3, ReloadSteps, EditFacts, PublishFacts, ReceiveFacts, RestartFacts
       DEF Routing!Next, Routing!Admin, Routing!Failure, Routing!ProcStep, OneReload
<1>4. redis' \in BOOLEAN
  BY DEF Routing!Next, Routing!Admin, Routing!Failure, Routing!ProcStep, Routing!Fetch, Routing!Assign,
     Routing!FetchFails, Routing!Edit, Routing!Publish, Routing!Receive, Routing!Restart,
     Routing!Subscribe, Routing!RedisDown, Routing!RedisUp
<1> QED
  BY <1>1, <1>2, <1>3, <1>4 DEF Reload

LEMMA TasksStep ==
    ASSUME Routing!RoutingAssumption, Routing!TypeOK, TasksAreReal, Routing!Next
    PROVE  TasksAreReal'
<1> USE DEF TasksAreReal
<1>0. ASSUME NEW p \in Procs, NEW t \in Routing!Tasks, OneReload(p, t),
             load'[p][t].pc = "publish" => load'[p][t].announce,
             load'[p][t].announce => t \in Handlers /\ load'[p][t].pc # "idle"
      PROVE  TasksAreReal'
  <2>1. ASSUME NEW q \in Procs, NEW u \in Routing!Tasks
        PROVE  /\ load'[q][u].pc = "publish" => load'[q][u].announce
               /\ load'[q][u].announce => u \in Handlers /\ load'[q][u].pc # "idle"
    <3>1. CASE q = p /\ u = t
      BY <1>0, <3>1
    <3>2. CASE q # p \/ u # t
      BY <1>0, <3>2 DEF OneReload
    <3> QED
      BY <3>1, <3>2
  <2> QED
    BY <2>1 DEF Routing!Tasks
<1>1. ASSUME NEW p \in Procs, NEW t \in Routing!Tasks, Routing!Fetch(p, t)
      PROVE  TasksAreReal'
  BY <1>0, <1>1, FetchFacts
<1>2. ASSUME NEW p \in Procs, NEW t \in Routing!Tasks, Routing!Assign(p, t) \/ Routing!FetchFails(p, t)
      PROVE  TasksAreReal'
  <2>1. OneReload(p, t) /\ Followed(p, t)
    BY <1>2, AfterAssignFacts DEF Routing!Assign, Routing!FetchFails
  <2> QED
    BY <1>0, <2>1 DEF Followed
<1>3. ASSUME NEW p \in Procs, NEW h \in Handlers, NEW pin \in Pins \cup {Routing!NoPin},
             Routing!Edit(p, h, pin)
      PROVE  TasksAreReal'
  BY <1>0, <1>3, EditFacts DEF Routing!Tasks
<1>4. ASSUME NEW p \in Procs, NEW h \in Handlers, Routing!Publish(p, h)
      PROVE  TasksAreReal'
  BY <1>0, <1>4, PublishFacts DEF Routing!Tasks
<1>5. ASSUME NEW p \in Procs, Routing!Receive(p)
      PROVE  TasksAreReal'
  <2>1. "listener" \in Routing!Tasks
    BY DEF Routing!Tasks
  <2> QED
    BY <1>0, <1>5, <2>1, ReceiveFacts
<1>6. ASSUME NEW p \in Procs, Routing!Restart(p)
      PROVE  TasksAreReal'
  <2>1. ASSUME NEW q \in Procs, NEW u \in Routing!Tasks
        PROVE  /\ load'[q][u].pc = "publish" => load'[q][u].announce
               /\ load'[q][u].announce => u \in Handlers /\ load'[q][u].pc # "idle"
    <3>1. CASE q = p
      BY <1>6, <3>1, RestartFacts
    <3>2. CASE q # p
      BY <1>6, <3>2, RestartFacts
    <3> QED
      BY <3>1, <3>2
  <2> QED
    BY <2>1 DEF Routing!Tasks
<1>7. ASSUME NEW p \in Procs, Routing!Subscribe(p)
      PROVE  TasksAreReal'
  BY <1>7 DEF Routing!Subscribe, Routing!Tasks
<1>8. CASE Routing!RedisDown \/ Routing!RedisUp
  BY <1>8 DEF Routing!RedisDown, Routing!RedisUp, Routing!Tasks
<1> QED
  BY <1>1, <1>2, <1>3, <1>4, <1>5, <1>6, <1>7, <1>8
     DEF Routing!Next, Routing!Admin, Routing!Failure, Routing!ProcStep

\* What StartsAlone says of one process.
Alone(p) ==
    \/ Routing!Serving(p)
    \/ /\ sub[p] = "off" /\ inbox[p] = 0
       /\ \A t \in Routing!Tasks \ {"startup"}: load[p][t].pc = "idle"

LEMMA StartsStep ==
    ASSUME Routing!RoutingAssumption, Routing!TypeOK, StartsAlone, Routing!Next
    PROVE  StartsAlone'
<1> SUFFICES ASSUME NEW q \in Procs
             PROVE  Alone(q)'
  BY DEF StartsAlone, Alone, Routing!Serving, Routing!Tasks
<1>0. Alone(q) /\ "startup" \in Routing!Tasks /\ "listener" \in Routing!Tasks /\ "startup" \notin Handlers
  BY DEF StartsAlone, Alone, Routing!Tasks, Routing!RoutingAssumption
<1> USE <1>0 DEF Alone, Routing!Serving
<1>1. ASSUME NEW p \in Procs, NEW t \in Routing!Tasks,
             Routing!Fetch(p, t) \/ Routing!Assign(p, t) \/ Routing!FetchFails(p, t)
      PROVE  Alone(q)'
  <2>1. OneReload(p, t) /\ sub' = sub /\ inbox' = inbox /\ load[p][t].pc # "idle"
    BY <1>1, ReloadSteps DEF Routing!Fetch, Routing!Assign, Routing!FetchFails
  <2>2. CASE q # p
    BY <2>1, <2>2 DEF OneReload, Routing!Tasks
  <2>3. CASE q = p /\ t # "startup"
    BY <2>1, <2>3 DEF OneReload
  <2>4. CASE q = p /\ t = "startup"
    BY <2>1, <2>4 DEF OneReload, Routing!Tasks
  <2> QED
    BY <2>2, <2>3, <2>4
<1>2. ASSUME NEW p \in Procs, NEW h \in Handlers, NEW pin \in Pins \cup {Routing!NoPin},
             Routing!Edit(p, h, pin)
      PROVE  Alone(q)'
  <2>1. OneReload(p, h) /\ sub' = sub /\ inbox' = inbox /\ Routing!Serving(p) /\ h \in Routing!Tasks
    BY <1>2, EditFacts DEF Routing!Edit, Routing!Tasks
  <2>2. CASE q # p
    BY <2>1, <2>2 DEF OneReload, Routing!Tasks
  <2>3. CASE q = p
    BY <2>1, <2>3 DEF OneReload
  <2> QED
    BY <2>2, <2>3
<1>3. ASSUME NEW p \in Procs, NEW h \in Handlers, Routing!Publish(p, h)
      PROVE  Alone(q)'
  <2>1. OneReload(p, h) /\ sub' = sub /\ h \in Routing!Tasks /\ load[p][h].pc # "idle"
    BY <1>3, PublishFacts DEF Routing!Publish, Routing!Tasks
  <2>2. inbox'[q] = inbox[q] \/ sub[q] = "on"
    BY <1>3 DEF Routing!Publish, Routing!Hears, Routing!TypeOK
  <2>3. CASE q # p
    BY <2>1, <2>2, <2>3 DEF OneReload, Routing!Tasks
  <2>4. CASE q = p
    BY <2>1, <2>2, <2>4 DEF OneReload
  <2> QED
    BY <2>3, <2>4
<1>4. ASSUME NEW p \in Procs, Routing!Receive(p)
      PROVE  Alone(q)'
  <2>1. OneReload(p, "listener") /\ sub' = sub /\ sub[p] = "on"
    BY <1>4, ReceiveFacts DEF Routing!Receive
  <2>2. q # p => inbox'[q] = inbox[q]
    BY <1>4 DEF Routing!Receive, Routing!TypeOK
  <2>3. CASE q # p
    BY <2>1, <2>2, <2>3 DEF OneReload, Routing!Tasks
  <2>4. CASE q = p
    BY <2>1, <2>4 DEF OneReload
  <2> QED
    BY <2>3, <2>4
<1>5. ASSUME NEW p \in Procs, Routing!Restart(p)
      PROVE  Alone(q)'
  <2>1. CASE q = p
    BY <1>5, <2>1, RestartFacts DEF Routing!Restart, Routing!TypeOK
  <2>2. CASE q # p
    BY <1>5, <2>2, RestartFacts DEF Routing!Restart, Routing!TypeOK
  <2> QED
    BY <2>1, <2>2
<1>6. ASSUME NEW p \in Procs, Routing!Subscribe(p)
      PROVE  Alone(q)'
  BY <1>6 DEF Routing!Subscribe, Routing!TypeOK
<1>7. CASE Routing!RedisDown \/ Routing!RedisUp
  BY <1>7 DEF Routing!RedisDown, Routing!RedisUp, Routing!TypeOK
<1> QED
  BY <1>1, <1>2, <1>3, <1>4, <1>5, <1>6, <1>7
     DEF Routing!Next, Routing!Admin, Routing!Failure, Routing!ProcStep

\* What ComesRight says of one process.
Right(p) == p \in untold \/ WillHear(p) \/ Settling(p)

\* A process whose reloads, copy and messages a step leaves alone.
LEMMA UntouchedStaysRight ==
    ASSUME NEW q \in Procs, Right(q), \A t \in Routing!Tasks: load'[q][t] = load[q][t],
           cache'[q] = cache[q], q \in untold => q \in untold', inbox[q] > 0 => inbox'[q] > 0 \/ q \in untold',
           Announcing # {} => Announcing' # {} \/ q \in untold' \/ inbox'[q] > 0,
           row' = row \/ Announcing' # {}
    PROVE  Right(q)'
<1>1. "startup" \in Routing!Tasks /\ "listener" \in Routing!Tasks
  BY DEF Routing!Tasks
<1>2. CASE Announcing' # {} \/ q \in untold' \/ inbox'[q] > 0
  BY <1>2 DEF Right, WillHear
<1>3. CASE row' = row /\ WillHear(q)
  BY <1>1, <1>3 DEF Right, WillHear
<1>4. CASE row' = row /\ Settling(q)
  <2>1. Settling(q)'
    BY <1>1, <1>4 DEF Settling, Routing!Tasks
  <2> QED
    BY <2>1 DEF Right
<1>5. CASE q \in untold
  BY <1>5 DEF Right
<1> QED
  BY <1>2, <1>3, <1>4, <1>5 DEF Right

\* Once the table is read anew, what p missed before no longer matters; a reload that ends
\* last and older than the table marks it as untold, or somebody follows it up.
LEMMA ReloadKeepsRight ==
    ASSUME Routing!RoutingAssumption, Routing!TypeOK, TasksAreReal, StartsAlone, NEW p \in Procs,
           NEW t \in Routing!Tasks, Right(p),
           Routing!Fetch(p, t) \/ Routing!Assign(p, t) \/ Routing!FetchFails(p, t)
    PROVE  Right(p)'
<1>0. /\ OneReload(p, t) /\ row' = row /\ inbox' = inbox /\ Announcing' = Announcing
      /\ "startup" \in Routing!Tasks /\ "listener" \in Routing!Tasks
  BY ReloadSteps, RestIsSame DEF Routing!Tasks
<1>1. CASE Announcing # {} \/ inbox[p] > 0
  BY <1>0, <1>1 DEF Right, WillHear
<1>2. CASE Routing!FetchFails(p, t)
  BY <1>2 DEF Routing!FetchFails, Right
<1>3. CASE Routing!Fetch(p, t)
  <2>1. load'[p][t].pc = "assign" /\ load'[p][t].got = row
    BY <1>3, FetchFacts
  <2>2. load[p][t].pc = "fetch"
    BY <1>3 DEF Routing!Fetch
  <2>3. CASE Routing!Alone(p, t)
    <3>1. Settling(p)'
      BY <1>0, <2>1, <2>3 DEF Settling, OneReload, Routing!Alone, Routing!Tasks
    <3> QED
      BY <3>1 DEF Right
  <2>4. CASE ~Routing!Alone(p, t)
    <3>1. untold' = untold
      BY <1>3, <2>4 DEF Routing!Fetch
    <3>2. CASE p \in untold
      BY <3>1, <3>2 DEF Right
    <3>3. CASE t = "listener"
      <4>1. load[p]["startup"].pc = "idle"
        BY <1>0, <2>2, <3>3 DEF StartsAlone, Routing!Serving
      <4>2. Settling(p)'
        BY <1>0, <2>1, <3>3, <4>1 DEF Settling, OneReload, Routing!Tasks
      <4> QED
        BY <4>2 DEF Right
    <3>4. CASE load[p]["listener"].pc = "fetch" /\ t # "listener"
      BY <1>0, <3>4 DEF Right, WillHear, OneReload
    <3>5. CASE Settling(p)
      <4>1. Settling(p)'
        BY <1>0, <2>1, <3>5 DEF Settling, OneReload, Routing!Tasks
      <4> QED
        BY <4>1 DEF Right
    <3> QED
      BY <1>1, <3>2, <3>3, <3>4, <3>5 DEF Right, WillHear
  <2> QED
    BY <2>3, <2>4
<1>4. CASE Routing!Assign(p, t) /\ Announcing = {}
  <2>0. ~load[p][t].announce
    <3>1. ASSUME load[p][t].announce
          PROVE  FALSE
      <4>1. t \in Handlers
        BY <3>1 DEF TasksAreReal
      <4>2. <<p, t>> \in Announcing
        BY <3>1, <4>1 DEF Announcing
      <4> QED
        BY <1>4, <4>2
    <3> QED
      BY <3>1
  <2>1. load'[p][t].pc = "idle" /\ load[p][t].pc = "assign" /\ cache'[p] = load[p][t].got
    BY <1>4, <2>0, AfterAssignFacts DEF Routing!Assign, Followed, Routing!TypeOK
  <2>2. CASE Routing!Overwrites(p, t) \/ p \in untold
    BY <1>4, <2>2 DEF Routing!Assign, Right
  <2>3. CASE load[p]["listener"].pc = "fetch"
    BY <1>0, <2>1, <2>3 DEF Right, WillHear, OneReload
  <2>4. CASE Settling(p) /\ ~Routing!Overwrites(p, t)
    <3>1. load[p][t].got = row
      BY <2>0, <2>1, <2>4 DEF Settling, Routing!Overwrites, Routing!Tasks
    <3>2. Settling(p)'
      BY <1>0, <2>1, <2>4, <3>1 DEF Settling, OneReload, Routing!Tasks
    <3> QED
      BY <3>2 DEF Right
  <2> QED
    BY <1>1, <2>2, <2>3, <2>4 DEF Right, WillHear
<1> QED
  BY <1>1, <1>2, <1>3, <1>4

LEMMA ComesRightStep ==
    ASSUME Routing!RoutingAssumption, Routing!TypeOK, TasksAreReal, StartsAlone, ComesRight, Routing!Next
    PROVE  ComesRight'
<1> SUFFICES ASSUME NEW q \in Procs
             PROVE  Right(q)'
  BY DEF ComesRight, Right, WillHear, Settling, Routing!Tasks
<1>0. Right(q) /\ inbox \in [Procs -> Nat] /\ "listener" \in Routing!Tasks
  BY DEF ComesRight, Right, Routing!Tasks, Routing!TypeOK, Routing!RoutingAssumption
<1>1. ASSUME NEW p \in Procs, NEW t \in Routing!Tasks,
             Routing!Fetch(p, t) \/ Routing!Assign(p, t) \/ Routing!FetchFails(p, t)
      PROVE  Right(q)'
  <2>1. CASE q = p
    BY <1>0, <1>1, <2>1, ReloadKeepsRight
  <2>2. CASE q # p
    <3>1. OneReload(p, t) /\ Announcing' = Announcing /\ row' = row /\ inbox' = inbox
      BY <1>1, ReloadSteps, RestIsSame
    <3>2. cache'[q] = cache[q] /\ (q \in untold => q \in untold')
      BY <1>1, <2>2 DEF Routing!Fetch, Routing!Assign, Routing!FetchFails, Routing!TypeOK
    <3> QED
      BY <1>0, <2>2, <3>1, <3>2, UntouchedStaysRight DEF OneReload
  <2> QED
    BY <2>1, <2>2
<1>2. ASSUME NEW p \in Procs, NEW h \in Handlers, NEW pin \in Pins \cup {Routing!NoPin},
             Routing!Edit(p, h, pin)
      PROVE  Right(q)'
  <2>1. /\ OneReload(p, h) /\ h \in Routing!Tasks /\ load[p][h].pc = "idle" /\ load'[p][h].pc = "fetch"
        /\ inbox' = inbox /\ cache' = cache /\ untold' = untold /\ row' = pin
    BY <1>2, EditFacts DEF Routing!Edit, Routing!Tasks
  <2>2. CASE load'[p][h].announce
    <3>1. <<p, h>> \in Announcing'
      BY <2>2 DEF Announcing
    <3> QED
      BY <3>1 DEF Right, WillHear
  <2>3. CASE ~load'[p][h].announce
    <3>1. row' = row
      BY <1>2, <2>1, <2>3, EditFacts
    <3>2. Announcing # {} => Announcing' # {}
      <4>1. ASSUME NEW e \in Announcing
            PROVE  e \in Announcing'
        <5>1. e \in Procs \X Handlers /\ e[1] \in Procs /\ e[2] \in Handlers /\ e[2] \in Routing!Tasks
              /\ load[e[1]][e[2]].announce
          BY DEF Announcing, Routing!Tasks
        <5>2. load[e[1]][e[2]].pc # "idle"
          BY <5>1 DEF TasksAreReal
        <5>3. load'[e[1]][e[2]] = load[e[1]][e[2]]
          BY <2>1, <5>1, <5>2 DEF OneReload
        <5> QED
          BY <5>1, <5>3 DEF Announcing
      <4> QED
        BY <4>1
    <3>3. CASE q # p
      BY <1>0, <2>1, <3>1, <3>2, <3>3, UntouchedStaysRight DEF OneReload
    <3>4. CASE q = p /\ Settling(q)
      <4>1. "startup" \in Routing!Tasks /\ h \notin {"startup", "listener"}
        BY DEF Routing!Tasks, Routing!RoutingAssumption
      <4>2. \A u \in Routing!Tasks: load[q][u].pc # "idle" => load'[q][u] = load[q][u]
        BY <2>1, <3>4 DEF OneReload
      <4> QED
        BY <1>0, <2>1, <3>1, <3>4, <4>1, <4>2 DEF Settling, Right, OneReload
    <3>5. CASE q = p /\ (q \in untold \/ WillHear(q))
      <4>1. h # "listener"
        BY DEF Routing!RoutingAssumption
      <4> QED
        BY <1>0, <2>1, <3>2, <3>5, <4>1 DEF Right, WillHear, OneReload
    <3> QED
      BY <1>0, <3>3, <3>4, <3>5 DEF Right
  <2> QED
    BY <2>2, <2>3
<1>3. ASSUME NEW p \in Procs, NEW h \in Handlers, Routing!Publish(p, h)
      PROVE  Right(q)'
  <2>1. CASE Routing!Hears(q)
    <3>1. inbox'[q] = inbox[q] + 1
      BY <1>3, <2>1 DEF Routing!Publish
    <3> QED
      BY <1>0, <3>1 DEF Right, WillHear
  <2>2. CASE ~Routing!Hears(q)
    BY <1>3, <2>2 DEF Routing!Publish, Right
  <2> QED
    BY <2>1, <2>2
<1>4. ASSUME NEW p \in Procs, Routing!Receive(p)
      PROVE  Right(q)'
  <2>1. /\ OneReload(p, "listener") /\ load'[p]["listener"].pc = "fetch" /\ SameAnnouncers
        /\ row' = row /\ cache' = cache /\ untold' = untold /\ (q # p => inbox'[q] = inbox[q])
    BY <1>0, <1>4, ReceiveFacts DEF Routing!Receive, OneReload, SameAnnouncers
  <2>2. CASE q = p
    BY <2>1, <2>2 DEF Right, WillHear
  <2>3. CASE q # p
    BY <1>0, <2>1, <2>3, RestIsSame, UntouchedStaysRight DEF OneReload
  <2> QED
    BY <2>2, <2>3
<1>5. ASSUME NEW p \in Procs, Routing!Restart(p)
      PROVE  Right(q)'
  <2>1. CASE q = p \/ \E h \in Handlers: load[p][h].announce
    BY <1>5, <2>1 DEF Routing!Restart, Right
  <2>2. CASE q # p /\ ~\E h \in Handlers: load[p][h].announce
    <3>1. /\ \A t \in Routing!Tasks: load'[q][t] = load[q][t]
          /\ cache'[q] = cache[q] /\ inbox'[q] = inbox[q] /\ row' = row /\ (q \in untold => q \in untold')
      BY <1>0, <1>5, <2>2, RestartFacts DEF Routing!Restart, Routing!TypeOK
    <3>2. Announcing \subseteq Announcing'
      BY <1>5, <2>2, RestartFacts DEF Announcing
    <3> QED
      BY <1>0, <3>1, <3>2, UntouchedStaysRight
  <2> QED
    BY <2>1, <2>2
<1>6. ASSUME NEW p \in Procs, Routing!Subscribe(p)
      PROVE  Right(q)'
  BY <1>0, <1>6, UntouchedStaysRight DEF Routing!Subscribe, Announcing
<1>7. CASE Routing!RedisDown
  BY <1>0, <1>7, UntouchedStaysRight DEF Routing!RedisDown, Announcing
<1>8. CASE Routing!RedisUp
  BY <1>0, <1>8, UntouchedStaysRight DEF Routing!RedisUp, Announcing
<1> QED
  BY <1>1, <1>2, <1>3, <1>4, <1>5, <1>6, <1>7, <1>8
     DEF Routing!Next, Routing!Admin, Routing!Failure, Routing!ProcStep

LEMMA RoutingInit ==
    ASSUME Routing!RoutingAssumption, Routing!Init
    PROVE  RoutingInv
<1> USE DEF Routing!Init, Routing!Booting, Routing!Idle, Routing!RoutingAssumption
<1>1. Routing!TypeOK
  <2>1. load \in [Procs -> [Routing!Tasks -> Reload]]
    BY DEF Reload
  <2>2. redis \in BOOLEAN
    OBVIOUS
  <2>3. /\ row \in Pins \cup {Routing!NoPin} /\ cache \in [Procs -> Pins \cup {Routing!NoPin}]
        /\ sub \in [Procs -> {"off", "on", "dead"}] /\ inbox \in [Procs -> 0..MaxEdits]
        /\ edits \in 0..MaxEdits /\ untold \subseteq Procs
    OBVIOUS
  <2> QED
    BY <2>1, <2>2, <2>3 DEF Routing!TypeOK, Reload
<1>2. Announcing = {}
  BY DEF Announcing, Routing!Tasks
<1>3. InboxesAreBounded
  <2>1. Cardinality(Announcing) = 0
    BY <1>2, FS_EmptySet
  <2>2. edits = 0 /\ \A p \in Procs: inbox[p] = 0
    OBVIOUS
  <2>3. ASSUME NEW p \in Procs
        PROVE  inbox[p] + Cardinality(Announcing) <= edits
    BY ONLY <2>1, <2>2
  <2> QED
    BY ONLY <2>3 DEF InboxesAreBounded
<1>4. TasksAreReal
  BY DEF TasksAreReal
<1>5. StartsAlone
  BY DEF StartsAlone
<1>6. ComesRight
  BY DEF ComesRight, Settling, Routing!Tasks
<1> QED
  BY <1>1, <1>3, <1>4, <1>5, <1>6 DEF RoutingInv

LEMMA RoutingInductive ==
    ASSUME Routing!RoutingAssumption
    PROVE  Routing!Spec => []RoutingInv
<1>1. RoutingInv /\ [Routing!Next]_Routing!vars => RoutingInv'
  <2>1. ASSUME RoutingInv, Routing!Next
        PROVE  RoutingInv'
    BY <2>1, RoutingTypeStep, BoundStep, TasksStep, StartsStep, ComesRightStep DEF RoutingInv
  <2>2. ASSUME RoutingInv, UNCHANGED Routing!vars
        PROVE  RoutingInv'
    BY <2>2 DEF RoutingInv, Routing!vars, Routing!TypeOK, InboxesAreBounded, Announcing, TasksAreReal,
       StartsAlone, Routing!Serving, ComesRight, WillHear, Settling
  <2> QED
    BY <2>1, <2>2
<1>2. Routing!Init => RoutingInv
  BY RoutingInit
<1> QED
  BY <1>1, <1>2, PTL DEF Routing!Spec

\* llm_registry.py: the variables of the routing model keep their types, a message in a
\* subscriber's inbox standing for an edit that was made.
THEOREM RoutingTypeCorrect ==
    ASSUME Routing!RoutingAssumption
    PROVE  Routing!Spec => []Routing!TypeOK
BY RoutingInductive, PTL DEF RoutingInv

\* llm_registry.py and llm_routing_pubsub.py: however the reloads of startup, subscriber and
\* admin requests overlap, whatever fails or restarts, a process that was told of every edit
\* routes by the table once nothing is on its way.
THEOREM RoutingAgrees ==
    ASSUME Routing!RoutingAssumption
    PROVE  Routing!Spec => []QuietMeansAgreed
<1>1. RoutingInv => QuietMeansAgreed
  <2> SUFFICES ASSUME RoutingInv, NEW p \in Procs, Routing!Quiet(p), p \notin untold
               PROVE  cache[p] = row
    BY DEF QuietMeansAgreed, Routing!QuietMeansAgreed
  <2>1. Announcing = {}
    BY DEF Announcing, Routing!Quiet
  <2>2. inbox[p] = 0 /\ \A t \in Routing!Tasks: load[p][t].pc = "idle"
    BY DEF Routing!Quiet
  <2> QED
    BY <2>1, <2>2 DEF RoutingInv, ComesRight, WillHear, Settling, Routing!Tasks
<1> QED
  BY <1>1, RoutingInductive, PTL

-----------------------------------------------------------------------------
(* LlmCall.                                                                *)

\* The sum of InWindow exists, and follows its recursion.
LEMMA InWindowIs ==
    ASSUME Span \in Nat, NEW b \in [Dispatching!Ages -> Nat]
    PROVE  /\ Dispatching!InWindow(b, 0) = b[0]
           /\ \A w \in Dispatching!Ages \ {0}:
                Dispatching!InWindow(b, w) = b[w] + Dispatching!InWindow(b, w - 1)
           /\ \A w \in Dispatching!Ages: Dispatching!InWindow(b, w) \in Nat
<1> DEFINE Ages == 0..Span
<1>0. Dispatching!Ages = Ages
  BY DEF Dispatching!Ages
<1> DEFINE Sums(g, n) == g \in [0..n -> Nat] /\ \A a \in 0..n: g[a] = b[a] + (IF a = 0 THEN 0 ELSE g[a - 1])
<1> DEFINE Missing == {n \in Ages: ~ \E g: Sums(g, n)}
<1>1. Missing = {}
  <2> SUFFICES ASSUME Missing # {}
               PROVE  FALSE
    OBVIOUS
  <2>0. Missing \subseteq Nat
    OBVIOUS
  <2>1. PICK n \in Missing: \A m \in Missing: n <= m
    <3> HIDE DEF Missing
    <3> QED
      BY <2>0, LeastElement
  <2> HIDE DEF Sums
  <2>2. n \in Ages /\ n \in Nat /\ ~ \E g: Sums(g, n)
    BY <2>1
  <2>3. b \in [Ages -> Nat]
    BY <1>0
  <2>4. CASE n = 0
    <3> USE DEF Sums
    <3>1. b[0] \in Nat
      BY <2>2, <2>3, <2>4
    <3>2. [a \in 0..0 |-> b[0]] \in [0..0 -> Nat]
      BY <3>1
    <3>3. \A a \in 0..0: a = 0
      OBVIOUS
    <3>4. Sums([a \in 0..0 |-> b[0]], 0)
      BY <3>1, <3>2, <3>3
    <3> QED
      BY <2>2, <2>4, <3>4
  <2>5. CASE n # 0
    <3>1. n - 1 \in Ages /\ n - 1 \notin Missing
      <4> HIDE DEF Missing
      <4> QED
        BY <2>1, <2>2, <2>5
    <3>2. PICK g: Sums(g, n - 1)
      BY <3>1
    <3> USE DEF Sums
    <3> DEFINE h == [a \in 0..n |-> IF a = n THEN b[n] + g[n - 1] ELSE g[a]]
    <3>3. n - 1 \in 0..(n - 1) /\ \A a \in 0..n: a # n => a \in 0..(n - 1)
      BY <2>2, <2>5
    <3>4. b[n] \in Nat /\ g[n - 1] \in Nat
      BY <2>2, <2>3, <3>2, <3>3
    <3>5. h \in [0..n -> Nat]
      BY <3>2, <3>3, <3>4
    <3>6. ASSUME NEW a \in 0..n
          PROVE  h[a] = b[a] + (IF a = 0 THEN 0 ELSE h[a - 1])
      <4>1. CASE a = n
        <5>1. h[a] = b[n] + g[n - 1] /\ n - 1 \in 0..n /\ n - 1 # n
          BY <2>2, <2>5, <4>1
        <5>2. h[n - 1] = g[n - 1]
          BY <5>1
        <5> QED
          BY <2>5, <4>1, <5>1, <5>2
      <4>2. CASE a # n
        <5>1. a \in 0..(n - 1) /\ h[a] = g[a]
          BY <3>3, <4>2
        <5>2. a # 0 => a - 1 \in 0..n /\ a - 1 # n
          BY <2>2, <5>1
        <5>3. a # 0 => h[a - 1] = g[a - 1]
          BY <5>2
        <5>4. g[a] = b[a] + (IF a = 0 THEN 0 ELSE g[a - 1])
          BY <3>2, <5>1
        <5> QED
          BY <5>1, <5>3, <5>4
      <4> QED
        BY <4>1, <4>2
    <3>7. Sums(h, n)
      BY <3>5, <3>6
    <3> QED
      BY <2>2, <3>7
  <2> QED
    BY <2>4, <2>5
<1>2. Span \in Ages
  OBVIOUS
<1>3. PICK g: Sums(g, Span)
  BY <1>1, <1>2
<1> DEFINE f == CHOOSE upTo: upTo = [a \in Dispatching!Ages |-> b[a] + (IF a = 0 THEN 0 ELSE upTo[a - 1])]
<1>4. g = [a \in Dispatching!Ages |-> b[a] + (IF a = 0 THEN 0 ELSE g[a - 1])]
  BY <1>0, <1>3
<1>5. f = [a \in Dispatching!Ages |-> b[a] + (IF a = 0 THEN 0 ELSE f[a - 1])]
  BY <1>4
<1>6. \A w: Dispatching!InWindow(b, w) = f[w]
  BY DEF Dispatching!InWindow
<1> HIDE DEF f
<1>7. \A w \in Ages: f[w] = b[w] + (IF w = 0 THEN 0 ELSE f[w - 1])
  BY <1>0, <1>5
<1>8. \A w \in Ages: f[w] \in Nat
  <2> DEFINE Odd == {w \in Ages: f[w] \notin Nat}
  <2> SUFFICES ASSUME Odd # {}
               PROVE  FALSE
    OBVIOUS
  <2>0. Odd \subseteq Nat
    OBVIOUS
  <2>1. PICK w \in Odd: \A v \in Odd: w <= v
    <3> HIDE DEF Odd
    <3> QED
      BY <2>0, LeastElement
  <2>2. w \in Ages /\ f[w] \notin Nat /\ b[w] \in Nat
    BY <1>0, <2>1
  <2>3. CASE w = 0
    BY <1>7, <2>2, <2>3
  <2>4. CASE w # 0
    <3>1. w - 1 \in Ages /\ w - 1 \notin Odd
      BY <2>1, <2>2, <2>4
    <3>2. f[w - 1] \in Nat
      BY <3>1
    <3> QED
      BY <1>7, <2>2, <2>4, <3>2
  <2> QED
    BY <2>3, <2>4
<1>9. 0 \in Ages /\ b[0] \in Nat
  BY <1>0
<1>10. f[0] = b[0]
  BY <1>7, <1>9
<1>11. \A w \in Dispatching!Ages \ {0}: f[w] = b[w] + f[w - 1]
  BY <1>0, <1>7
<1> QED
  BY <1>0, <1>6, <1>8, <1>10, <1>11

\* One more of age zero is one more in every window.
LEMMA OneMore ==
    ASSUME Span \in Nat, NEW b \in [Dispatching!Ages -> Nat], NEW c \in [Dispatching!Ages -> Nat],
           c[0] = b[0] + 1, \A a \in Dispatching!Ages \ {0}: c[a] = b[a],
           NEW w \in Dispatching!Ages
    PROVE  Dispatching!InWindow(c, w) = Dispatching!InWindow(b, w) + 1
<1> DEFINE Off == {a \in Dispatching!Ages: Dispatching!InWindow(c, a) # Dispatching!InWindow(b, a) + 1}
<1> SUFFICES ASSUME Off # {}
             PROVE  FALSE
  OBVIOUS
<1>0. Dispatching!Ages = 0..Span
  BY DEF Dispatching!Ages
<1>1. PICK a \in Off: \A d \in Off: a <= d
  <2>1. Off \subseteq Nat
    BY <1>0
  <2> HIDE DEF Off
  <2> QED
    BY <2>1, LeastElement
<1>2. CASE a = 0
  BY <1>1, <1>2, InWindowIs
<1>3. CASE a # 0
  <2>1. a - 1 \in Dispatching!Ages /\ a - 1 \notin Off /\ a \in Dispatching!Ages \ {0}
    BY <1>0, <1>1, <1>3
  <2>2. Dispatching!InWindow(c, a - 1) = Dispatching!InWindow(b, a - 1) + 1
    BY <2>1
  <2>3. /\ Dispatching!InWindow(b, a) = b[a] + Dispatching!InWindow(b, a - 1)
        /\ Dispatching!InWindow(c, a) = c[a] + Dispatching!InWindow(c, a - 1)
        /\ Dispatching!InWindow(b, a - 1) \in Nat /\ b[a] \in Nat
    BY <2>1, InWindowIs
  <2>4. c[a] = b[a]
    BY <2>1
  <2> QED
    BY <1>1, <2>2, <2>3, <2>4
<1> QED
  BY <1>2, <1>3

\* A tick moves every window by one age.
LEMMA OlderIs ==
    ASSUME Span \in Nat, NEW b \in [Dispatching!Ages -> Nat]
    PROVE  /\ Dispatching!Older(b) \in [Dispatching!Ages -> Nat]
           /\ Dispatching!InWindow(Dispatching!Older(b), 0) = 0
           /\ \A w \in Dispatching!Ages \ {0}:
                Dispatching!InWindow(Dispatching!Older(b), w) = Dispatching!InWindow(b, w - 1)
<1>0. Dispatching!Ages = 0..Span
  BY DEF Dispatching!Ages
<1>1. PICK c: c = Dispatching!Older(b)
  OBVIOUS
<1>2. c = [a \in Dispatching!Ages |-> IF a = 0 THEN 0 ELSE b[a - 1]]
  BY <1>1 DEF Dispatching!Older
<1>3. \A a \in Dispatching!Ages \ {0}: a - 1 \in Dispatching!Ages
  BY <1>0
<1>4. c \in [Dispatching!Ages -> Nat]
  BY <1>2, <1>3
<1>5. c[0] = 0 /\ \A a \in Dispatching!Ages \ {0}: c[a] = b[a - 1]
  BY <1>0, <1>2
<1>6. Dispatching!InWindow(c, 0) = 0
  BY <1>4, <1>5, InWindowIs
<1> DEFINE Off == {a \in Dispatching!Ages \ {0}: Dispatching!InWindow(c, a) # Dispatching!InWindow(b, a - 1)}
<1>7. Off = {}
  <2> SUFFICES ASSUME Off # {}
               PROVE  FALSE
    OBVIOUS
  <2>0. Off \subseteq Nat
    BY <1>0
  <2>1. PICK a \in Off: \A d \in Off: a <= d
    <3> HIDE DEF Off
    <3> QED
      BY <2>0, LeastElement
  <2>2. /\ a \in Dispatching!Ages \ {0} /\ a - 1 \in Dispatching!Ages /\ b[a - 1] \in Nat
        /\ Dispatching!InWindow(c, a) = b[a - 1] + Dispatching!InWindow(c, a - 1)
    BY <1>3, <1>4, <1>5, <2>1, InWindowIs
  <2>3. CASE a = 1
    <3>1. a - 1 = 0
      BY <2>3
    <3>2. Dispatching!InWindow(b, 0) = b[0] /\ b[0] \in Nat
      BY <2>2, <3>1, InWindowIs
    <3> QED
      BY <1>6, <2>1, <2>2, <3>1, <3>2
  <2>4. CASE a # 1
    <3>1. a - 1 \in Dispatching!Ages \ {0} /\ a - 1 \notin Off
      BY <1>0, <2>1, <2>2, <2>4
    <3>2. Dispatching!InWindow(c, a - 1) = Dispatching!InWindow(b, a - 1 - 1)
      BY <3>1
    <3>3. Dispatching!InWindow(b, a - 1) = b[a - 1] + Dispatching!InWindow(b, a - 1 - 1)
      BY <3>1, InWindowIs
    <3> QED
      BY <2>1, <2>2, <3>2, <3>3
  <2> QED
    BY <2>3, <2>4
<1> QED
  BY <1>1, <1>4, <1>6, <1>7

CallRec == [pc: Dispatching!States, at: Dispatching!Providers, attempt: Nat, left: Nat, sleep: Nat]
LlmTypes ==
    /\ call \in [Calls -> CallRec]
    /\ queue \in [Dispatching!Providers -> Seq(Calls)]
    /\ units \in [Limited -> 0..Capacity]
    /\ sent \in [Calls -> [Dispatching!Providers -> Nat]]
    /\ rows \in [Calls -> Nat] /\ denied \in [Calls -> Nat] /\ waited \in [Calls -> Nat]
    /\ taken \in [Limited -> [Dispatching!Ages -> Nat]]

\* A call waits in one queue, once, and does nothing else.
QueuesAreSound ==
    \A p \in Dispatching!Providers:
        /\ \A i \in DOMAIN queue[p]: LET c == queue[p][i] IN call[c].pc = "queued" /\ call[c].at = p
        /\ \A i, j \in DOMAIN queue[p]: queue[p][i] = queue[p][j] => i = j

\* What a call has slept and what is left of its wait are the wait it was given.
WaitIsKept(c) ==
    /\ call[c].pc \in {"token", "nap"} => waited[c] + call[c].left <= MaxWait
    /\ call[c].pc = "nap" => call[c].sleep <= call[c].left /\ call[c].at \in Limited
    /\ call[c].pc \notin {"token", "nap"} \/ call[c].at \notin Limited => waited[c] = 0
WaitsAreKept == \A c \in Calls: WaitIsKept(c)

\* What was taken, and what is in the bucket, is what it held and was refilled with.
BucketsAddUp ==
    \A p \in Limited, w \in Dispatching!Ages:
        Token * Dispatching!InWindow(taken[p], w) + units[p] <= Capacity + w

Unbooked(c) == IF call[c].pc \in {"busy", "left"} THEN 1 ELSE 0
Booked(c) == rows[c] = sent[c]["primary"] + sent[c]["fallback"] + denied[c] - Unbooked(c)

LlmInv == LlmTypes /\ QueuesAreSound /\ WaitsAreKept /\ BucketsAddUp /\ \A c \in Calls: Booked(c)

\* A step that changes one call only.
OneCall(c) == call' \in [Calls -> CallRec] /\ \A d \in Calls \ {c}: call'[d] = call[d]

LEMMA LlmConstants ==
    ASSUME Dispatching!LlmCallAssumption
    PROVE  /\ Token \in Nat \ {0} /\ Capacity \in Nat /\ MaxWait \in Nat /\ Timeout \in Nat \ {0}
           /\ RetryAfter \in Nat \ {0} /\ MaxRetries \in Nat /\ Span \in Nat
           /\ Limited \subseteq Dispatching!Providers
           /\ Dispatching!Providers = {"primary", "fallback"}
  BY DEF Dispatching!LlmCallAssumption, Dispatching!Providers

LEMMA StateNames == {"token", "busy"} \subseteq Dispatching!States
  BY DEF Dispatching!States

LEMMA NewIs ==
    /\ Dispatching!New \in CallRec /\ Dispatching!New.pc = "new" /\ Dispatching!New.left = 0
  BY DEF Dispatching!New, CallRec, Dispatching!States, Dispatching!Providers

LEMMA AfterFailureIs ==
    ASSUME Dispatching!LlmCallAssumption, LlmTypes, NEW c \in Calls, NEW is429 \in BOOLEAN
    PROVE  /\ Dispatching!AfterFailure(c, is429) \in CallRec
           /\ Dispatching!AfterFailure(c, is429).pc \in {"failed", "backoff", "check"}
<1>1. call[c].attempt + 1 \in Nat /\ RetryAfter \in Nat
  BY LlmConstants DEF LlmTypes, CallRec
<1>2. /\ "failed" \in Dispatching!States /\ "backoff" \in Dispatching!States
      /\ "check" \in Dispatching!States /\ "fallback" \in Dispatching!Providers
  BY DEF Dispatching!States, Dispatching!Ended, Dispatching!Asleep, Dispatching!Providers
<1>3. [Dispatching!New EXCEPT !.pc = "failed"] \in CallRec
      /\ [Dispatching!New EXCEPT !.pc = "failed"].pc = "failed"
  BY <1>2, NewIs DEF CallRec
<1>4. /\ [Dispatching!New EXCEPT !.pc = "backoff", !.attempt = call[c].attempt + 1, !.sleep = RetryAfter] \in CallRec
      /\ [Dispatching!New EXCEPT !.pc = "backoff", !.attempt = call[c].attempt + 1, !.sleep = RetryAfter].pc = "backoff"
  BY <1>1, <1>2, NewIs DEF CallRec
<1>5. /\ [Dispatching!New EXCEPT !.pc = "check", !.at = "fallback"] \in CallRec
      /\ [Dispatching!New EXCEPT !.pc = "check", !.at = "fallback"].pc = "check"
  BY <1>2, NewIs DEF CallRec
<1> QED
  BY <1>3, <1>4, <1>5 DEF Dispatching!AfterFailure

\* What a step of one call keeps of the others.
LEMMA OthersKeep ==
    ASSUME LlmInv, NEW c \in Calls, OneCall(c), NEW d \in Calls \ {c},
           waited'[d] = waited[d], rows'[d] = rows[d], sent'[d] = sent[d], denied'[d] = denied[d]
    PROVE  WaitIsKept(d)' /\ Booked(d)'
  BY DEF LlmInv, OneCall, WaitIsKept, WaitsAreKept, Booked, Unbooked

\* Outside the queues nothing of them changes.
LEMMA QueuesKeep ==
    ASSUME LlmInv, NEW c \in Calls, OneCall(c), call[c].pc # "queued", UNCHANGED queue
    PROVE  QueuesAreSound'
<1> SUFFICES ASSUME NEW p \in Dispatching!Providers, NEW i \in DOMAIN queue[p]
             PROVE  call'[queue[p][i]] = call[queue[p][i]]
  BY DEF LlmInv, QueuesAreSound
<1>1. queue[p][i] \in Calls /\ call[queue[p][i]].pc = "queued"
  BY DEF LlmInv, LlmTypes, QueuesAreSound
<1> QED
  BY <1>1 DEF OneCall

\* A step that sends nothing, books nothing and takes no token.
LEMMA PlainStep ==
    ASSUME LlmInv, NEW c \in Calls, OneCall(c), call[c].pc # "queued",
           call'[c].pc \in {"busy", "left"} <=> call[c].pc \in {"busy", "left"},
           UNCHANGED <<queue, units, sent, rows, denied, waited, taken>>, WaitIsKept(c)'
    PROVE  LlmInv'
<1>1. LlmTypes' /\ BucketsAddUp'
  BY DEF LlmInv, LlmTypes, BucketsAddUp, OneCall
<1>2. QueuesAreSound'
  BY QueuesKeep
<1>3. Booked(c)'
  BY DEF LlmInv, Booked, Unbooked
<1>4. \A d \in Calls: WaitIsKept(d)' /\ Booked(d)'
  BY <1>3, OthersKeep
<1> QED
  BY <1>1, <1>2, <1>4 DEF LlmInv, WaitsAreKept

\* A step that joins the queue of its provider.
LEMMA EnqueueStep ==
    ASSUME LlmInv, NEW c \in Calls, Dispatching!Enqueue(c),
           call[c].pc \in {"new", "token"}, waited'[c] = 0,
           \A d \in Calls \ {c}: waited'[d] = waited[d],
           waited' \in [Calls -> Nat], units' \in [Limited -> 0..Capacity],
           taken' \in [Limited -> [Dispatching!Ages -> Nat]], BucketsAddUp',
           UNCHANGED <<sent, rows, denied>>
    PROVE  LlmInv'
<1>0. LlmTypes
  BY DEF LlmInv
<1>1. PICK p \in Dispatching!Providers: p = call[c].at
  BY <1>0 DEF LlmTypes, CallRec
<1>2. /\ call' = [call EXCEPT ![c].pc = "queued", ![c].left = 0, ![c].sleep = 0]
      /\ queue' = [queue EXCEPT ![p] = Append(queue[p], c)]
  BY <1>1 DEF Dispatching!Enqueue
<1>3. "queued" \in Dispatching!States
  BY DEF Dispatching!States
<1> DEFINE e == [call[c] EXCEPT !.pc = "queued", !.left = 0, !.sleep = 0]
<1>a. e \in CallRec /\ e.pc = "queued" /\ e.at = p
  BY <1>0, <1>1, <1>3 DEF LlmTypes, CallRec
<1>b. call' = [call EXCEPT ![c] = e]
  BY <1>0, <1>2 DEF LlmTypes
<1> HIDE DEF e
<1>4. /\ OneCall(c) /\ call'[c].pc = "queued" /\ call'[c].at = p
  BY <1>0, <1>a, <1>b DEF LlmTypes, OneCall
<1>5. /\ queue[p] \in Seq(Calls) /\ queue'[p] = Append(queue[p], c)
      /\ queue' \in [Dispatching!Providers -> Seq(Calls)]
      /\ \A q \in Dispatching!Providers \ {p}: queue'[q] = queue[q]
  BY <1>0, <1>2 DEF LlmTypes
<1>6. LlmTypes'
  BY <1>0, <1>4, <1>5 DEF LlmTypes, OneCall
<1>7. \A q \in Dispatching!Providers: \A i \in DOMAIN queue[q]:
        queue[q][i] \in Calls \ {c} /\ call'[queue[q][i]] = call[queue[q][i]]
  <2> SUFFICES ASSUME NEW q \in Dispatching!Providers, NEW i \in DOMAIN queue[q]
               PROVE  queue[q][i] \in Calls \ {c} /\ call'[queue[q][i]] = call[queue[q][i]]
    OBVIOUS
  <2>1. queue[q][i] \in Calls /\ call[queue[q][i]].pc = "queued"
    BY <1>0 DEF LlmInv, LlmTypes, QueuesAreSound
  <2> QED
    BY <1>4, <2>1 DEF OneCall
<1>8. ASSUME NEW q \in Dispatching!Providers, q # p
      PROVE  /\ \A i \in DOMAIN queue'[q]: call'[queue'[q][i]].pc = "queued" /\ call'[queue'[q][i]].at = q
             /\ \A i, j \in DOMAIN queue'[q]: queue'[q][i] = queue'[q][j] => i = j
  <2>1. queue'[q] = queue[q]
    BY <1>5, <1>8
  <2>2. \A i \in DOMAIN queue[q]: call[queue[q][i]].pc = "queued" /\ call[queue[q][i]].at = q
    BY DEF LlmInv, QueuesAreSound
  <2>3. \A i, j \in DOMAIN queue[q]: queue[q][i] = queue[q][j] => i = j
    BY DEF LlmInv, QueuesAreSound
  <2> QED
    BY <1>7, <2>1, <2>2, <2>3
<1>9. /\ \A i \in DOMAIN queue'[p]: call'[queue'[p][i]].pc = "queued" /\ call'[queue'[p][i]].at = p
      /\ \A i, j \in DOMAIN queue'[p]: queue'[p][i] = queue'[p][j] => i = j
  <2>1. /\ DOMAIN queue'[p] = 1..(Len(queue[p]) + 1) /\ DOMAIN queue[p] = 1..Len(queue[p])
        /\ queue'[p][Len(queue[p]) + 1] = c /\ Len(queue[p]) \in Nat
        /\ \A i \in DOMAIN queue[p]: queue'[p][i] = queue[p][i]
    BY <1>5
  <2>2. \A i \in DOMAIN queue'[p]: i \in DOMAIN queue[p] \/ i = Len(queue[p]) + 1
    BY <2>1
  <2>3. \A i \in DOMAIN queue[p]: queue[p][i] # c /\ call'[queue[p][i]] = call[queue[p][i]]
    BY <1>7
  <2>4. \A i \in DOMAIN queue[p]: call[queue[p][i]].pc = "queued" /\ call[queue[p][i]].at = p
    BY DEF LlmInv, QueuesAreSound
  <2>5. \A i, j \in DOMAIN queue[p]: queue[p][i] = queue[p][j] => i = j
    BY DEF LlmInv, QueuesAreSound
  <2>6. \A i \in DOMAIN queue'[p]: call'[queue'[p][i]].pc = "queued" /\ call'[queue'[p][i]].at = p
    BY <1>4, <2>1, <2>2, <2>3, <2>4
  <2>7. \A i, j \in DOMAIN queue'[p]: queue'[p][i] = queue'[p][j] => i = j
    BY <2>1, <2>2, <2>3, <2>5
  <2> QED
    BY <2>6, <2>7
<1>10. QueuesAreSound'
  BY <1>8, <1>9 DEF QueuesAreSound
<1>11. WaitIsKept(c)'
  BY <1>4 DEF WaitIsKept
<1>12. Booked(c)'
  BY <1>4 DEF LlmInv, Booked, Unbooked
<1>13. \A d \in Calls: WaitIsKept(d)' /\ Booked(d)'
  BY <1>4, <1>11, <1>12, OthersKeep
<1> QED
  BY <1>6, <1>10, <1>13 DEF LlmInv, WaitsAreKept

\* A step that books one row: of a call that was under way, or that the bucket turned away.
LEMMA BookStep ==
    ASSUME LlmInv, NEW c \in Calls, OneCall(c), call'[c].pc \notin {"queued", "busy", "left", "token", "nap"},
           call[c].pc \in {"busy", "token"}, rows' = [rows EXCEPT ![c] = @ + 1],
           denied' = [denied EXCEPT ![c] = @ + (IF call[c].pc = "token" THEN 1 ELSE 0)],
           waited' = [waited EXCEPT ![c] = 0],
           UNCHANGED <<queue, units, sent, taken>>
    PROVE  LlmInv'
<1>0. LlmTypes /\ Booked(c)
  BY DEF LlmInv
<1>1. LlmTypes' /\ BucketsAddUp'
  BY <1>0 DEF LlmInv, LlmTypes, BucketsAddUp, OneCall
<1>2. QueuesAreSound'
  BY QueuesKeep
<1>3. WaitIsKept(c)'
  BY <1>0 DEF WaitIsKept, LlmTypes
<1>4. Booked(c)'
  <2>1. /\ rows'[c] = rows[c] + 1 /\ sent' = sent
        /\ denied'[c] = denied[c] + (IF call[c].pc = "token" THEN 1 ELSE 0)
        /\ rows[c] \in Nat /\ denied[c] \in Nat
        /\ sent[c]["primary"] \in Nat /\ sent[c]["fallback"] \in Nat
    BY <1>0 DEF LlmTypes, Dispatching!Providers
  <2>2. Unbooked(c)' = 0
    BY DEF Unbooked
  <2>3. Unbooked(c) = IF call[c].pc = "token" THEN 0 ELSE 1
    BY DEF Unbooked
  <2> QED
    BY <1>0, <2>1, <2>2, <2>3 DEF Booked
<1>5. \A d \in Calls \ {c}: waited'[d] = waited[d] /\ rows'[d] = rows[d] /\ denied'[d] = denied[d]
  BY <1>0 DEF LlmTypes
<1>6. \A d \in Calls: WaitIsKept(d)' /\ Booked(d)'
  BY <1>3, <1>4, <1>5, OthersKeep
<1> QED
  BY <1>1, <1>2, <1>6 DEF LlmInv, WaitsAreKept

LEMMA StartStep ==
    ASSUME LlmInv, NEW c \in Calls, Dispatching!Start(c)
    PROVE  LlmInv'
<1>0. LlmTypes /\ WaitIsKept(c)
  BY DEF LlmInv, WaitsAreKept
<1>1. call[c].pc = "new" /\ UNCHANGED <<units, sent, rows, denied, waited, taken>>
  BY DEF Dispatching!Start, Dispatching!At, Dispatching!history
<1>2. waited[c] = 0
  BY <1>0, <1>1 DEF WaitIsKept
<1>3. CASE Dispatching!Enqueue(c)
  <2>1. BucketsAddUp'
    BY <1>1 DEF LlmInv, BucketsAddUp
  <2> QED
    BY <1>0, <1>1, <1>2, <1>3, <2>1, EnqueueStep DEF LlmTypes
<1>4. CASE call' = [call EXCEPT ![c].pc = "check"] /\ UNCHANGED queue
  <2>1. OneCall(c) /\ call'[c].pc = "check"
    BY <1>0, <1>4 DEF LlmTypes, OneCall, CallRec, Dispatching!States
  <2>2. WaitIsKept(c)'
    BY <1>1, <1>2, <2>1 DEF WaitIsKept
  <2> QED
    BY <1>1, <1>4, <2>1, <2>2, PlainStep
<1> QED
  BY <1>3, <1>4 DEF Dispatching!Start

LEMMA BreakerCheckStep ==
    ASSUME Dispatching!LlmCallAssumption, LlmInv, NEW c \in Calls, Dispatching!Check(c)
    PROVE  LlmInv'
<1>0. LlmTypes /\ WaitIsKept(c)
  BY DEF LlmInv, WaitsAreKept
<1>1. call[c].pc = "check" /\ UNCHANGED <<queue, units, sent, rows, denied, waited, taken>>
  BY DEF Dispatching!Check, Dispatching!At, Dispatching!history
<1>2. waited[c] = 0
  BY <1>0, <1>1 DEF WaitIsKept
<1>3. CASE call' = [call EXCEPT ![c].pc = "token", ![c].left = MaxWait]
  <2> DEFINE e == [call[c] EXCEPT !.pc = "token", !.left = MaxWait]
  <2>1. e \in CallRec /\ e.pc = "token" /\ e.left = MaxWait /\ MaxWait \in Nat
    <3>1. call[c] \in CallRec /\ MaxWait \in Nat /\ "token" \in Dispatching!States
      BY <1>0, LlmConstants, StateNames DEF LlmTypes
    <3> QED
      BY <3>1 DEF CallRec
  <2>2. call' = [call EXCEPT ![c] = e]
    BY <1>0, <1>3 DEF LlmTypes
  <2> HIDE DEF e
  <2>3. OneCall(c) /\ call'[c] = e
    BY <1>0, <2>1, <2>2 DEF LlmTypes, OneCall
  <2>4. WaitIsKept(c)'
    BY <1>1, <1>2, <2>1, <2>3 DEF WaitIsKept
  <2> QED
    BY <1>1, <2>1, <2>3, <2>4, PlainStep
<1>4. CASE call' = [call EXCEPT ![c] = Dispatching!AfterFailure(c, FALSE)]
  <2>1. OneCall(c) /\ call'[c].pc \in {"failed", "backoff", "check"}
    BY <1>0, <1>4, AfterFailureIs DEF LlmTypes, OneCall
  <2>2. WaitIsKept(c)'
    BY <1>1, <1>2, <2>1 DEF WaitIsKept
  <2> QED
    BY <1>1, <2>1, <2>2, PlainStep
<1> QED
  BY <1>3, <1>4 DEF Dispatching!Check

LEMMA UnlimitedStep ==
    ASSUME LlmInv, NEW c \in Calls, Dispatching!Unlimited(c)
    PROVE  LlmInv'
<1>0. LlmTypes /\ WaitIsKept(c)
  BY DEF LlmInv, WaitsAreKept
<1>1. /\ call[c].pc = "token" /\ call[c].at \notin Limited /\ Dispatching!Enqueue(c)
      /\ UNCHANGED <<units, sent, rows, denied, waited, taken>>
  BY DEF Dispatching!Unlimited, Dispatching!At, Dispatching!history
<1>2. waited[c] = 0
  BY <1>0, <1>1 DEF WaitIsKept
<1>3. BucketsAddUp'
  BY <1>1 DEF LlmInv, BucketsAddUp
<1> QED
  BY <1>0, <1>1, <1>2, <1>3, EnqueueStep DEF LlmTypes

LEMMA TakeStep ==
    ASSUME Dispatching!LlmCallAssumption, LlmInv, NEW c \in Calls, Dispatching!Take(c)
    PROVE  LlmInv'
<1>0. LlmTypes
  BY DEF LlmInv
<1>1. /\ call[c].pc = "token" /\ call[c].at \in Limited /\ units[call[c].at] >= Token
      /\ units' = [units EXCEPT ![call[c].at] = @ - Token]
      /\ taken' = [taken EXCEPT ![call[c].at][0] = @ + 1] /\ Dispatching!Enqueue(c)
      /\ waited' = [waited EXCEPT ![c] = 0] /\ UNCHANGED <<sent, rows, denied>>
  BY DEF Dispatching!Take, Dispatching!At
<1>2. PICK p \in Limited: p = call[c].at
  BY <1>1
<1>3. 0 \in Dispatching!Ages /\ Token \in Nat \ {0} /\ Capacity \in Nat /\ Span \in Nat
  BY LlmConstants DEF Dispatching!Ages
<1>4. units' \in [Limited -> 0..Capacity] /\ units'[p] = units[p] - Token /\ units[p] \in Nat
  BY <1>0, <1>1, <1>2, <1>3 DEF LlmTypes
<1>5. PICK b \in [Dispatching!Ages -> Nat]: b = taken[p]
  BY <1>0 DEF LlmTypes
<1>6. PICK d: d = [b EXCEPT ![0] = b[0] + 1]
  OBVIOUS
<1>7. d \in [Dispatching!Ages -> Nat] /\ d[0] = b[0] + 1 /\ \A a \in Dispatching!Ages \ {0}: d[a] = b[a]
  BY <1>3, <1>6
<1>8. taken' = [taken EXCEPT ![p] = d]
  BY <1>0, <1>1, <1>2, <1>5, <1>6 DEF LlmTypes
<1>9. taken' \in [Limited -> [Dispatching!Ages -> Nat]] /\ taken'[p] = d
  BY <1>0, <1>7, <1>8 DEF LlmTypes
<1>10. BucketsAddUp'
  <2> SUFFICES ASSUME NEW q \in Limited, NEW w \in Dispatching!Ages
               PROVE  Token * Dispatching!InWindow(taken'[q], w) + units'[q] <= Capacity + w
    BY DEF BucketsAddUp
  <2>1. CASE q = p
    <3>1. Token * Dispatching!InWindow(b, w) + units[p] <= Capacity + w
      BY <1>5 DEF LlmInv, BucketsAddUp
    <3>2. PICK n \in Nat: n = Dispatching!InWindow(b, w)
      BY <1>3, InWindowIs
    <3>3. Dispatching!InWindow(taken'[q], w) = n + 1
      BY <1>3, <1>7, <1>9, <2>1, <3>2, OneMore
    <3>4. w \in Nat
      BY <1>3 DEF Dispatching!Ages
    <3>5. Token * (n + 1) = Token * n + Token /\ Token * n \in Nat
      BY <1>3
    <3>6. Token * n + units[p] <= Capacity + w
      BY <3>1, <3>2
    <3>7. Token * n + Token + (units[p] - Token) <= Capacity + w
      BY <1>3, <1>4, <3>4, <3>5, <3>6
    <3> QED
      BY <1>4, <2>1, <3>3, <3>5, <3>7
  <2>2. CASE q # p
    <3>1. taken'[q] = taken[q] /\ units'[q] = units[q]
      BY <1>0, <1>1, <1>2, <1>8, <2>2 DEF LlmTypes
    <3> QED
      BY <3>1 DEF LlmInv, BucketsAddUp
  <2> QED
    BY <2>1, <2>2
<1>11. /\ waited' \in [Calls -> Nat] /\ waited'[c] = 0
       /\ \A d1 \in Calls \ {c}: waited'[d1] = waited[d1]
  BY <1>0, <1>1 DEF LlmTypes
<1> QED
  BY <1>1, <1>4, <1>9, <1>10, <1>11, EnqueueStep

LEMMA NapStep ==
    ASSUME Dispatching!LlmCallAssumption, LlmInv, NEW c \in Calls, Dispatching!Nap(c)
    PROVE  LlmInv'
<1>0. LlmTypes /\ WaitIsKept(c)
  BY DEF LlmInv, WaitsAreKept
<1>1. /\ call[c].pc = "token" /\ call[c].at \in Limited /\ units[call[c].at] < Token
      /\ Dispatching!Needed(c) <= call[c].left
      /\ call' = [call EXCEPT ![c].pc = "nap", ![c].sleep = Dispatching!Needed(c)]
      /\ UNCHANGED <<queue, units, sent, rows, denied, waited, taken>>
  BY DEF Dispatching!Nap, Dispatching!Short, Dispatching!At, Dispatching!history
<1>2. PICK n \in Nat: n = Dispatching!Needed(c)
  <2>1. units[call[c].at] \in Nat /\ Token \in Nat
    BY <1>0, <1>1, LlmConstants DEF LlmTypes
  <2> QED
    BY <1>1, <2>1 DEF Dispatching!Needed
<1> DEFINE e == [call[c] EXCEPT !.pc = "nap", !.sleep = n]
<1>3. /\ e \in CallRec /\ e.pc = "nap" /\ e.sleep = n /\ e.left = call[c].left
      /\ e.at = call[c].at
  BY <1>0 DEF LlmTypes, CallRec, Dispatching!States, Dispatching!Asleep
<1>4. call' = [call EXCEPT ![c] = e]
  BY <1>0, <1>1, <1>2 DEF LlmTypes
<1> HIDE DEF e
<1>5. OneCall(c) /\ call'[c] = e
  BY <1>0, <1>3, <1>4 DEF LlmTypes, OneCall
<1>6. WaitIsKept(c)'
  BY <1>0, <1>1, <1>2, <1>3, <1>5 DEF WaitIsKept
<1> QED
  BY <1>1, <1>3, <1>5, <1>6, PlainStep

LEMMA GiveUpStep ==
    ASSUME Dispatching!LlmCallAssumption, LlmInv, NEW c \in Calls, Dispatching!GiveUp(c)
    PROVE  LlmInv'
<1>0. LlmTypes
  BY DEF LlmInv
<1>1. /\ call[c].pc = "token" /\ call' = [call EXCEPT ![c] = Dispatching!AfterFailure(c, FALSE)]
      /\ rows' = [rows EXCEPT ![c] = @ + 1] /\ denied' = [denied EXCEPT ![c] = @ + 1]
      /\ waited' = [waited EXCEPT ![c] = 0] /\ UNCHANGED <<queue, units, sent, taken>>
  BY DEF Dispatching!GiveUp, Dispatching!Short, Dispatching!At
<1>2. OneCall(c) /\ call'[c].pc \in {"failed", "backoff", "check"}
  BY <1>0, <1>1, AfterFailureIs DEF LlmTypes, OneCall
<1>3. denied' = [denied EXCEPT ![c] = @ + (IF call[c].pc = "token" THEN 1 ELSE 0)]
  BY <1>1
<1> QED
  BY <1>1, <1>2, <1>3, BookStep

\* The end of a request, with an answer or without.
LEMMA EndsStep ==
    ASSUME LlmInv, NEW c \in Calls, OneCall(c), call[c].pc = "busy",
           call'[c].pc \in {"answered", "failed", "backoff", "check"}, Dispatching!Book(c),
           UNCHANGED <<queue, units, sent, denied, waited, taken>>
    PROVE  LlmInv'
<1>0. LlmTypes /\ WaitIsKept(c)
  BY DEF LlmInv, WaitsAreKept
<1>1. waited' = [waited EXCEPT ![c] = 0]
  BY <1>0 DEF WaitIsKept, LlmTypes
<1>2. denied[c] + 0 = denied[c]
  BY <1>0 DEF LlmTypes
<1>3. denied' = [denied EXCEPT ![c] = @ + (IF call[c].pc = "token" THEN 1 ELSE 0)]
  BY <1>0, <1>2 DEF LlmTypes
<1> QED
  BY <1>1, <1>3, BookStep DEF Dispatching!Book

LEMMA AnsweredStep ==
    ASSUME LlmInv, NEW c \in Calls, Dispatching!Answered(c)
    PROVE  LlmInv'
<1>1. /\ call[c].pc = "busy" /\ call' = [call EXCEPT ![c] = [Dispatching!New EXCEPT !.pc = "answered"]]
      /\ Dispatching!Book(c) /\ UNCHANGED <<queue, units, sent, denied, waited, taken>>
  BY DEF Dispatching!Answered, Dispatching!At
<1>2. /\ [Dispatching!New EXCEPT !.pc = "answered"] \in CallRec
      /\ [Dispatching!New EXCEPT !.pc = "answered"].pc = "answered"
  BY NewIs DEF CallRec, Dispatching!States, Dispatching!Ended
<1>3. OneCall(c) /\ call'[c].pc = "answered"
  BY <1>1, <1>2 DEF LlmInv, LlmTypes, OneCall
<1> QED
  BY <1>1, <1>3, EndsStep

LEMMA RefusedStep ==
    ASSUME Dispatching!LlmCallAssumption, LlmInv, NEW c \in Calls, NEW is429 \in BOOLEAN,
           Dispatching!Refused(c, is429)
    PROVE  LlmInv'
<1>1. /\ call[c].pc = "busy" /\ call' = [call EXCEPT ![c] = Dispatching!AfterFailure(c, is429)]
      /\ Dispatching!Book(c) /\ UNCHANGED <<queue, units, sent, denied, waited, taken>>
  BY DEF Dispatching!Refused, Dispatching!At
<1>2. OneCall(c) /\ call'[c].pc \in {"failed", "backoff", "check"}
  BY <1>1, AfterFailureIs DEF LlmInv, LlmTypes, OneCall
<1> QED
  BY <1>1, <1>2, EndsStep

LEMMA AbandonStep ==
    ASSUME LlmInv, NEW c \in Calls, Dispatching!Abandon(c)
    PROVE  LlmInv'
<1>0. LlmTypes /\ WaitIsKept(c)
  BY DEF LlmInv, WaitsAreKept
<1>1. /\ call[c].pc = "busy" /\ call' = [call EXCEPT ![c] = [Dispatching!New EXCEPT !.pc = "left"]]
      /\ UNCHANGED <<queue, units, sent, rows, denied, waited, taken>>
  BY DEF Dispatching!Abandon, Dispatching!At, Dispatching!history
<1>2. /\ [Dispatching!New EXCEPT !.pc = "left"] \in CallRec
      /\ [Dispatching!New EXCEPT !.pc = "left"].pc = "left"
  BY NewIs DEF CallRec, Dispatching!States, Dispatching!Ended
<1>3. OneCall(c) /\ call'[c].pc = "left"
  BY <1>0, <1>1, <1>2 DEF LlmTypes, OneCall
<1>4. WaitIsKept(c)'
  BY <1>0, <1>1, <1>3 DEF WaitIsKept
<1> QED
  BY <1>1, <1>3, <1>4, PlainStep

LEMMA WakeStep ==
    ASSUME LlmInv, NEW c \in Calls, Dispatching!Wake(c)
    PROVE  LlmInv'
<1>0. LlmTypes /\ WaitIsKept(c)
  BY DEF LlmInv, WaitsAreKept
<1>1. /\ call[c].pc \in {"nap", "backoff"}
      /\ call' = [call EXCEPT ![c].pc = IF call[c].pc = "nap" THEN "token" ELSE "check"]
      /\ UNCHANGED <<queue, units, sent, rows, denied, waited, taken>>
  BY DEF Dispatching!Wake, Dispatching!At, Dispatching!history, Dispatching!Asleep
<1>2. /\ OneCall(c) /\ call'[c].pc = (IF call[c].pc = "nap" THEN "token" ELSE "check")
      /\ call'[c].left = call[c].left /\ call'[c].at = call[c].at
  BY <1>0, <1>1 DEF LlmTypes, OneCall, CallRec, Dispatching!States
<1>3. WaitIsKept(c)'
  BY <1>0, <1>1, <1>2 DEF WaitIsKept
<1> QED
  BY <1>1, <1>2, <1>3, PlainStep

LEMMA DispatchStep ==
    ASSUME Dispatching!LlmCallAssumption, LlmInv, NEW c \in Calls, Dispatching!Dispatch(c)
    PROVE  LlmInv'
<1>0. LlmTypes /\ WaitIsKept(c) /\ Booked(c)
  BY DEF LlmInv, WaitsAreKept
<1>1. PICK p \in Dispatching!Providers: p = call[c].at
  BY <1>0 DEF LlmTypes, CallRec
<1>2. /\ queue[p] # <<>> /\ Head(queue[p]) = c /\ queue' = [queue EXCEPT ![p] = Tail(@)]
      /\ call' = [call EXCEPT ![c].pc = "busy", ![c].left = Timeout]
      /\ sent' = [sent EXCEPT ![c][p] = @ + 1]
      /\ UNCHANGED <<units, rows, denied, waited, taken>>
  BY <1>1 DEF Dispatching!Dispatch
<1>3. /\ queue[p] \in Seq(Calls) /\ Len(queue[p]) \in Nat \ {0} /\ queue[p][1] = c
      /\ DOMAIN queue[p] = 1..Len(queue[p])
  BY <1>0, <1>2 DEF LlmTypes
<1>4. call[c].pc = "queued"
  BY <1>3 DEF LlmInv, QueuesAreSound
<1> DEFINE e == [call[c] EXCEPT !.pc = "busy", !.left = Timeout]
<1>5. e \in CallRec /\ e.pc = "busy"
  <2>1. call[c] \in CallRec /\ Timeout \in Nat /\ "busy" \in Dispatching!States
    BY <1>0, LlmConstants, StateNames DEF LlmTypes
  <2> QED
    BY <2>1 DEF CallRec
<1>6. call' = [call EXCEPT ![c] = e]
  BY <1>0, <1>2 DEF LlmTypes
<1> HIDE DEF e
<1>7. OneCall(c) /\ call'[c].pc = "busy"
  BY <1>0, <1>5, <1>6 DEF LlmTypes, OneCall
<1>8. /\ queue' \in [Dispatching!Providers -> Seq(Calls)] /\ queue'[p] = Tail(queue[p])
      /\ \A q \in Dispatching!Providers \ {p}: queue'[q] = queue[q]
  BY <1>0, <1>2, <1>3 DEF LlmTypes
<1>9. sent' \in [Calls -> [Dispatching!Providers -> Nat]]
  BY <1>0, <1>2 DEF LlmTypes
<1>10. LlmTypes' /\ BucketsAddUp'
  BY <1>0, <1>2, <1>7, <1>8, <1>9 DEF LlmInv, LlmTypes, BucketsAddUp, OneCall
<1>11. /\ Len(Tail(queue[p])) = Len(queue[p]) - 1 /\ DOMAIN Tail(queue[p]) = 1..(Len(queue[p]) - 1)
       /\ \A i \in 1..(Len(queue[p]) - 1): Tail(queue[p])[i] = queue[p][i + 1] /\ i + 1 \in DOMAIN queue[p]
  BY <1>3
<1>12. \A i, j \in DOMAIN queue[p]: queue[p][i] = queue[p][j] => i = j
  BY DEF LlmInv, QueuesAreSound
<1>13. ASSUME NEW i \in 1..(Len(queue[p]) - 1)
       PROVE  call'[queue[p][i + 1]].pc = "queued" /\ call'[queue[p][i + 1]].at = p
  <2>1. i + 1 \in DOMAIN queue[p] /\ i + 1 # 1 /\ 1 \in DOMAIN queue[p]
    BY <1>3, <1>11
  <2>2. queue[p][i + 1] # c /\ queue[p][i + 1] \in Calls
    BY <1>3, <1>12, <2>1
  <2>3. call[queue[p][i + 1]].pc = "queued" /\ call[queue[p][i + 1]].at = p
    BY <2>1 DEF LlmInv, QueuesAreSound
  <2> QED
    BY <1>7, <2>2, <2>3 DEF OneCall
<1>14. ASSUME NEW q \in Dispatching!Providers \ {p}, NEW i \in DOMAIN queue[q]
       PROVE  call'[queue[q][i]].pc = "queued" /\ call'[queue[q][i]].at = q
  <2>1. call[queue[q][i]].pc = "queued" /\ call[queue[q][i]].at = q /\ queue[q][i] \in Calls
    BY <1>0 DEF LlmInv, LlmTypes, QueuesAreSound
  <2>2. queue[q][i] # c
    BY <1>1, <2>1
  <2> QED
    BY <1>7, <2>1, <2>2 DEF OneCall
<1>15. ASSUME NEW q \in Dispatching!Providers
       PROVE  /\ \A i \in DOMAIN queue'[q]: call'[queue'[q][i]].pc = "queued" /\ call'[queue'[q][i]].at = q
              /\ \A i, j \in DOMAIN queue'[q]: queue'[q][i] = queue'[q][j] => i = j
  <2>1. CASE q = p
    <3>1. queue'[q] = Tail(queue[p]) /\ DOMAIN queue'[q] = 1..(Len(queue[p]) - 1)
      BY <1>8, <1>11, <2>1
    <3>2. \A i \in DOMAIN queue'[q]: queue'[q][i] = queue[p][i + 1] /\ i + 1 \in DOMAIN queue[p] /\ i \in Nat
      BY <1>11, <3>1
    <3>3. \A i, j \in DOMAIN queue'[q]: queue'[q][i] = queue'[q][j] => i = j
      BY <1>12, <3>2
    <3> QED
      BY <1>13, <2>1, <3>1, <3>2, <3>3
  <2>2. CASE q # p
    <3>1. queue'[q] = queue[q]
      BY <1>8, <2>2
    <3>2. \A i, j \in DOMAIN queue[q]: queue[q][i] = queue[q][j] => i = j
      BY DEF LlmInv, QueuesAreSound
    <3> QED
      BY <1>14, <2>2, <3>1, <3>2
  <2> QED
    BY <2>1, <2>2
<1>16. QueuesAreSound'
  BY <1>15 DEF QueuesAreSound
<1>17. WaitIsKept(c)'
  BY <1>0, <1>2, <1>4, <1>7 DEF WaitIsKept
<1>18. Booked(c)'
  <2>1. /\ sent[c]["primary"] \in Nat /\ sent[c]["fallback"] \in Nat
        /\ rows[c] \in Nat /\ denied[c] \in Nat
    BY <1>0 DEF LlmTypes, Dispatching!Providers
  <2>2. Unbooked(c)' = 1 /\ Unbooked(c) = 0
    BY <1>4, <1>7 DEF Unbooked
  <2>3. sent'[c]["primary"] + sent'[c]["fallback"] = sent[c]["primary"] + sent[c]["fallback"] + 1
    <3>1. CASE p = "primary"
      <4>1. sent'[c]["primary"] = sent[c]["primary"] + 1 /\ sent'[c]["fallback"] = sent[c]["fallback"]
        BY <1>0, <1>2, <3>1 DEF LlmTypes, Dispatching!Providers
      <4> QED
        BY <2>1, <4>1
    <3>2. CASE p = "fallback"
      <4>1. sent'[c]["fallback"] = sent[c]["fallback"] + 1 /\ sent'[c]["primary"] = sent[c]["primary"]
        BY <1>0, <1>2, <3>2 DEF LlmTypes, Dispatching!Providers
      <4> QED
        BY <2>1, <4>1
    <3> QED
      BY <3>1, <3>2 DEF Dispatching!Providers
  <2>4. sent'[c]["primary"] \in Nat /\ sent'[c]["fallback"] \in Nat
    BY <1>9 DEF Dispatching!Providers
  <2>5. rows'[c] = rows[c] /\ denied'[c] = denied[c]
    BY <1>2
  <2>6. rows[c] = sent[c]["primary"] + sent[c]["fallback"] + denied[c] - 0
    BY <1>0, <2>2 DEF Booked
  <2>7. rows'[c] = sent'[c]["primary"] + sent'[c]["fallback"] + denied'[c] - 1
    BY <2>1, <2>3, <2>4, <2>5, <2>6
  <2> QED
    BY <2>2, <2>7 DEF Booked
<1>19. \A d \in Calls \ {c}: sent'[d] = sent[d]
  BY <1>0, <1>2 DEF LlmTypes
<1>20. \A d \in Calls: WaitIsKept(d)' /\ Booked(d)'
  BY <1>2, <1>7, <1>17, <1>18, <1>19, OthersKeep
<1> QED
  BY <1>10, <1>16, <1>20 DEF LlmInv, WaitsAreKept

\* Time passes for a sleeper's wait and for its sleep alike, and for the bucket and its past.
LEMMA TickStep ==
    ASSUME Dispatching!LlmCallAssumption, LlmInv, Dispatching!Tick
    PROVE  LlmInv'
<1>0. LlmTypes /\ \A c \in Calls: WaitIsKept(c) /\ Booked(c)
  BY DEF LlmInv, WaitsAreKept
<1>1. /\ \A c \in Calls: ~Dispatching!Pressing(c)
      /\ call' = [c \in Calls |-> [call[c] EXCEPT !.left = Dispatching!Less(@), !.sleep = Dispatching!Less(@)]]
      /\ units' = [p \in Limited |-> Dispatching!Refill(units[p])]
      /\ waited' = [c \in Calls |-> IF call[c].pc = "nap" THEN waited[c] + 1 ELSE waited[c]]
      /\ taken' = [p \in Limited |-> Dispatching!Older(taken[p])]
      /\ UNCHANGED <<queue, sent, rows, denied>>
  BY DEF Dispatching!Tick, Dispatching!At
<1>2. \A n \in Nat: Dispatching!Less(n) \in Nat /\ (n > 0 => Dispatching!Less(n) = n - 1)
  BY DEF Dispatching!Less
<1>3. ASSUME NEW c \in Calls
      PROVE  /\ call'[c] \in CallRec /\ call'[c].pc = call[c].pc /\ call'[c].at = call[c].at
             /\ call'[c].left = Dispatching!Less(call[c].left)
             /\ call'[c].sleep = Dispatching!Less(call[c].sleep)
  <2>1. call[c] \in CallRec /\ call[c].left \in Nat /\ call[c].sleep \in Nat
    BY <1>0 DEF LlmTypes, CallRec
  <2> DEFINE e == [call[c] EXCEPT !.left = Dispatching!Less(@), !.sleep = Dispatching!Less(@)]
  <2>2. /\ e \in CallRec /\ e.pc = call[c].pc /\ e.at = call[c].at
        /\ e.left = Dispatching!Less(call[c].left) /\ e.sleep = Dispatching!Less(call[c].sleep)
    BY <1>2, <2>1 DEF CallRec
  <2>3. call'[c] = e
    BY <1>1
  <2> HIDE DEF e
  <2> QED
    BY <2>2, <2>3
<1>4. units' \in [Limited -> 0..Capacity] /\ \A p \in Limited: units'[p] <= units[p] + 1 /\ units[p] \in Nat
  <2>1. ASSUME NEW p \in Limited
        PROVE  /\ Dispatching!Refill(units[p]) \in 0..Capacity /\ units[p] \in Nat
               /\ Dispatching!Refill(units[p]) <= units[p] + 1
    <3>1. units[p] \in 0..Capacity /\ Capacity \in Nat
      BY <1>0, LlmConstants DEF LlmTypes
    <3> QED
      BY <3>1 DEF Dispatching!Refill
  <2> QED
    BY <1>1, <2>1
<1>5. taken' \in [Limited -> [Dispatching!Ages -> Nat]]
  BY <1>0, <1>1, LlmConstants, OlderIs DEF LlmTypes
<1>6. waited' \in [Calls -> Nat]
  <2>1. \A c \in Calls: waited[c] \in Nat /\ waited[c] + 1 \in Nat
    BY <1>0 DEF LlmTypes
  <2> QED
    BY <1>1, <2>1
<1>7. DOMAIN call' = Calls /\ call' = [c \in Calls |-> call'[c]]
  BY <1>1
<1>8. call' \in [Calls -> CallRec]
  BY <1>3, <1>7
<1>9. LlmTypes'
  BY <1>0, <1>1, <1>4, <1>5, <1>6, <1>8 DEF LlmTypes
<1>10. QueuesAreSound'
  <2> SUFFICES ASSUME NEW p \in Dispatching!Providers, NEW i \in DOMAIN queue[p]
               PROVE  call'[queue[p][i]].pc = "queued" /\ call'[queue[p][i]].at = p
    <3>1. queue' = queue /\ QueuesAreSound
      BY <1>1 DEF LlmInv
    <3> QED
      BY <3>1 DEF QueuesAreSound
  <2>1. call[queue[p][i]].pc = "queued" /\ call[queue[p][i]].at = p /\ queue[p][i] \in Calls
    BY <1>0 DEF LlmInv, LlmTypes, QueuesAreSound
  <2> QED
    BY <1>3, <2>1
<1>11. ASSUME NEW c \in Calls
       PROVE  WaitIsKept(c)'
  <2>1. /\ call[c].left \in Nat /\ call[c].sleep \in Nat /\ waited[c] \in Nat /\ MaxWait \in Nat
    BY <1>0, LlmConstants DEF LlmTypes, CallRec
  <2>2. WaitIsKept(c)
    BY <1>0
  <2>3. CASE call[c].pc = "nap"
    <3>1. call[c].sleep > 0
      <4>1. ~(call[c].pc \in Dispatching!Asleep /\ call[c].sleep = 0)
        BY <1>1 DEF Dispatching!Pressing
      <4>2. "nap" \in Dispatching!Asleep
        BY DEF Dispatching!Asleep
      <4> QED
        BY <2>1, <2>3, <4>1, <4>2
    <3>2. call[c].sleep <= call[c].left /\ call[c].at \in Limited /\ waited[c] + call[c].left <= MaxWait
      BY <2>2, <2>3 DEF WaitIsKept
    <3>3. /\ call'[c].left = call[c].left - 1 /\ call'[c].sleep = call[c].sleep - 1
          /\ call'[c].pc = "nap" /\ call'[c].at = call[c].at /\ waited'[c] = waited[c] + 1
      <4>1. /\ call'[c].left = Dispatching!Less(call[c].left) /\ call'[c].pc = "nap"
            /\ call'[c].sleep = Dispatching!Less(call[c].sleep) /\ call'[c].at = call[c].at
        BY <1>3, <2>3
      <4>2. waited'[c] = waited[c] + 1
        BY <1>1, <2>3
      <4>3. call[c].left > 0
        BY <2>1, <3>1, <3>2
      <4> QED
        BY <1>2, <2>1, <3>1, <4>1, <4>2, <4>3
    <3> QED
      BY <2>1, <3>2, <3>3 DEF WaitIsKept
  <2>4. CASE call[c].pc # "nap"
    <3>1. call[c].pc # "token"
      BY <1>1 DEF Dispatching!Pressing
    <3>2. waited'[c] = waited[c] /\ call'[c].pc = call[c].pc
      BY <1>1, <1>3, <2>4
    <3> QED
      BY <2>2, <2>4, <3>1, <3>2 DEF WaitIsKept
  <2> QED
    BY <2>3, <2>4
<1>12. BucketsAddUp'
  <2> SUFFICES ASSUME NEW p \in Limited, NEW w \in Dispatching!Ages
               PROVE  Token * Dispatching!InWindow(taken'[p], w) + units'[p] <= Capacity + w
    BY DEF BucketsAddUp
  <2>1. PICK b \in [Dispatching!Ages -> Nat]: b = taken[p]
    BY <1>0 DEF LlmTypes
  <2>2. taken'[p] = Dispatching!Older(b) /\ Span \in Nat /\ Token \in Nat /\ Capacity \in Nat
    BY <1>1, <2>1, LlmConstants
  <2>3. CASE w = 0
    <3>1. Dispatching!InWindow(taken'[p], w) = 0 /\ units'[p] \in 0..Capacity
      BY <1>4, <2>2, <2>3, OlderIs
    <3> QED
      BY <2>2, <2>3, <3>1
  <2>4. CASE w # 0
    <3>1. w - 1 \in Dispatching!Ages /\ w \in Nat
      BY <2>2, <2>4 DEF Dispatching!Ages
    <3>2. PICK n \in Nat: n = Dispatching!InWindow(b, w - 1)
      BY <2>2, <3>1, InWindowIs
    <3>3. Dispatching!InWindow(taken'[p], w) = n
      BY <2>2, <2>4, <3>1, <3>2, OlderIs
    <3>4. Token * n + units[p] <= Capacity + (w - 1) /\ Token * n \in Nat
      BY <2>1, <2>2, <3>1, <3>2 DEF LlmInv, BucketsAddUp
    <3>5. units'[p] <= units[p] + 1 /\ units[p] \in Nat /\ units'[p] \in Nat
      BY <1>4
    <3>6. Token * n + units'[p] <= Capacity + w
      BY <2>2, <3>1, <3>4, <3>5
    <3> QED
      BY <3>3, <3>6
  <2> QED
    BY <2>3, <2>4
<1>13. \A c \in Calls: Booked(c)'
  BY <1>0, <1>1, <1>3 DEF Booked, Unbooked
<1> QED
  BY <1>9, <1>10, <1>11, <1>12, <1>13 DEF LlmInv, WaitsAreKept

LEMMA LlmInductive ==
    ASSUME Dispatching!LlmCallAssumption
    PROVE  Dispatching!Spec => []LlmInv
<1>1. ASSUME Dispatching!Init
      PROVE  LlmInv
  <2>1. /\ call = [c \in Calls |-> Dispatching!New]
        /\ queue = [p \in Dispatching!Providers |-> <<>>] /\ units = [p \in Limited |-> Capacity]
        /\ sent = [c \in Calls |-> [p \in Dispatching!Providers |-> 0]]
        /\ rows = [c \in Calls |-> 0] /\ denied = [c \in Calls |-> 0] /\ waited = [c \in Calls |-> 0]
        /\ taken = [p \in Limited |-> [a \in Dispatching!Ages |-> 0]]
    BY <1>1 DEF Dispatching!Init
  <2>2. LlmTypes
    BY <2>1, LlmConstants, NewIs DEF LlmTypes
  <2>3. QueuesAreSound
    BY <2>1 DEF QueuesAreSound
  <2>4. \A c \in Calls: call[c].pc = "new" /\ waited[c] = 0
    BY <2>1, NewIs
  <2>5. WaitsAreKept
    BY <2>4 DEF WaitsAreKept, WaitIsKept
  <2>6. \A c \in Calls: Booked(c)
    BY <2>1, <2>4 DEF Booked, Unbooked, Dispatching!Providers
  <2>7. BucketsAddUp
    <3> SUFFICES ASSUME NEW p \in Limited, NEW w \in Dispatching!Ages
                 PROVE  Token * Dispatching!InWindow(taken[p], w) + units[p] <= Capacity + w
      BY DEF BucketsAddUp
    <3>1. PICK b \in [Dispatching!Ages -> Nat]: b = taken[p] /\ b = [a \in Dispatching!Ages |-> 0]
      BY <2>1
    <3>2. /\ Span \in Nat /\ Token \in Nat /\ Capacity \in Nat /\ Dispatching!Ages = 0..Span
      BY LlmConstants DEF Dispatching!Ages
    <3> DEFINE Off == {a \in Dispatching!Ages: Dispatching!InWindow(b, a) # 0}
    <3>3. Off = {}
      <4> SUFFICES ASSUME Off # {}
                   PROVE  FALSE
        OBVIOUS
      <4>0. Off \subseteq Nat
        BY <3>2
      <4>1. PICK a \in Off: \A d \in Off: a <= d
        <5> HIDE DEF Off
        <5> QED
          BY <4>0, LeastElement
      <4>2. CASE a = 0
        BY <3>1, <3>2, <4>1, <4>2, InWindowIs
      <4>3. CASE a # 0
        <5>1. a - 1 \in Dispatching!Ages /\ a - 1 \notin Off /\ a \in Dispatching!Ages \ {0}
          BY <3>2, <4>1, <4>3
        <5>2. Dispatching!InWindow(b, a) = b[a] + Dispatching!InWindow(b, a - 1)
          BY <3>2, <5>1, InWindowIs
        <5> QED
          BY <3>1, <4>1, <5>1, <5>2
      <4> QED
        BY <4>2, <4>3
    <3>4. Dispatching!InWindow(taken[p], w) = 0
      BY <3>1, <3>3
    <3>5. units[p] = Capacity /\ w \in Nat /\ Token * 0 = 0
      BY <2>1, <3>2
    <3> QED
      BY <3>2, <3>4, <3>5
  <2> QED
    BY <2>2, <2>3, <2>5, <2>6, <2>7 DEF LlmInv
<1>2. ASSUME LlmInv, [Dispatching!Next]_Dispatching!vars
      PROVE  LlmInv'
  <2> USE <1>2
  <2>1. ASSUME NEW c \in Calls, Dispatching!Step(c)
        PROVE  LlmInv'
    BY <2>1, StartStep, BreakerCheckStep, UnlimitedStep, TakeStep, NapStep, GiveUpStep, WakeStep,
       DispatchStep, AnsweredStep, AbandonStep, RefusedStep DEF Dispatching!Step
  <2>2. CASE UNCHANGED Dispatching!vars
    BY <2>2 DEF Dispatching!vars, LlmInv, LlmTypes, QueuesAreSound, WaitsAreKept, WaitIsKept,
                BucketsAddUp, Booked, Unbooked
  <2> QED
    BY <2>1, <2>2, TickStep DEF Dispatching!Next
<1> QED
  BY <1>1, <1>2, PTL DEF Dispatching!Spec

\* llm_registry.py and llm_usage.py: however many calls share a provider's bucket, semaphore
\* and fallback, no window takes more tokens than the bucket and its refill pay for, no call
\* sleeps longer than its wait, and the ledger has a row for every attempt.
THEOREM CallsAreAccounted ==
    ASSUME Dispatching!LlmCallAssumption
    PROVE  Dispatching!Spec => []CallsAreBooked
<1>1. ASSUME LlmInv
      PROVE  CallsAreBooked
  <2>0. LlmTypes /\ WaitsAreKept /\ BucketsAddUp /\ \A c \in Calls: Booked(c)
    BY <1>1 DEF LlmInv
  <2>1. ASSUME NEW p \in Limited, NEW w \in Dispatching!Ages
        PROVE  Token * Dispatching!InWindow(taken[p], w) <= Capacity + w
    <3>1. PICK n \in Nat: n = Dispatching!InWindow(taken[p], w)
      BY <2>0, LlmConstants, InWindowIs DEF LlmTypes
    <3>2. Token * n \in Nat /\ units[p] \in Nat /\ w \in Nat /\ Capacity \in Nat
      BY <2>0, LlmConstants DEF LlmTypes, Dispatching!Ages
    <3>3. Token * n + units[p] <= Capacity + w
      BY <2>0, <3>1 DEF BucketsAddUp
    <3>4. Token * n <= Capacity + w
      BY <3>2, <3>3
    <3> QED
      BY <3>1, <3>4
  <2>2. ASSUME NEW c \in Calls
        PROVE  waited[c] <= MaxWait
    <3>1. waited[c] \in Nat /\ call[c].left \in Nat /\ MaxWait \in Nat /\ WaitIsKept(c)
      BY <2>0, LlmConstants DEF WaitsAreKept, LlmTypes, CallRec
    <3>2. waited[c] + call[c].left <= MaxWait \/ waited[c] = 0
      BY <3>1 DEF WaitIsKept
    <3> QED
      BY <3>1, <3>2
  <2>3. Dispatching!LedgerMatchesAttempts
    BY <2>0 DEF Dispatching!LedgerMatchesAttempts, Booked, Unbooked
  <2> QED
    BY <2>1, <2>2, <2>3 DEF CallsAreBooked, Dispatching!TokensPaced
<1> QED
  BY <1>1, LlmInductive, PTL

-----------------------------------------------------------------------------
(* Autoheal.                                                               *)

LEMMA EngineCounts ==
    /\ \A S: Engine!Cardinality(S) = Cardinality(S)
    /\ \A S: IsFiniteSet(S) => Cardinality(S) \in Nat
<1>1. ASSUME NEW S PROVE Engine!Cardinality(S) = Cardinality(S)
  BY DEF Engine!Cardinality, Cardinality
<1> QED
  BY <1>1, FS_CardinalityType

LEMMA FirstNumbers ==
    ASSUME NEW n \in Nat
    PROVE  IsFiniteSet(1..n) /\ Cardinality(1..n) = n
<1>1. n \in Int /\ 1 \in Int
  OBVIOUS
<1>2. Cardinality(1..n) = IF 1 > n THEN 0 ELSE n - 1 + 1
  BY <1>1, FS_Interval
<1>3. IsFiniteSet(1..n)
  BY <1>1, FS_Interval
<1> QED
  BY <1>2, <1>3

LEMMA SlotsAreFinite ==
    ASSUME NEW dq \in Seq(Engine!Times), NEW k
    PROVE  IsFiniteSet(Engine!Slots(dq, k)) /\ Cardinality(Engine!Slots(dq, k)) \in Nat
           /\ Cardinality(Engine!Slots(dq, k)) <= Len(dq)
<1>1. Engine!Slots(dq, k) \in SUBSET (1..Len(dq)) /\ Len(dq) \in Nat
  BY DEF Engine!Slots
<1>2. IsFiniteSet(1..Len(dq)) /\ Cardinality(1..Len(dq)) = Len(dq)
  BY <1>1, FirstNumbers
<1> QED
  BY <1>1, <1>2, FS_Subset, FS_CardinalityType

\* _trim takes no slot inside the window, and adds none.
LEMMA TrimEffect ==
    ASSUME Engine!AutohealAssumption, NEW dq \in Seq(Engine!Times), NEW n \in Engine!Times
    PROVE  /\ Engine!Trim(dq, n) \in Seq(Engine!Times) /\ Len(Engine!Trim(dq, n)) <= Len(dq)
           /\ \A k \in Engine!Times:
                 /\ Cardinality(Engine!Slots(Engine!Trim(dq, n), k)) <= Cardinality(Engine!Slots(dq, k))
                 /\ k >= n - Window =>
                        Cardinality(Engine!Slots(Engine!Trim(dq, n), k)) = Cardinality(Engine!Slots(dq, k))
<1> DEFINE kept == {i \in 1..Len(dq): dq[i] >= n - Window}
           d == Engine!Trim(dq, n)
<1>0. Len(dq) \in Nat /\ n \in Nat /\ Window \in Nat
  BY DEF Engine!AutohealAssumption, Engine!Times
<1>1. CASE kept = {}
  <2>1. d = << >>
    BY <1>1 DEF Engine!Trim
  <2>2. \A k: Engine!Slots(d, k) = {}
    BY <2>1 DEF Engine!Slots
  <2>3. \A k \in Engine!Times: k >= n - Window => Engine!Slots(dq, k) = {}
    BY <1>1 DEF Engine!Slots
  <2>4. \A k: Cardinality(Engine!Slots(d, k)) = 0
    BY <2>2, FS_EmptySet
  <2> HIDE DEF d
  <2> QED
    BY <1>0, <2>1, <2>3, <2>4, FS_EmptySet, SlotsAreFinite DEF d
<1>2. CASE kept # {}
  <2> DEFINE first == CHOOSE i \in kept: \A j \in kept: i <= j
  <2>1. kept \subseteq Nat
    OBVIOUS
  <2>2. \E i \in kept: \A j \in kept: i <= j
    <3> HIDE DEF kept
    <3> QED
      BY <1>2, <2>1, LeastElement
  <2>3. first \in kept /\ \A j \in kept: first <= j
    BY <2>2
  <2>4. d = SubSeq(dq, first, Len(dq))
    BY <1>2 DEF Engine!Trim
  <2>5. first \in 1..Len(dq)
    BY <2>3
  <2> HIDE DEF first, d
  <2>6. /\ d \in Seq(Engine!Times) /\ Len(d) = Len(dq) - first + 1
        /\ \A j \in 1..Len(d): d[j] = dq[j + first - 1] /\ j + first - 1 \in 1..Len(dq)
    BY <1>0, <2>4, <2>5
  <2>7. ASSUME NEW k \in Engine!Times
        PROVE  /\ Cardinality(Engine!Slots(d, k)) <= Cardinality(Engine!Slots(dq, k))
               /\ k >= n - Window => Cardinality(Engine!Slots(d, k)) = Cardinality(Engine!Slots(dq, k))
    <3> DEFINE A == Engine!Slots(d, k)
               B == Engine!Slots(dq, k)
               f == [j \in A |-> j + first - 1]
    <3>1. A \subseteq 1..Len(d)
      BY DEF Engine!Slots
    <3>2. \A j \in A: f[j] \in B
      BY <2>6 DEF Engine!Slots
    <3>3. \A i, j \in A: f[i] = f[j] => i = j
      BY <2>5, <3>1
    <3>4. f \in Injection(A, B)
      <4> HIDE DEF A, B
      <4>1. f \in [A -> B]
        BY <3>2
      <4> HIDE DEF f
      <4> QED
        BY <3>3, <4>1 DEF Injection, IsInjective
    <3>5. ASSUME k >= n - Window
          PROVE  f \in Surjection(A, B)
      <4>1. ASSUME NEW i \in B
            PROVE  \E j \in A: f[j] = i
        <5>1. i \in kept /\ i \in 1..Len(dq) /\ dq[i] = k
          BY <3>5 DEF Engine!Slots
        <5>2. first <= i
          BY <2>3, <5>1
        <5>3. i - first + 1 \in 1..Len(d) /\ (i - first + 1) + first - 1 = i
          BY <1>0, <2>5, <2>6, <5>1, <5>2
        <5>4. i - first + 1 \in A
          BY <2>6, <5>1, <5>3 DEF Engine!Slots
        <5> QED
          BY <5>3, <5>4
      <4> HIDE DEF A, B, f
      <4> QED
        BY <3>4, <4>1 DEF Injection, Surjection, IsInjective
    <3>6. IsFiniteSet(B)
      BY SlotsAreFinite
    <3> HIDE DEF A, B, f
    <3>7. Cardinality(A) <= Cardinality(B) /\ (Cardinality(A) = Cardinality(B) <=> f \in Surjection(A, B))
      BY <3>4, <3>6, FS_Injection
    <3> QED
      BY <3>5, <3>7 DEF A, B
  <2> QED
    BY <1>0, <2>5, <2>6, <2>7 DEF d
<1> QED
  BY <1>1, <1>2

LEMMA AppendEffect ==
    ASSUME NEW dq \in Seq(Engine!Times), NEW n \in Engine!Times
    PROVE  /\ Append(dq, n) \in Seq(Engine!Times) /\ Len(Append(dq, n)) = Len(dq) + 1
           /\ Append(dq, n) # << >> /\ Append(dq, n)[Len(Append(dq, n))] = n
           /\ \A k \in Engine!Times: Cardinality(Engine!Slots(Append(dq, n), k)) =
                 IF k = n THEN Cardinality(Engine!Slots(dq, k)) + 1 ELSE Cardinality(Engine!Slots(dq, k))
<1> DEFINE d == Append(dq, n)
<1>1. /\ d \in Seq(Engine!Times) /\ Len(d) = Len(dq) + 1 /\ d # << >> /\ d[Len(d)] = n
      /\ \A i \in 1..Len(dq): d[i] = dq[i]
      /\ Len(dq) \in Nat
  OBVIOUS
<1> HIDE DEF d
<1>2. ASSUME NEW k \in Engine!Times
      PROVE  Cardinality(Engine!Slots(d, k)) =
                 IF k = n THEN Cardinality(Engine!Slots(dq, k)) + 1 ELSE Cardinality(Engine!Slots(dq, k))
  <2>1. 1..Len(d) = 1..Len(dq) \cup {Len(dq) + 1}
    BY <1>1
  <2>2. Engine!Slots(d, k) = IF k = n THEN Engine!Slots(dq, k) \cup {Len(dq) + 1} ELSE Engine!Slots(dq, k)
    BY <1>1, <2>1 DEF Engine!Slots
  <2>3. Len(dq) + 1 \notin Engine!Slots(dq, k) /\ IsFiniteSet(Engine!Slots(dq, k))
    <3>1. Len(dq) + 1 \notin Engine!Slots(dq, k)
      BY <1>1 DEF Engine!Slots
    <3> QED
      BY <3>1, SlotsAreFinite
  <2> QED
    BY <2>2, <2>3, FS_AddElement
<1> QED
  BY <1>1, <1>2 DEF d

\* _rollback_reservation takes at most one slot, and only of its own time.
LEMMA UnwindEffect ==
    ASSUME NEW dq \in Seq(Engine!Times), NEW n \in Engine!Times
    PROVE  /\ Engine!Unwind(dq, n) \in Seq(Engine!Times) /\ Len(Engine!Unwind(dq, n)) <= Len(dq)
           /\ \A k \in Engine!Times:
                 /\ k # n => Cardinality(Engine!Slots(Engine!Unwind(dq, n), k)) = Cardinality(Engine!Slots(dq, k))
                 /\ Cardinality(Engine!Slots(Engine!Unwind(dq, n), k)) <= Cardinality(Engine!Slots(dq, k))
                 /\ Cardinality(Engine!Slots(Engine!Unwind(dq, n), k)) >= Cardinality(Engine!Slots(dq, k)) - 1
           /\ dq # << >> /\ dq[Len(dq)] = n =>
                 Cardinality(Engine!Slots(Engine!Unwind(dq, n), n)) = Cardinality(Engine!Slots(dq, n)) - 1
<1> DEFINE d == Engine!Unwind(dq, n)
<1>0. \A k: Cardinality(Engine!Slots(dq, k)) \in Nat
  BY SlotsAreFinite
<1>1. CASE ~(dq # << >> /\ dq[Len(dq)] = n)
  <2>1. d = dq
    BY <1>1 DEF Engine!Unwind
  <2> HIDE DEF d
  <2> QED
    BY <1>0, <1>1, <2>1 DEF d
<1>2. CASE dq # << >> /\ dq[Len(dq)] = n
  <2>1. d = SubSeq(dq, 1, Len(dq) - 1)
    BY <1>2 DEF Engine!Unwind
  <2> HIDE DEF d
  <2>2. Len(dq) \in Nat \ {0}
    BY <1>2
  <2>3. /\ d \in Seq(Engine!Times) /\ Len(d) = Len(dq) - 1
        /\ \A i \in 1..Len(d): d[i] = dq[i]
    <3> DEFINE m == Len(dq) - 1
    <3>1. m \in Nat /\ m <= Len(dq) /\ 1 <= m + 1
      BY <2>2
    <3> HIDE DEF m
    <3>2. d = SubSeq(dq, 1, m)
      BY <2>1 DEF m
    <3>3. d \in Seq(Engine!Times) /\ Len(d) = m /\ \A i \in 1..m: d[i] = dq[i]
      BY <3>1, <3>2
    <3> QED
      BY <3>3 DEF m
  <2>4. 1..Len(d) = (1..Len(dq)) \ {Len(dq)}
    BY <2>2, <2>3
  <2>5. \A k \in Engine!Times: Engine!Slots(d, k) = Engine!Slots(dq, k) \ {Len(dq)}
    BY <2>3, <2>4 DEF Engine!Slots
  <2>6. \A k \in Engine!Times: Len(dq) \in Engine!Slots(dq, k) <=> k = n
    BY <1>2, <2>2 DEF Engine!Slots
  <2>7. \A k \in Engine!Times: Cardinality(Engine!Slots(d, k)) =
            IF k = n THEN Cardinality(Engine!Slots(dq, k)) - 1 ELSE Cardinality(Engine!Slots(dq, k))
    <3> SUFFICES ASSUME NEW k \in Engine!Times
                 PROVE  Cardinality(Engine!Slots(d, k)) =
                    IF k = n THEN Cardinality(Engine!Slots(dq, k)) - 1 ELSE Cardinality(Engine!Slots(dq, k))
      OBVIOUS
    <3>1. IsFiniteSet(Engine!Slots(dq, k))
      BY SlotsAreFinite
    <3>2. Cardinality(Engine!Slots(dq, k) \ {Len(dq)}) = IF Len(dq) \in Engine!Slots(dq, k)
              THEN Cardinality(Engine!Slots(dq, k)) - 1 ELSE Cardinality(Engine!Slots(dq, k))
      BY <3>1, FS_RemoveElement
    <3> QED
      BY <2>5, <2>6, <3>2
  <2> QED
    BY <1>0, <2>2, <2>3, <2>7 DEF d
<1> QED
  BY <1>1, <1>2

Flies(t) == pc[t] \in {"update", "rollback"}

\* A thread heals what it may, at a time that is not yet to come.
HealsAreAllowed ==
    \A t \in Threads:
        /\ pc[t] # "idle" => svc[t] \in Watches[t] /\ svc[t] \in Services
        /\ at[t] <= now /\ (pc[t] = "reserve" => at[t] = now)
LandingsAreNumbered ==
    /\ IsFiniteSet(landed)
    /\ \A h \in landed: h.nth <= Cardinality(Engine!Landings({h.svc}, h.at))
\* Of every `now` in the window, a deque has a slot for each heal that landed or is still
\* under way.
Covered(S, dq) ==
    \A k \in Engine!Times: k >= now - Window =>
        Cardinality(Engine!Landings(S, k)) + Cardinality(Engine!InFlight(S, k))
            <= Cardinality(Engine!Slots(dq, k))
CapsAreCovered == (\A s \in Services: Covered({s}, heals[s])) /\ Covered(Services, global)
\* Nobody else has taken a slot after the heal under way of a service that one loop heals.
LastIsOwn ==
    \A t \in Threads: Flies(t) /\ svc[t] \in Engine!HealedByOne =>
        heals[svc[t]] # << >> /\ heals[svc[t]][Len(heals[svc[t]])] = at[t]
\* A promised cooldown is in force until it is over, and no heal was granted before.
PromisesAreKept ==
    /\ \A s \in Engine!HealedByOne: promised[s] = disabled[s] \/ promised[s] <= now
    /\ \A t \in Threads: pc[t] \notin {"idle", "reserve"} /\ svc[t] \in Engine!HealedByOne =>
           promised[svc[t]] <= at[t]

EngineInv ==
    /\ Engine!TypeOK /\ HealsAreAllowed /\ LandingsAreNumbered
    /\ Engine!NoSlotBurnt /\ LastIsOwn /\ PromisesAreKept

LEMMA InFlightIsFinite ==
    ASSUME Engine!AutohealAssumption, NEW S, NEW k
    PROVE  IsFiniteSet(Engine!InFlight(S, k)) /\ Cardinality(Engine!InFlight(S, k)) \in Nat
<1>1. IsFiniteSet(Threads) /\ Engine!InFlight(S, k) \in SUBSET Threads
  BY DEF Engine!AutohealAssumption, Engine!InFlight, Engine!IsFiniteSet, IsFiniteSet
<1> QED
  BY <1>1, FS_Subset, FS_CardinalityType

LEMMA LandingsAreFinite ==
    ASSUME LandingsAreNumbered, NEW S, NEW k
    PROVE  IsFiniteSet(Engine!Landings(S, k)) /\ Cardinality(Engine!Landings(S, k)) \in Nat
<1>1. IsFiniteSet(landed) /\ Engine!Landings(S, k) \in SUBSET landed
  BY DEF LandingsAreNumbered, Engine!Landings
<1> QED
  BY <1>1, FS_Subset, FS_CardinalityType

\* A service one loop heals is healed by one thread.
LEMMA OneHealer ==
    ASSUME Engine!AutohealAssumption, HealsAreAllowed, NEW t \in Threads, NEW u \in Threads,
           pc[t] # "idle", pc[u] # "idle", svc[u] = svc[t], svc[t] \in Engine!HealedByOne
    PROVE  u = t
<1> DEFINE healers == {v \in Threads: svc[t] \in Watches[v]}
<1>1. IsFiniteSet(healers) /\ Cardinality(healers) = 1
  <2>1. IsFiniteSet(Threads)
    BY DEF Engine!AutohealAssumption, Engine!IsFiniteSet, IsFiniteSet
  <2>2. Engine!Cardinality(healers) = 1
    BY DEF Engine!HealedByOne
  <2> QED
    BY <2>1, <2>2, FS_Subset, EngineCounts
<1>2. t \in healers /\ u \in healers
  BY DEF HealsAreAllowed
<1> HIDE DEF healers
<1> QED
  BY <1>1, <1>2, FS_Singleton

\* What a step of one thread does to the heals under way.
LEMMA FlightStep ==
    ASSUME Engine!AutohealAssumption, NEW t \in Threads, NEW S, NEW k,
           \A u \in Threads \ {t}: pc'[u] = pc[u] /\ svc'[u] = svc[u] /\ at'[u] = at[u]
    PROVE  LET before == Flies(t) /\ svc[t] \in S /\ at[t] = k
               after == Flies(t)' /\ svc'[t] \in S /\ at'[t] = k
           IN  Cardinality(Engine!InFlight(S, k)') = Cardinality(Engine!InFlight(S, k))
                   + (IF after THEN 1 ELSE 0) - (IF before THEN 1 ELSE 0)
<1> DEFINE before == Flies(t) /\ svc[t] \in S /\ at[t] = k
           after == Flies(t)' /\ svc'[t] \in S /\ at'[t] = k
           rest == Engine!InFlight(S, k) \ {t}
<1>1. Engine!InFlight(S, k)' = IF after THEN rest \cup {t} ELSE rest
  BY DEF Engine!InFlight, Flies
<1>2. before <=> t \in Engine!InFlight(S, k)
  BY DEF Engine!InFlight, Flies
<1>3. IsFiniteSet(rest) /\ Cardinality(rest) = IF before THEN Cardinality(Engine!InFlight(S, k)) - 1
                                               ELSE Cardinality(Engine!InFlight(S, k))
  BY <1>2, InFlightIsFinite, FS_RemoveElement
<1>4. Cardinality(rest \cup {t}) = Cardinality(rest) + 1
  BY <1>3, FS_AddElement
<1> HIDE DEF before, after
<1> QED
  BY <1>1, <1>3, <1>4, InFlightIsFinite DEF before, after

\* A window that covers what landed holds no more than its cap.
LEMMA CoveredIsCapped ==
    ASSUME Engine!AutohealAssumption, Engine!TypeOK, LandingsAreNumbered,
           NEW S, NEW dq \in Seq(Engine!Times), NEW max \in Nat, Len(dq) <= max, Covered(S, dq)
    PROVE  Cardinality(Engine!Recent(S)) <= max
<1> DEFINE low == now - Window
           Done(k) == {h \in Engine!Recent(S): h.at < k}
           Taken(k) == {i \in 1..Len(dq): dq[i] >= low /\ dq[i] < k}
           bad == {k \in Nat: k <= MaxTime + 1 /\ ~(Cardinality(Done(k)) <= Cardinality(Taken(k)))}
<1>0. /\ now \in Nat /\ now <= MaxTime /\ MaxTime \in Nat /\ low \in Int /\ Len(dq) \in Nat
      /\ landed \subseteq [svc: Services, at: Engine!Times, nth: Nat \ {0}]
  BY DEF Engine!TypeOK, Engine!Times, Engine!AutohealAssumption
<1>1. IsFiniteSet(Engine!Recent(S))
  <2>1. IsFiniteSet(landed) /\ Engine!Recent(S) \in SUBSET landed
    BY DEF LandingsAreNumbered, Engine!Recent
  <2> QED
    BY <2>1, FS_Subset
<1>2. \A k: IsFiniteSet(Done(k)) /\ Cardinality(Done(k)) \in Nat
  BY <1>1, FS_Subset, FS_CardinalityType
<1>3. IsFiniteSet(1..Len(dq)) /\ Cardinality(1..Len(dq)) <= max
  BY <1>0, FirstNumbers
<1>4. \A k: IsFiniteSet(Taken(k)) /\ Cardinality(Taken(k)) \in Nat /\ Cardinality(Taken(k)) <= max
  <2> SUFFICES ASSUME NEW k
               PROVE  IsFiniteSet(Taken(k)) /\ Cardinality(Taken(k)) \in Nat /\ Cardinality(Taken(k)) <= max
    OBVIOUS
  <2>1. Taken(k) \in SUBSET (1..Len(dq))
    OBVIOUS
  <2> HIDE DEF Taken
  <2>2. IsFiniteSet(Taken(k)) /\ Cardinality(Taken(k)) <= Cardinality(1..Len(dq))
    BY <1>3, <2>1, FS_Subset
  <2> QED
    BY <1>3, <2>2, FS_CardinalityType
<1>5. bad = {}
  <2> SUFFICES ASSUME bad # {}
               PROVE  FALSE
    OBVIOUS
  <2>1. bad \subseteq Nat
    OBVIOUS
  <2>2. PICK k \in bad: \A j \in bad: k <= j
    <3> HIDE DEF bad
    <3> QED
      BY <2>1, LeastElement
  <2>3. k # 0
    <3>1. Done(0) = {}
      BY <1>0 DEF Engine!Recent, Engine!Times
    <3>2. Cardinality(Done(0)) = 0
      BY <3>1, FS_EmptySet
    <3>3. Cardinality(Taken(0)) \in Nat
      BY <1>4
    <3> HIDE DEF Done, Taken
    <3> QED
      BY <3>2, <3>3
  <2> DEFINE m == k - 1
  <2>4. m \in Engine!Times /\ m + 1 = k /\ m \notin bad
    BY <1>0, <2>2, <2>3 DEF Engine!Times
  <2> HIDE DEF m
  <2>5. Cardinality(Done(m)) <= Cardinality(Taken(m))
    BY <1>0, <2>4 DEF Engine!Times
  <2>6. CASE m >= low /\ m <= now
    <3>1. Done(k) = Done(m) \cup Engine!Landings(S, m)
      BY <1>0, <2>4, <2>6 DEF Engine!Recent, Engine!Landings, Engine!Times
    <3>2. Taken(k) = Taken(m) \cup Engine!Slots(dq, m)
      <4>1. ASSUME NEW i \in 1..Len(dq)
            PROVE  dq[i] >= low /\ dq[i] < k <=> (dq[i] >= low /\ dq[i] < m) \/ dq[i] = m
        <5>1. dq[i] \in Int /\ m \in Int /\ low \in Int
          BY <1>0, <2>4 DEF Engine!Times
        <5> QED
          BY <2>4, <2>6, <5>1
      <4> QED
        BY <4>1 DEF Engine!Slots
    <3>3. Done(m) \cap Engine!Landings(S, m) = {} /\ Taken(m) \cap Engine!Slots(dq, m) = {}
      BY <1>0, <2>4 DEF Engine!Landings, Engine!Slots, Engine!Times
    <3>4. Cardinality(Engine!Landings(S, m)) <= Cardinality(Engine!Slots(dq, m))
      <4>1. Cardinality(Engine!Landings(S, m)) + Cardinality(Engine!InFlight(S, m))
               <= Cardinality(Engine!Slots(dq, m))
        BY <2>4, <2>6 DEF Covered
      <4> QED
        BY <4>1, LandingsAreFinite, InFlightIsFinite, SlotsAreFinite
    <3>5. /\ IsFiniteSet(Engine!Landings(S, m)) /\ Cardinality(Engine!Landings(S, m)) \in Nat
          /\ IsFiniteSet(Engine!Slots(dq, m)) /\ Cardinality(Engine!Slots(dq, m)) \in Nat
      BY LandingsAreFinite, SlotsAreFinite
    <3>6. /\ IsFiniteSet(Done(m)) /\ Cardinality(Done(m)) \in Nat
          /\ IsFiniteSet(Taken(m)) /\ Cardinality(Taken(m)) \in Nat
      BY <1>2, <1>4
    <3> HIDE DEF Done, Taken, bad
    <3>7. Cardinality(Done(k)) = Cardinality(Done(m)) + Cardinality(Engine!Landings(S, m)) - Cardinality({})
      BY <3>1, <3>3, <3>5, <3>6, FS_Union
    <3>8. Cardinality(Taken(k)) = Cardinality(Taken(m)) + Cardinality(Engine!Slots(dq, m)) - Cardinality({})
      BY <3>2, <3>3, <3>5, <3>6, FS_Union
    <3>9. Cardinality({}) = 0
      BY FS_EmptySet
    <3>10. Cardinality(Done(k)) <= Cardinality(Taken(k))
      BY <2>5, <3>4, <3>5, <3>6, <3>7, <3>8, <3>9
    <3> QED
      BY <2>2, <3>10 DEF bad
  <2>7. CASE ~(m >= low /\ m <= now)
    <3>1. Done(k) = Done(m)
      BY <1>0, <2>4, <2>7 DEF Engine!Recent, Engine!Times
    <3>2. Taken(m) \in SUBSET Taken(k)
      BY <1>0, <2>4 DEF Engine!Times
    <3>3. IsFiniteSet(Taken(k)) /\ Cardinality(Taken(k)) \in Nat /\ Cardinality(Taken(m)) \in Nat
          /\ Cardinality(Done(m)) \in Nat
      BY <1>2, <1>4
    <3> HIDE DEF Done, Taken, bad
    <3>4. Cardinality(Taken(m)) <= Cardinality(Taken(k))
      BY <3>2, <3>3, FS_Subset
    <3>5. Cardinality(Done(k)) <= Cardinality(Taken(k))
      BY <2>5, <3>1, <3>3, <3>4
    <3> QED
      BY <2>2, <3>5 DEF bad
  <2> QED
    BY <2>6, <2>7
<1>6. Done(MaxTime + 1) = Engine!Recent(S)
  BY <1>0 DEF Engine!Recent, Engine!Times
<1>7. Cardinality(Done(MaxTime + 1)) <= Cardinality(Taken(MaxTime + 1))
  <2>1. MaxTime + 1 \in Nat /\ MaxTime + 1 <= MaxTime + 1
    BY <1>0
  <2> HIDE DEF Done, Taken
  <2> QED
    BY <1>5, <2>1
<1>8. Cardinality(Taken(MaxTime + 1)) <= max /\ Cardinality(Taken(MaxTime + 1)) \in Nat
      /\ Cardinality(Done(MaxTime + 1)) \in Nat
  BY <1>2, <1>4
<1> HIDE DEF Done, Taken
<1> QED
  BY <1>6, <1>7, <1>8

LEMMA EngineInit ==
    ASSUME Engine!AutohealAssumption, Engine!Init
    PROVE  EngineInv /\ CapsAreCovered
<1> USE DEF Engine!AutohealAssumption, Engine!Init
<1>1. Engine!TypeOK
  BY DEF Engine!TypeOK, Engine!Times, Engine!Steps, Engine!NotDisabled
<1>2. HealsAreAllowed /\ LastIsOwn /\ PromisesAreKept
  BY DEF HealsAreAllowed, LastIsOwn, Flies, PromisesAreKept, Engine!HealedByOne
<1>3. LandingsAreNumbered
  BY FS_EmptySet DEF LandingsAreNumbered
<1>4. /\ \A S, k: Engine!Landings(S, k) = {} /\ Engine!InFlight(S, k) = {}
      /\ \A k: Engine!Slots(<< >>, k) = {}
  BY DEF Engine!Landings, Engine!InFlight, Engine!Slots
<1>5. Cardinality({}) = 0 /\ Engine!Cardinality({}) = 0
  BY FS_EmptySet, EngineCounts
<1>5a. global = << >> /\ \A s \in Services: heals[s] = << >>
  OBVIOUS
<1>5b. 0 <= 0 + 0 /\ 0 + 0 <= 0
  OBVIOUS
<1>6. Engine!NoSlotBurnt
  <2> SUFFICES ASSUME NEW s \in Services, NEW n \in Engine!Times
               PROVE  Engine!Cardinality(Engine!Slots(heals[s], n))
                        <= Engine!Cardinality(Engine!Landings({s}, n)) + Engine!Cardinality(Engine!InFlight({s}, n))
    BY DEF Engine!NoSlotBurnt, Engine!HealedByOne
  <2>1. Engine!Slots(heals[s], n) = {}
    BY <1>4, <1>5a
  <2> QED
    BY <1>4, <1>5, <1>5b, <2>1
<1>7. CapsAreCovered
  <2>1. ASSUME NEW S PROVE Covered(S, << >>)
    BY <1>4, <1>5, <1>5b DEF Covered
  <2> QED
    BY <1>5a, <2>1 DEF CapsAreCovered
<1> QED
  BY <1>1, <1>2, <1>3, <1>6, <1>7 DEF EngineInv

\* A step that neither lands a heal, nor touches a slot, nor starts or ends one.
LEMMA QuietStep ==
    ASSUME EngineInv, UNCHANGED <<heals, global, landed, now>>,
           \A t \in Threads: /\ Flies(t)' <=> Flies(t)
                             /\ Flies(t) => svc'[t] = svc[t] /\ at'[t] = at[t]
    PROVE  /\ LandingsAreNumbered' /\ Engine!NoSlotBurnt' /\ LastIsOwn'
           /\ CapsAreCovered => CapsAreCovered'
<1>1. \A S, k: Engine!InFlight(S, k)' = Engine!InFlight(S, k) /\ Engine!Landings(S, k)' = Engine!Landings(S, k)
  BY DEF Engine!InFlight, Engine!Landings, Flies
<1>2. LandingsAreNumbered' /\ LastIsOwn'
  BY <1>1 DEF EngineInv, LandingsAreNumbered, LastIsOwn, Engine!HealedByOne, Engine!Landings
<1>3. Engine!NoSlotBurnt'
  BY <1>1 DEF EngineInv, Engine!NoSlotBurnt, Engine!HealedByOne
<1>4. CapsAreCovered => CapsAreCovered'
  BY <1>1 DEF CapsAreCovered, Covered
<1> QED
  BY <1>2, <1>3, <1>4

LEMMA ReturnEffect ==
    ASSUME Engine!AutohealAssumption, Engine!TypeOK, NEW t \in Threads, Engine!Return(t)
    PROVE  /\ pc'[t] = "idle" /\ svc'[t] = "none" /\ at'[t] = 0
           /\ pc' \in [Threads -> Engine!Steps] /\ svc' \in [Threads -> Services \cup {"none"}]
           /\ at' \in [Threads -> Engine!Times]
           /\ \A u \in Threads \ {t}: pc'[u] = pc[u] /\ svc'[u] = svc[u] /\ at'[u] = at[u]
<1>1. 0 \in Engine!Times /\ "idle" \in Engine!Steps
  BY DEF Engine!AutohealAssumption, Engine!Times, Engine!Steps
<1> QED
  BY <1>1 DEF Engine!TypeOK, Engine!Return, Engine!Goto

\* A thread that is back, or goes on with its heal, heals what it may.
LEMMA AllowedStill ==
    ASSUME EngineInv, NEW t \in Threads, now' = now,
           \A u \in Threads \ {t}: pc'[u] = pc[u] /\ svc'[u] = svc[u] /\ at'[u] = at[u],
           \/ pc'[t] = "idle" /\ at'[t] = 0
           \/ pc[t] # "idle" /\ pc'[t] # "reserve" /\ svc'[t] = svc[t] /\ at'[t] = at[t]
    PROVE  HealsAreAllowed'
<1>1. now \in Nat
  BY DEF EngineInv, Engine!TypeOK, Engine!Times
<1> SUFFICES ASSUME NEW u \in Threads
             PROVE  /\ pc'[u] # "idle" => svc'[u] \in Watches[u] /\ svc'[u] \in Services
                    /\ at'[u] <= now /\ (pc'[u] = "reserve" => at'[u] = now)
  BY DEF HealsAreAllowed
<1>2. CASE u = t
  BY <1>1, <1>2 DEF EngineInv, HealsAreAllowed
<1>3. CASE u # t
  BY <1>3 DEF EngineInv, HealsAreAllowed
<1> QED
  BY <1>2, <1>3

LEMMA CallStep ==
    ASSUME Engine!AutohealAssumption, EngineInv, NEW t \in Threads, NEW s \in Services, Engine!Call(t, s)
    PROVE  EngineInv' /\ (CapsAreCovered => CapsAreCovered')
<1> USE DEF EngineInv
<1>1. /\ pc[t] = "idle" /\ s \in Watches[t]
      /\ svc' = [svc EXCEPT ![t] = s] /\ at' = [at EXCEPT ![t] = now]
      /\ pc' = [pc EXCEPT ![t] = "reserve"]
      /\ UNCHANGED <<heals, global, disabled, landed, promised, now>>
  BY DEF Engine!Call, Engine!Goto
<1>2. /\ pc'[t] = "reserve" /\ svc'[t] = s /\ at'[t] = now
      /\ \A u \in Threads \ {t}: pc'[u] = pc[u] /\ svc'[u] = svc[u] /\ at'[u] = at[u]
  BY <1>1 DEF Engine!TypeOK
<1>3. Engine!TypeOK'
  BY <1>1 DEF Engine!TypeOK, Engine!Steps
<1>4. HealsAreAllowed'
  BY <1>1, <1>2 DEF HealsAreAllowed, Engine!TypeOK, Engine!Times
<1>5. PromisesAreKept'
  BY <1>1, <1>2 DEF PromisesAreKept, Engine!HealedByOne
<1>6. LandingsAreNumbered' /\ Engine!NoSlotBurnt' /\ LastIsOwn' /\ (CapsAreCovered => CapsAreCovered')
  BY <1>1, <1>2, QuietStep DEF Flies
<1> QED
  BY <1>3, <1>4, <1>5, <1>6

LEMMA RejectStep ==
    ASSUME Engine!AutohealAssumption, EngineInv, NEW t \in Threads, Engine!RejectDisabled(t)
    PROVE  EngineInv' /\ (CapsAreCovered => CapsAreCovered')
<1> USE DEF EngineInv
<1>1. /\ pc[t] = "reserve" /\ Engine!Return(t)
      /\ UNCHANGED <<heals, global, disabled, landed, promised, now>>
  BY DEF Engine!RejectDisabled
<1>2. /\ pc'[t] = "idle" /\ svc'[t] = "none" /\ at'[t] = 0
      /\ pc' \in [Threads -> Engine!Steps] /\ svc' \in [Threads -> Services \cup {"none"}]
      /\ at' \in [Threads -> Engine!Times]
      /\ \A u \in Threads \ {t}: pc'[u] = pc[u] /\ svc'[u] = svc[u] /\ at'[u] = at[u]
  BY <1>1, ReturnEffect
<1>3. Engine!TypeOK'
  BY <1>1, <1>2 DEF Engine!TypeOK
<1>4. HealsAreAllowed'
  BY <1>1, <1>2, AllowedStill
<1>5. PromisesAreKept'
  BY <1>1, <1>2 DEF PromisesAreKept, Engine!HealedByOne
<1>6. LandingsAreNumbered' /\ Engine!NoSlotBurnt' /\ LastIsOwn' /\ (CapsAreCovered => CapsAreCovered')
  BY <1>1, <1>2, QuietStep DEF Flies
<1> QED
  BY <1>3, <1>4, <1>5, <1>6

LEMMA VerifyStep ==
    ASSUME Engine!AutohealAssumption, EngineInv, NEW t \in Threads, Engine!Verify(t)
    PROVE  EngineInv' /\ (CapsAreCovered => CapsAreCovered')
<1> USE DEF EngineInv
<1>1. /\ pc[t] = "verify" /\ UNCHANGED <<heals, global, disabled, landed, promised, now>>
  BY DEF Engine!Verify
<1>2. /\ pc' \in [Threads -> Engine!Steps] /\ svc' \in [Threads -> Services \cup {"none"}]
      /\ at' \in [Threads -> Engine!Times]
      /\ \A u \in Threads \ {t}: pc'[u] = pc[u] /\ svc'[u] = svc[u] /\ at'[u] = at[u]
      /\ \/ pc'[t] = "idle" /\ at'[t] = 0
         \/ pc'[t] = "disable" /\ svc'[t] = svc[t] /\ at'[t] = at[t]
  <2>1. CASE Engine!Return(t)
    BY <2>1, ReturnEffect
  <2>2. CASE Engine!Goto(t, "disable") /\ UNCHANGED <<svc, at>>
    BY <2>2 DEF Engine!Goto, Engine!TypeOK, Engine!Steps
  <2> QED
    BY <2>1, <2>2 DEF Engine!Verify
<1>3. Engine!TypeOK'
  BY <1>1, <1>2 DEF Engine!TypeOK
<1>4. HealsAreAllowed'
  BY <1>1, <1>2, AllowedStill
<1>5. PromisesAreKept'
  BY <1>1, <1>2 DEF PromisesAreKept, Engine!HealedByOne
<1>6. LandingsAreNumbered' /\ Engine!NoSlotBurnt' /\ LastIsOwn' /\ (CapsAreCovered => CapsAreCovered')
  BY <1>1, <1>2, QuietStep DEF Flies
<1> QED
  BY <1>3, <1>4, <1>5, <1>6

LEMMA DisableStep ==
    ASSUME Engine!AutohealAssumption, EngineInv, NEW t \in Threads, Engine!Disable(t)
    PROVE  EngineInv' /\ (CapsAreCovered => CapsAreCovered')
<1> USE DEF EngineInv
<1>0. PICK s \in Services: svc[t] = s
  BY DEF Engine!Disable, HealsAreAllowed
<1>1. /\ pc[t] = "disable" /\ Engine!Return(t) /\ UNCHANGED <<heals, global, landed, now>>
      /\ disabled' = [disabled EXCEPT ![s] = at[t] + Window]
      /\ promised' = [promised EXCEPT ![s] = Engine!Later(@, at[t] + Window)]
  BY <1>0 DEF Engine!Disable, Engine!Deadline
<1>2. /\ pc'[t] = "idle" /\ svc'[t] = "none" /\ at'[t] = 0
      /\ pc' \in [Threads -> Engine!Steps] /\ svc' \in [Threads -> Services \cup {"none"}]
      /\ at' \in [Threads -> Engine!Times]
      /\ \A u \in Threads \ {t}: pc'[u] = pc[u] /\ svc'[u] = svc[u] /\ at'[u] = at[u]
  BY <1>1, ReturnEffect
<1>3. at[t] \in Nat /\ Window \in Nat /\ promised[s] \in Nat
  BY <1>0 DEF Engine!TypeOK, Engine!Times, Engine!AutohealAssumption
<1>4. /\ disabled'[s] = at[t] + Window /\ promised'[s] = Engine!Later(promised[s], at[t] + Window)
      /\ \A r \in Services: r # s => disabled'[r] = disabled[r] /\ promised'[r] = promised[r]
  BY <1>1 DEF Engine!TypeOK
<1>5. Engine!TypeOK'
  <2>1. disabled' \in [Services -> Nat \cup {Engine!NotDisabled}] /\ promised' \in [Services -> Nat]
    BY <1>1, <1>3 DEF Engine!TypeOK, Engine!Later
  <2> QED
    BY <1>1, <1>2, <2>1 DEF Engine!TypeOK
<1>6. HealsAreAllowed'
  BY <1>1, <1>2, AllowedStill
<1>7. PromisesAreKept'
  <2>1. s \in Engine!HealedByOne => promised'[s] = disabled'[s]
    <3>1. s \in Engine!HealedByOne => promised[s] <= at[t]
      BY <1>0, <1>1 DEF PromisesAreKept
    <3> QED
      BY <1>3, <1>4, <3>1 DEF Engine!Later
  <2>2. ASSUME NEW u \in Threads, pc'[u] \notin {"idle", "reserve"}, svc'[u] \in Engine!HealedByOne
        PROVE  promised'[svc'[u]] <= at'[u]
    <3>1. u # t /\ svc'[u] = svc[u] /\ pc[u] \notin {"idle", "reserve"} /\ at'[u] = at[u]
      BY <1>2, <2>2
    <3>2. svc[u] # s /\ svc[u] \in Services
      BY <1>0, <1>1, <2>2, <3>1, OneHealer DEF HealsAreAllowed
    <3> QED
      BY <1>4, <2>2, <3>1, <3>2 DEF PromisesAreKept
  <2>3. \A r \in Engine!HealedByOne: r \in Services
    BY DEF Engine!HealedByOne
  <2> QED
    BY <1>1, <1>4, <2>1, <2>2, <2>3 DEF PromisesAreKept, Engine!HealedByOne
<1>8. LandingsAreNumbered' /\ Engine!NoSlotBurnt' /\ LastIsOwn' /\ (CapsAreCovered => CapsAreCovered')
  BY <1>1, <1>2, QuietStep DEF Flies
<1> QED
  BY <1>5, <1>6, <1>7, <1>8

LEMMA EngineTick ==
    ASSUME Engine!AutohealAssumption, EngineInv, Engine!Tick
    PROVE  EngineInv' /\ (CapsAreCovered => CapsAreCovered')
<1> USE DEF EngineInv
<1>1. /\ now < MaxTime /\ now' = now + 1 /\ \A t \in Threads: pc[t] # "reserve"
      /\ UNCHANGED <<heals, global, disabled, pc, svc, at, landed, promised>>
  BY DEF Engine!Tick
<1>2. now \in Nat /\ now' \in Engine!Times /\ MaxTime \in Nat /\ Window \in Nat
  BY <1>1 DEF Engine!TypeOK, Engine!Times, Engine!AutohealAssumption
<1>3. Engine!TypeOK'
  BY <1>1, <1>2 DEF Engine!TypeOK
<1>4. HealsAreAllowed'
  BY <1>1, <1>2 DEF HealsAreAllowed, Engine!TypeOK, Engine!Times
<1>5. PromisesAreKept'
  <2>1. \A s \in Engine!HealedByOne: promised[s] \in Nat
    BY DEF Engine!TypeOK, Engine!HealedByOne
  <2> QED
    BY <1>1, <1>2, <2>1 DEF PromisesAreKept, Engine!HealedByOne
<1>6. \A S, k: Engine!InFlight(S, k)' = Engine!InFlight(S, k) /\ Engine!Landings(S, k)' = Engine!Landings(S, k)
  BY <1>1 DEF Engine!InFlight, Engine!Landings
<1>7. LandingsAreNumbered' /\ LastIsOwn' /\ Engine!NoSlotBurnt'
  BY <1>1, <1>6 DEF LandingsAreNumbered, Engine!Landings, LastIsOwn, Flies, Engine!NoSlotBurnt, Engine!HealedByOne
<1>8. CapsAreCovered => CapsAreCovered'
  <2>1. \A k \in Engine!Times: k >= now' - Window => k >= now - Window
    BY <1>1, <1>2 DEF Engine!Times
  <2> QED
    BY <1>1, <1>6, <2>1 DEF CapsAreCovered, Covered
<1> QED
  BY <1>3, <1>4, <1>5, <1>7, <1>8

\* NoSlotBurnt with the library's cardinality.
LEMMA Unburnt ==
    Engine!NoSlotBurnt <=>
        \A s \in Engine!HealedByOne, n \in Engine!Times:
            Cardinality(Engine!Slots(heals[s], n))
                <= Cardinality(Engine!Landings({s}, n)) + Cardinality(Engine!InFlight({s}, n))
BY EngineCounts DEF Engine!NoSlotBurnt

\* A heal that lands is one more of its service and time.
LEMMA LandEffect ==
    ASSUME EngineInv, NEW s \in Services, NEW n \in Engine!Times,
           landed' = landed \cup
               {[svc |-> s, at |-> n, nth |-> Engine!Cardinality(Engine!Landings({s}, n)) + 1]}
    PROVE  /\ landed' \subseteq [svc: Services, at: Engine!Times, nth: Nat \ {0}] /\ LandingsAreNumbered'
           /\ \A S, k: Cardinality(Engine!Landings(S, k)') =
                 IF s \in S /\ k = n THEN Cardinality(Engine!Landings(S, k)) + 1
                 ELSE Cardinality(Engine!Landings(S, k))
<1> USE DEF EngineInv
<1> DEFINE last == Cardinality(Engine!Landings({s}, n)) + 1
           h == [svc |-> s, at |-> n, nth |-> last]
<1>1. IsFiniteSet(landed) /\ last \in Nat \ {0}
  BY LandingsAreFinite DEF LandingsAreNumbered
<1>2. landed' = landed \cup {h}
  BY EngineCounts
<1>3. h \in [svc: Services, at: Engine!Times, nth: Nat \ {0}] /\ h.svc = s /\ h.at = n /\ h.nth = last
  BY <1>1
<1>4. h \notin landed
  <2> SUFFICES ASSUME h \in landed
               PROVE  FALSE
    OBVIOUS
  <2>1. h.nth <= Cardinality(Engine!Landings({h.svc}, h.at))
    BY DEF LandingsAreNumbered
  <2> HIDE DEF h
  <2>2. last <= Cardinality(Engine!Landings({s}, n))
    BY <1>3, <2>1
  <2> QED
    BY <1>1, <2>2, LandingsAreFinite
<1> HIDE DEF h
<1>5. ASSUME NEW S, NEW k
      PROVE  Cardinality(Engine!Landings(S, k)') =
                 IF s \in S /\ k = n THEN Cardinality(Engine!Landings(S, k)) + 1
                 ELSE Cardinality(Engine!Landings(S, k))
  <2>1. Engine!Landings(S, k)' = IF s \in S /\ k = n THEN Engine!Landings(S, k) \cup {h}
                                 ELSE Engine!Landings(S, k)
    BY <1>2, <1>3 DEF Engine!Landings
  <2>2. h \notin Engine!Landings(S, k) /\ IsFiniteSet(Engine!Landings(S, k))
    BY <1>4, LandingsAreFinite DEF Engine!Landings
  <2> QED
    BY <2>1, <2>2, FS_AddElement
<1>6. IsFiniteSet(landed')
  <2>1. IsFiniteSet(landed \cup {h})
    BY <1>1, FS_AddElement
  <2> QED
    BY <1>2, <2>1
<1>7. ASSUME NEW g \in landed'
      PROVE  g.nth <= Cardinality(Engine!Landings({g.svc}, g.at)')
  <2>1. PICK r, k: r = g.svc /\ k = g.at
    OBVIOUS
  <2>2. CASE g = h
    <3>1. Cardinality(Engine!Landings({s}, n)') = Cardinality(Engine!Landings({s}, n)) + 1
      BY <1>5
    <3> QED
      BY <1>1, <1>3, <2>2, <3>1, LandingsAreFinite
  <2>3. CASE g \in landed
    <3>1. g.nth <= Cardinality(Engine!Landings({g.svc}, g.at)) /\ g.nth \in Nat
      BY <2>3 DEF LandingsAreNumbered, Engine!TypeOK
    <3>2. Cardinality(Engine!Landings({r}, k)) \in Nat
      BY LandingsAreFinite
    <3>3. Cardinality(Engine!Landings({r}, k)') >= Cardinality(Engine!Landings({r}, k))
      BY <1>5, <3>2
    <3>4. g.nth <= Cardinality(Engine!Landings({r}, k)')
      BY <1>5, <2>1, <3>1, <3>2, <3>3
    <3> QED
      BY <2>1, <3>4
  <2> QED
    BY <1>2, <2>2, <2>3
<1>8. LandingsAreNumbered'
  BY <1>6, <1>7 DEF LandingsAreNumbered
<1> QED
  BY <1>2, <1>3, <1>5, <1>8 DEF Engine!TypeOK

LEMMA UpdateStep ==
    ASSUME Engine!AutohealAssumption, EngineInv, NEW t \in Threads, Engine!ForceUpdate(t)
    PROVE  EngineInv' /\ ("lost_reply" \notin HealFaults /\ CapsAreCovered => CapsAreCovered')
<1> USE DEF EngineInv
<1>0. PICK s \in Services, n \in Engine!Times: svc[t] = s /\ at[t] = n /\ pc[t] = "update"
  BY DEF Engine!ForceUpdate, HealsAreAllowed, Engine!TypeOK
<1>1. UNCHANGED <<heals, global, disabled, svc, at, promised, now>>
  BY DEF Engine!ForceUpdate
<1>2. PICK landing \in BOOLEAN, next \in {"verify", "rollback"}:
          /\ pc' = [pc EXCEPT ![t] = next]
          /\ landed' = IF landing THEN landed \cup {[svc |-> s, at |-> n,
                           nth |-> Engine!Cardinality(Engine!Landings({s}, n)) + 1]} ELSE landed
          /\ next = "verify" => landing
          /\ landing /\ next = "rollback" => "lost_reply" \in HealFaults
  <2>1. CASE Engine!Landed(t) /\ Engine!Goto(t, "verify")
    BY <1>0, <2>1 DEF Engine!Landed, Engine!Goto
  <2>2. CASE UNCHANGED landed /\ Engine!Goto(t, "rollback")
    BY <1>0, <2>2 DEF Engine!Goto
  <2>3. CASE "lost_reply" \in HealFaults /\ Engine!Landed(t) /\ Engine!Goto(t, "rollback")
    BY <1>0, <2>3 DEF Engine!Landed, Engine!Goto
  <2> QED
    BY <2>1, <2>2, <2>3 DEF Engine!ForceUpdate
<1>3. /\ pc'[t] = next /\ \A u \in Threads \ {t}: pc'[u] = pc[u]
      /\ pc' \in [Threads -> Engine!Steps]
  BY <1>2 DEF Engine!TypeOK, Engine!Steps
<1>4. /\ landed' \subseteq [svc: Services, at: Engine!Times, nth: Nat \ {0}] /\ LandingsAreNumbered'
      /\ \A S, k: Cardinality(Engine!Landings(S, k)') =
            IF landing /\ s \in S /\ k = n THEN Cardinality(Engine!Landings(S, k)) + 1
            ELSE Cardinality(Engine!Landings(S, k))
  <2>1. CASE landing
    <3>1. landed' = landed \cup {[svc |-> s, at |-> n, nth |-> Engine!Cardinality(Engine!Landings({s}, n)) + 1]}
      BY <1>2, <2>1
    <3> HIDE DEF EngineInv
    <3>2. /\ landed' \subseteq [svc: Services, at: Engine!Times, nth: Nat \ {0}] /\ LandingsAreNumbered'
          /\ \A S, k: Cardinality(Engine!Landings(S, k)') =
                IF s \in S /\ k = n THEN Cardinality(Engine!Landings(S, k)) + 1
                ELSE Cardinality(Engine!Landings(S, k))
      <4>1. LandingsAreNumbered'
        BY <3>1, LandEffect
      <4>2. landed' \subseteq [svc: Services, at: Engine!Times, nth: Nat \ {0}]
        BY <3>1, LandEffect
      <4>3. ASSUME NEW S, NEW k
            PROVE  Cardinality(Engine!Landings(S, k)') =
                     IF s \in S /\ k = n THEN Cardinality(Engine!Landings(S, k)) + 1
                     ELSE Cardinality(Engine!Landings(S, k))
        BY <3>1, LandEffect
      <4> QED
        BY <4>1, <4>2, <4>3
    <3> QED
      BY <2>1, <3>2
  <2>2. CASE ~landing
    BY <1>2, <2>2 DEF Engine!TypeOK, LandingsAreNumbered, Engine!Landings
  <2> QED
    BY <2>1, <2>2
<1>5. \A S, k: Cardinality(Engine!InFlight(S, k)') =
          IF next = "verify" /\ s \in S /\ k = n THEN Cardinality(Engine!InFlight(S, k)) - 1
          ELSE Cardinality(Engine!InFlight(S, k))
  <2> SUFFICES ASSUME NEW S, NEW k
               PROVE  Cardinality(Engine!InFlight(S, k)') =
                        IF next = "verify" /\ s \in S /\ k = n THEN Cardinality(Engine!InFlight(S, k)) - 1
                        ELSE Cardinality(Engine!InFlight(S, k))
    OBVIOUS
  <2>1. LET before == Flies(t) /\ svc[t] \in S /\ at[t] = k
            after == Flies(t)' /\ svc'[t] \in S /\ at'[t] = k
        IN  Cardinality(Engine!InFlight(S, k)') = Cardinality(Engine!InFlight(S, k))
                   + (IF after THEN 1 ELSE 0) - (IF before THEN 1 ELSE 0)
    BY <1>1, <1>3, FlightStep
  <2>2. (Flies(t) /\ svc[t] \in S /\ at[t] = k) <=> (s \in S /\ k = n)
    BY <1>0 DEF Flies
  <2>3. (Flies(t)' /\ svc'[t] \in S /\ at'[t] = k) <=> (next = "rollback" /\ s \in S /\ k = n)
    BY <1>0, <1>1, <1>3 DEF Flies
  <2>4. Cardinality(Engine!InFlight(S, k)) \in Nat
    BY InFlightIsFinite
  <2> QED
    BY <2>1, <2>2, <2>3, <2>4
<1>6. Engine!TypeOK' /\ HealsAreAllowed'
  BY <1>0, <1>1, <1>3, <1>4, AllowedStill DEF Engine!TypeOK
<1>7. PromisesAreKept'
  BY <1>0, <1>1, <1>3 DEF PromisesAreKept, Engine!HealedByOne
<1>8. LastIsOwn'
  BY <1>0, <1>1, <1>3 DEF LastIsOwn, Flies, Engine!HealedByOne
<1>9. Engine!NoSlotBurnt'
  <2> SUFFICES ASSUME NEW r \in Engine!HealedByOne, NEW k \in Engine!Times
               PROVE  Cardinality(Engine!Slots(heals[r], k)) <=
                        Cardinality(Engine!Landings({r}, k)') + Cardinality(Engine!InFlight({r}, k)')
    BY <1>1, EngineCounts DEF Engine!NoSlotBurnt, Engine!HealedByOne
  <2>1. Cardinality(Engine!Slots(heals[r], k))
            <= Cardinality(Engine!Landings({r}, k)) + Cardinality(Engine!InFlight({r}, k))
    BY Unburnt
  <2>2. Cardinality(Engine!Landings({r}, k)) \in Nat /\ Cardinality(Engine!InFlight({r}, k)) \in Nat
        /\ Cardinality(Engine!Slots(heals[r], k)) \in Nat
    BY LandingsAreFinite, InFlightIsFinite, SlotsAreFinite DEF Engine!TypeOK, Engine!HealedByOne
  <2> QED
    BY <1>2, <1>4, <1>5, <2>1, <2>2
<1>10. ASSUME "lost_reply" \notin HealFaults, NEW S, NEW dq \in Seq(Engine!Times), Covered(S, dq)
       PROVE  Covered(S, dq)'
  <2> SUFFICES ASSUME NEW k \in Engine!Times, k >= now - Window
               PROVE  Cardinality(Engine!Landings(S, k)') + Cardinality(Engine!InFlight(S, k)')
                        <= Cardinality(Engine!Slots(dq, k))
    BY <1>1 DEF Covered
  <2>1. Cardinality(Engine!Landings(S, k)) + Cardinality(Engine!InFlight(S, k))
            <= Cardinality(Engine!Slots(dq, k))
    BY <1>10 DEF Covered
  <2>2. Cardinality(Engine!Landings(S, k)) \in Nat /\ Cardinality(Engine!InFlight(S, k)) \in Nat
        /\ Cardinality(Engine!Slots(dq, k)) \in Nat
    BY LandingsAreFinite, InFlightIsFinite, SlotsAreFinite
  <2> QED
    BY <1>2, <1>4, <1>5, <1>10, <2>1, <2>2
<1>11. "lost_reply" \notin HealFaults /\ CapsAreCovered => CapsAreCovered'
  <2>1. global \in Seq(Engine!Times) /\ \A r \in Services: heals[r] \in Seq(Engine!Times)
    BY DEF Engine!TypeOK
  <2>2. PICK g, H: g = global /\ H = heals
    OBVIOUS
  <2> QED
    BY <1>1, <1>10, <2>1, <2>2 DEF CapsAreCovered, Covered
<1> QED
  BY <1>4, <1>6, <1>7, <1>8, <1>9, <1>11

LEMMA RollbackStep ==
    ASSUME Engine!AutohealAssumption, EngineInv, NEW t \in Threads, Engine!Rollback(t)
    PROVE  EngineInv' /\ (CapsAreCovered => CapsAreCovered')
<1> USE DEF EngineInv
<1>0. PICK s \in Services, n \in Engine!Times: svc[t] = s /\ at[t] = n /\ pc[t] = "rollback"
  BY DEF Engine!Rollback, HealsAreAllowed, Engine!TypeOK
<1>1. /\ heals' = [heals EXCEPT ![s] = Engine!Unwind(@, n)] /\ global' = Engine!Unwind(global, n)
      /\ Engine!Return(t) /\ UNCHANGED <<disabled, landed, promised, now>>
  BY <1>0 DEF Engine!Rollback
<1>2. /\ pc'[t] = "idle" /\ svc'[t] = "none" /\ at'[t] = 0
      /\ pc' \in [Threads -> Engine!Steps] /\ svc' \in [Threads -> Services \cup {"none"}]
      /\ at' \in [Threads -> Engine!Times]
      /\ \A u \in Threads \ {t}: pc'[u] = pc[u] /\ svc'[u] = svc[u] /\ at'[u] = at[u]
  BY <1>1, ReturnEffect
<1>3. heals[s] \in Seq(Engine!Times) /\ global \in Seq(Engine!Times)
  BY DEF Engine!TypeOK
<1>4. heals'[s] = Engine!Unwind(heals[s], n) /\ \A r \in Services: r # s => heals'[r] = heals[r]
  BY <1>1 DEF Engine!TypeOK
<1>5. Engine!TypeOK' /\ HealsAreAllowed'
  <2>1. /\ Engine!Unwind(heals[s], n) \in Seq(Engine!Times) /\ Len(Engine!Unwind(heals[s], n)) <= Len(heals[s])
        /\ Engine!Unwind(global, n) \in Seq(Engine!Times) /\ Len(Engine!Unwind(global, n)) <= Len(global)
    BY <1>3, UnwindEffect
  <2>2. heals' \in [Services -> Seq(Engine!Times)]
    BY <1>1, <2>1 DEF Engine!TypeOK
  <2>3. \A r \in Services: Len(heals'[r]) <= MaxPerHour
    <3>1. \A r \in Services: Len(heals[r]) <= MaxPerHour /\ Len(heals[r]) \in Nat
      BY DEF Engine!TypeOK
    <3>2. Len(heals'[s]) <= Len(heals[s]) /\ Len(heals'[s]) \in Nat /\ MaxPerHour \in Nat
      BY <1>4, <2>1, <2>2 DEF Engine!AutohealAssumption
    <3> QED
      BY <1>4, <3>1, <3>2
  <2>4. global' \in Seq(Engine!Times) /\ Len(global') <= MaxGlobalPerHour
    BY <1>1, <1>3, <2>1 DEF Engine!TypeOK, Engine!AutohealAssumption
  <2>5. Engine!TypeOK'
    BY <1>1, <1>2, <2>2, <2>3, <2>4 DEF Engine!TypeOK
  <2> QED
    BY <1>1, <1>2, <2>5, AllowedStill
<1>6. PromisesAreKept'
  BY <1>1, <1>2 DEF PromisesAreKept, Engine!HealedByOne
<1>7. LandingsAreNumbered' /\ \A S, k: Engine!Landings(S, k)' = Engine!Landings(S, k)
  BY <1>1 DEF LandingsAreNumbered, Engine!Landings
<1>8. \A S, k: Cardinality(Engine!InFlight(S, k)') =
          IF s \in S /\ k = n THEN Cardinality(Engine!InFlight(S, k)) - 1
          ELSE Cardinality(Engine!InFlight(S, k))
  <2> SUFFICES ASSUME NEW S, NEW k
               PROVE  Cardinality(Engine!InFlight(S, k)') =
                        IF s \in S /\ k = n THEN Cardinality(Engine!InFlight(S, k)) - 1
                        ELSE Cardinality(Engine!InFlight(S, k))
    OBVIOUS
  <2>1. LET before == Flies(t) /\ svc[t] \in S /\ at[t] = k
            after == Flies(t)' /\ svc'[t] \in S /\ at'[t] = k
        IN  Cardinality(Engine!InFlight(S, k)') = Cardinality(Engine!InFlight(S, k))
                   + (IF after THEN 1 ELSE 0) - (IF before THEN 1 ELSE 0)
    BY <1>2, FlightStep
  <2>2. (Flies(t) /\ svc[t] \in S /\ at[t] = k) <=> (s \in S /\ k = n)
    BY <1>0 DEF Flies
  <2>3. ~Flies(t)'
    BY <1>2 DEF Flies
  <2>4. Cardinality(Engine!InFlight(S, k)) \in Nat
    BY InFlightIsFinite
  <2> QED
    BY <2>1, <2>2, <2>3, <2>4
<1>9. LastIsOwn'
  <2> SUFFICES ASSUME NEW u \in Threads, Flies(u)', svc'[u] \in Engine!HealedByOne
               PROVE  heals'[svc'[u]] # << >> /\ heals'[svc'[u]][Len(heals'[svc'[u]])] = at'[u]
    BY DEF LastIsOwn, Engine!HealedByOne
  <2>1. u # t
    BY <1>2 DEF Flies
  <2>2. svc'[u] = svc[u] /\ at'[u] = at[u] /\ Flies(u) /\ pc[u] # "idle"
    BY <1>2, <2>1 DEF Flies
  <2>3. svc[u] # s /\ svc[u] \in Services
    BY <1>0, <2>1, <2>2, OneHealer DEF HealsAreAllowed
  <2> QED
    BY <1>4, <2>2, <2>3 DEF LastIsOwn
<1>10. Engine!NoSlotBurnt'
  <2> SUFFICES ASSUME NEW r \in Engine!HealedByOne, NEW k \in Engine!Times
               PROVE  Cardinality(Engine!Slots(heals'[r], k)) <=
                        Cardinality(Engine!Landings({r}, k)) + Cardinality(Engine!InFlight({r}, k)')
    BY <1>7, EngineCounts DEF Engine!NoSlotBurnt, Engine!HealedByOne
  <2>0. r \in Services
    BY DEF Engine!HealedByOne
  <2>1. Cardinality(Engine!Slots(heals[r], k))
            <= Cardinality(Engine!Landings({r}, k)) + Cardinality(Engine!InFlight({r}, k))
    BY Unburnt
  <2>2. Cardinality(Engine!Landings({r}, k)) \in Nat /\ Cardinality(Engine!InFlight({r}, k)) \in Nat
        /\ Cardinality(Engine!Slots(heals[r], k)) \in Nat /\ Cardinality(Engine!Slots(heals'[r], k)) \in Nat
    BY <1>5, <2>0, LandingsAreFinite, InFlightIsFinite, SlotsAreFinite DEF Engine!TypeOK
  <2>3. CASE r # s
    BY <1>4, <1>8, <2>0, <2>1, <2>3
  <2>4. CASE r = s /\ k # n
    <3>1. Cardinality(Engine!Slots(heals'[r], k)) = Cardinality(Engine!Slots(heals[r], k))
      <4>1. Cardinality(Engine!Slots(Engine!Unwind(heals[s], n), k)) = Cardinality(Engine!Slots(heals[s], k))
        BY <1>3, <2>4, UnwindEffect
      <4> QED
        BY <1>4, <2>4, <4>1
    <3> QED
      BY <1>8, <2>1, <2>4, <3>1
  <2>5. CASE r = s /\ k = n
    <3>1. heals[s] # << >> /\ heals[s][Len(heals[s])] = n
      BY <1>0, <2>5 DEF LastIsOwn, Flies
    <3>2. Cardinality(Engine!Slots(heals'[r], k)) = Cardinality(Engine!Slots(heals[r], k)) - 1
      <4>1. Cardinality(Engine!Slots(Engine!Unwind(heals[s], n), n)) = Cardinality(Engine!Slots(heals[s], n)) - 1
        BY <1>3, <3>1, UnwindEffect
      <4> QED
        BY <1>4, <2>5, <4>1
    <3>3. Cardinality(Engine!InFlight({r}, k)') = Cardinality(Engine!InFlight({r}, k)) - 1
      BY <1>8, <2>5
    <3> QED
      BY <2>1, <2>2, <3>2, <3>3
  <2> QED
    BY <2>3, <2>4, <2>5
<1>11. ASSUME NEW S, NEW dq \in Seq(Engine!Times), Covered(S, dq), s \in S
       PROVE  Covered(S, Engine!Unwind(dq, n))'
  <2> DEFINE d == Engine!Unwind(dq, n)
  <2> SUFFICES ASSUME NEW k \in Engine!Times, k >= now - Window
               PROVE  Cardinality(Engine!Landings(S, k)) + Cardinality(Engine!InFlight(S, k)')
                        <= Cardinality(Engine!Slots(d, k))
    BY <1>1, <1>7 DEF Covered
  <2>1. Cardinality(Engine!Landings(S, k)) + Cardinality(Engine!InFlight(S, k))
            <= Cardinality(Engine!Slots(dq, k))
    BY <1>11 DEF Covered
  <2>2. d \in Seq(Engine!Times)
    BY UnwindEffect
  <2>3. /\ k # n => Cardinality(Engine!Slots(d, k)) = Cardinality(Engine!Slots(dq, k))
        /\ Cardinality(Engine!Slots(d, k)) >= Cardinality(Engine!Slots(dq, k)) - 1
    BY UnwindEffect
  <2> HIDE DEF d
  <2>4. Cardinality(Engine!Landings(S, k)) \in Nat /\ Cardinality(Engine!InFlight(S, k)) \in Nat
        /\ Cardinality(Engine!Slots(dq, k)) \in Nat /\ Cardinality(Engine!Slots(d, k)) \in Nat
    BY <2>2, LandingsAreFinite, InFlightIsFinite, SlotsAreFinite
  <2>5. CASE k = n
    <3>1. Cardinality(Engine!InFlight(S, k)') = Cardinality(Engine!InFlight(S, k)) - 1
      BY <1>8, <1>11, <2>5
    <3> QED
      BY <2>1, <2>3, <2>4, <3>1
  <2>6. CASE k # n
    <3>1. Cardinality(Engine!InFlight(S, k)') = Cardinality(Engine!InFlight(S, k))
      BY <1>8, <2>6
    <3> QED
      BY <2>1, <2>3, <2>6, <3>1
  <2> QED
    BY <2>5, <2>6
<1>12. ASSUME NEW r \in Services, r # s, NEW dq, Covered({r}, dq)
       PROVE  Covered({r}, dq)'
  BY <1>1, <1>7, <1>8, <1>12 DEF Covered
<1>13. CapsAreCovered => CapsAreCovered'
  <2> SUFFICES ASSUME CapsAreCovered
               PROVE  CapsAreCovered'
    OBVIOUS
  <2>1. PICK g, H: g = global /\ H = heals
    OBVIOUS
  <2>2. Covered(Services, g) /\ \A r \in Services: Covered({r}, H[r])
    BY <2>1 DEF CapsAreCovered
  <2>3. Covered(Services, Engine!Unwind(g, n))' /\ Covered({s}, Engine!Unwind(H[s], n))'
    BY <1>3, <1>11, <2>1, <2>2
  <2>4. \A r \in Services: r # s => Covered({r}, H[r])'
    BY <1>12, <2>2
  <2>5. global' = Engine!Unwind(g, n) /\ heals'[s] = Engine!Unwind(H[s], n)
        /\ \A r \in Services: r # s => heals'[r] = H[r]
    BY <1>1, <1>4, <2>1
  <2>6. Covered(Services, global)'
    BY <2>3, <2>5 DEF Covered
  <2>7. \A r \in Services: Covered({r}, heals[r])'
    <3> SUFFICES ASSUME NEW r \in Services
                 PROVE  Covered({r}, heals[r])'
      OBVIOUS
    <3>1. CASE r = s
      BY <2>3, <2>5, <3>1 DEF Covered
    <3>2. CASE r # s
      BY <2>4, <2>5, <3>2 DEF Covered
    <3> QED
      BY <3>1, <3>2
  <2> QED
    BY <2>6, <2>7 DEF CapsAreCovered
<1> QED
  BY <1>5, <1>6, <1>7, <1>9, <1>10, <1>13

\* A deque after a reservation: trimmed or not, with one more slot if it was granted.
Kept(dq, d, n, granted) ==
    /\ d \in Seq(Engine!Times)
    /\ \A k \in Engine!Times:
          LET before == Cardinality(Engine!Slots(dq, k)) + (IF granted /\ k = n THEN 1 ELSE 0)
          IN  /\ Cardinality(Engine!Slots(d, k)) <= before
              /\ k >= n - Window => Cardinality(Engine!Slots(d, k)) = before

LEMMA ReserveKeeps ==
    ASSUME Engine!AutohealAssumption, NEW dq \in Seq(Engine!Times), NEW n \in Engine!Times,
           NEW d, NEW granted \in BOOLEAN,
           \/ ~granted /\ d = dq
           \/ ~granted /\ d = Engine!Trim(dq, n)
           \/ granted /\ d = Append(Engine!Trim(dq, n), n)
    PROVE  Kept(dq, d, n, granted)
<1> DEFINE h == Engine!Trim(dq, n)
<1>1. /\ h \in Seq(Engine!Times) /\ Len(h) <= Len(dq)
      /\ \A k \in Engine!Times:
            /\ Cardinality(Engine!Slots(h, k)) <= Cardinality(Engine!Slots(dq, k))
            /\ k >= n - Window => Cardinality(Engine!Slots(h, k)) = Cardinality(Engine!Slots(dq, k))
  BY TrimEffect
<1>1a. \/ ~granted /\ d = dq
       \/ ~granted /\ d = h
       \/ granted /\ d = Append(h, n)
  OBVIOUS
<1> HIDE DEF h
<1>2. \A k \in Engine!Times: Cardinality(Engine!Slots(dq, k)) \in Nat /\ Cardinality(Engine!Slots(h, k)) \in Nat
  BY <1>1, SlotsAreFinite
<1>3. CASE ~granted /\ d = dq
  BY <1>2, <1>3 DEF Kept
<1>4. CASE ~granted /\ d = h
  BY <1>1, <1>2, <1>4 DEF Kept
<1>5. CASE granted /\ d = Append(h, n)
  <2>1. /\ Append(h, n) \in Seq(Engine!Times)
        /\ \A k \in Engine!Times: Cardinality(Engine!Slots(Append(h, n), k)) =
                IF k = n THEN Cardinality(Engine!Slots(h, k)) + 1 ELSE Cardinality(Engine!Slots(h, k))
    BY <1>1, AppendEffect
  <2> QED
    BY <1>1, <1>2, <1>5, <2>1 DEF Kept
<1> QED
  BY <1>1a, <1>3, <1>4, <1>5

LEMMA ReserveEffect ==
    ASSUME Engine!AutohealAssumption, EngineInv, NEW t \in Threads, Engine!Reserve(t)
    PROVE  \E s \in Services, n \in Engine!Times, granted \in BOOLEAN:
              /\ svc[t] = s /\ at[t] = n /\ n = now /\ pc[t] = "reserve"
              /\ s \in Engine!HealedByOne => promised[s] <= n
              /\ Kept(global, global', n, granted) /\ Len(global') <= MaxGlobalPerHour
              /\ Kept(heals[s], heals'[s], n, granted) /\ Len(heals'[s]) <= MaxPerHour
              /\ heals' \in [Services -> Seq(Engine!Times)]
              /\ \A r \in Services: r # s => heals'[r] = heals[r]
              /\ granted => heals'[s] # << >> /\ heals'[s][Len(heals'[s])] = n
              /\ disabled' = [disabled EXCEPT ![s] = Engine!NotDisabled]
              /\ UNCHANGED <<landed, promised, now>>
              /\ IF granted THEN pc' = [pc EXCEPT ![t] = "update"] /\ UNCHANGED <<svc, at>>
                 ELSE Engine!Return(t)
<1> USE DEF EngineInv
<1>0. PICK s \in Services, n \in Engine!Times: svc[t] = s /\ at[t] = n /\ n = now /\ pc[t] = "reserve"
  BY DEF Engine!Reserve, HealsAreAllowed, Engine!TypeOK
<1> DEFINE g == Engine!Trim(global, n)
           h == Engine!Trim(heals[s], n)
<1>1. heals[s] \in Seq(Engine!Times) /\ global \in Seq(Engine!Times) /\ heals \in [Services -> Seq(Engine!Times)]
      /\ Len(heals[s]) <= MaxPerHour /\ Len(global) <= MaxGlobalPerHour
      /\ MaxPerHour \in Nat /\ MaxGlobalPerHour \in Nat
  BY DEF Engine!TypeOK, Engine!AutohealAssumption
<1>2. /\ g \in Seq(Engine!Times) /\ Len(g) <= Len(global)
      /\ h \in Seq(Engine!Times) /\ Len(h) <= Len(heals[s])
  BY <1>1, TrimEffect
<1>3. /\ ~Engine!InCooldown(s, n)
      /\ disabled' = [disabled EXCEPT ![s] = Engine!NotDisabled]
      /\ \/ global' = g /\ Engine!Return(t) /\ UNCHANGED heals
         \/ global' = g /\ heals' = [heals EXCEPT ![s] = h] /\ Engine!Return(t)
         \/ /\ ~Engine!Full(g, MaxGlobalPerHour) /\ ~Engine!Full(h, MaxPerHour)
            /\ global' = Append(g, n) /\ heals' = [heals EXCEPT ![s] = Append(h, n)]
            /\ Engine!Goto(t, "update") /\ UNCHANGED <<svc, at>>
      /\ UNCHANGED <<landed, promised, now>>
  BY <1>0 DEF Engine!Reserve
<1>4. s \in Engine!HealedByOne => promised[s] <= n
  <2>1. promised[s] \in Nat /\ disabled[s] \in Nat \cup {Engine!NotDisabled} /\ n \in Nat
    BY DEF Engine!TypeOK, Engine!Times
  <2> QED
    BY <1>0, <1>3, <2>1 DEF PromisesAreKept, Engine!InCooldown, Engine!NotDisabled
<1>5. Kept(global, g, n, FALSE) /\ Kept(global, Append(g, n), n, TRUE)
  BY <1>1, ReserveKeeps
<1>6. Kept(heals[s], h, n, FALSE) /\ Kept(heals[s], Append(h, n), n, TRUE) /\ Kept(heals[s], heals[s], n, FALSE)
  BY <1>1, ReserveKeeps
<1>7. /\ Append(g, n) \in Seq(Engine!Times) /\ Len(Append(g, n)) = Len(g) + 1
      /\ Append(h, n) \in Seq(Engine!Times) /\ Len(Append(h, n)) = Len(h) + 1
      /\ Append(h, n) # << >> /\ Append(h, n)[Len(Append(h, n))] = n
  BY <1>2
<1> HIDE DEF g, h
<1>8. CASE global' = g /\ Engine!Return(t) /\ UNCHANGED heals
  <2>1. /\ heals'[s] = heals[s] /\ \A r \in Services: r # s => heals'[r] = heals[r]
        /\ heals' \in [Services -> Seq(Engine!Times)]
    BY <1>1, <1>8
  <2>2. Len(heals'[s]) <= MaxPerHour /\ Len(g) <= MaxGlobalPerHour
    BY <1>1, <1>2, <2>1
  <2>3. Kept(global, global', n, FALSE) /\ Kept(heals[s], heals'[s], n, FALSE)
    BY <1>5, <1>6, <1>8, <2>1
  <2> QED
    BY <1>0, <1>3, <1>4, <1>8, <2>1, <2>2, <2>3
<1>9. CASE global' = g /\ heals' = [heals EXCEPT ![s] = h] /\ Engine!Return(t)
  <2>1. /\ heals'[s] = h /\ \A r \in Services: r # s => heals'[r] = heals[r]
        /\ heals' \in [Services -> Seq(Engine!Times)]
    BY <1>1, <1>2, <1>9
  <2>2. Len(h) <= MaxPerHour /\ Len(g) <= MaxGlobalPerHour
    BY <1>1, <1>2
  <2> QED
    BY <1>0, <1>3, <1>4, <1>5, <1>6, <1>9, <2>1, <2>2
<1>10. CASE /\ ~Engine!Full(g, MaxGlobalPerHour) /\ ~Engine!Full(h, MaxPerHour)
            /\ global' = Append(g, n) /\ heals' = [heals EXCEPT ![s] = Append(h, n)]
            /\ Engine!Goto(t, "update") /\ UNCHANGED <<svc, at>>
  <2>1. /\ heals'[s] = Append(h, n) /\ \A r \in Services: r # s => heals'[r] = heals[r]
        /\ heals' \in [Services -> Seq(Engine!Times)]
    BY <1>1, <1>7, <1>10
  <2>2. Len(g) < MaxGlobalPerHour /\ Len(h) < MaxPerHour
    BY <1>1, <1>2, <1>10 DEF Engine!Full
  <2>3. Len(Append(g, n)) <= MaxGlobalPerHour /\ Len(Append(h, n)) <= MaxPerHour
    BY <1>1, <1>2, <1>7, <2>2
  <2>4. pc' = [pc EXCEPT ![t] = "update"] /\ UNCHANGED <<svc, at>>
    BY <1>10 DEF Engine!Goto
  <2> QED
    BY <1>0, <1>3, <1>4, <1>5, <1>6, <1>7, <1>10, <2>1, <2>3, <2>4
<1> QED
  BY <1>3, <1>8, <1>9, <1>10

LEMMA ReserveStep ==
    ASSUME Engine!AutohealAssumption, EngineInv, NEW t \in Threads, Engine!Reserve(t)
    PROVE  EngineInv' /\ (CapsAreCovered => CapsAreCovered')
           /\ (svc[t] \in Engine!HealedByOne => at[t] >= promised[svc[t]])
<1>0. PICK s \in Services, n \in Engine!Times, granted \in BOOLEAN:
              /\ svc[t] = s /\ at[t] = n /\ n = now /\ pc[t] = "reserve"
              /\ s \in Engine!HealedByOne => promised[s] <= n
              /\ Kept(global, global', n, granted) /\ Len(global') <= MaxGlobalPerHour
              /\ Kept(heals[s], heals'[s], n, granted) /\ Len(heals'[s]) <= MaxPerHour
              /\ heals' \in [Services -> Seq(Engine!Times)]
              /\ \A r \in Services: r # s => heals'[r] = heals[r]
              /\ granted => heals'[s] # << >> /\ heals'[s][Len(heals'[s])] = n
              /\ disabled' = [disabled EXCEPT ![s] = Engine!NotDisabled]
              /\ UNCHANGED <<landed, promised, now>>
              /\ IF granted THEN pc' = [pc EXCEPT ![t] = "update"] /\ UNCHANGED <<svc, at>>
                 ELSE Engine!Return(t)
  BY ReserveEffect
<1> USE DEF EngineInv
<1>1. /\ pc' \in [Threads -> Engine!Steps] /\ svc' \in [Threads -> Services \cup {"none"}]
      /\ at' \in [Threads -> Engine!Times]
      /\ \A u \in Threads \ {t}: pc'[u] = pc[u] /\ svc'[u] = svc[u] /\ at'[u] = at[u]
      /\ IF granted THEN pc'[t] = "update" /\ svc'[t] = s /\ at'[t] = n
         ELSE pc'[t] = "idle" /\ at'[t] = 0
  <2>1. CASE granted
    BY <1>0, <2>1 DEF Engine!TypeOK, Engine!Steps
  <2>2. CASE ~granted
    BY <1>0, <2>2, ReturnEffect
  <2> QED
    BY <2>1, <2>2
<1>2. /\ \A r \in Services: disabled'[r] = IF r = s THEN Engine!NotDisabled ELSE disabled[r]
      /\ disabled' \in [Services -> Nat \cup {Engine!NotDisabled}]
  BY <1>0 DEF Engine!TypeOK
<1>3. Engine!TypeOK' /\ HealsAreAllowed'
  <2>1. Engine!TypeOK'
    BY <1>0, <1>1, <1>2 DEF Engine!TypeOK, Kept
  <2>2. pc[t] # "idle" /\ now' = now
    BY <1>0
  <2>3. \/ pc'[t] = "idle" /\ at'[t] = 0
        \/ pc'[t] # "reserve" /\ svc'[t] = svc[t] /\ at'[t] = at[t]
    <3>1. CASE granted
      BY <1>0, <1>1, <3>1
    <3>2. CASE ~granted
      BY <1>1, <3>2, Zenon
    <3> QED
      BY <3>1, <3>2
  <2> QED
    BY <1>1, <2>1, <2>2, <2>3, AllowedStill
<1>4. \A r \in Engine!HealedByOne: r \in Services
  BY DEF Engine!HealedByOne
<1>5. ASSUME NEW u \in Threads, u # t, pc[u] # "idle", svc[u] \in Engine!HealedByOne
      PROVE  svc[u] # s
  BY <1>0, <1>5, OneHealer
<1>6. PromisesAreKept'
  <2>1. ASSUME NEW r \in Engine!HealedByOne
        PROVE  promised'[r] = disabled'[r] \/ promised'[r] <= now'
    BY <1>0, <1>2, <1>4 DEF PromisesAreKept
  <2>2. ASSUME NEW u \in Threads, pc'[u] \notin {"idle", "reserve"}, svc'[u] \in Engine!HealedByOne
        PROVE  promised'[svc'[u]] <= at'[u]
    BY <1>0, <1>1, <2>2 DEF PromisesAreKept
  <2> QED
    BY <2>1, <2>2 DEF PromisesAreKept, Engine!HealedByOne
<1>7. LandingsAreNumbered' /\ \A S, k: Engine!Landings(S, k)' = Engine!Landings(S, k)
  BY <1>0 DEF LandingsAreNumbered, Engine!Landings
<1>8. \A S, k: Cardinality(Engine!InFlight(S, k)') =
          IF granted /\ s \in S /\ k = n THEN Cardinality(Engine!InFlight(S, k)) + 1
          ELSE Cardinality(Engine!InFlight(S, k))
  <2> SUFFICES ASSUME NEW S, NEW k
               PROVE  Cardinality(Engine!InFlight(S, k)') =
                        IF granted /\ s \in S /\ k = n THEN Cardinality(Engine!InFlight(S, k)) + 1
                        ELSE Cardinality(Engine!InFlight(S, k))
    OBVIOUS
  <2>1. LET before == Flies(t) /\ svc[t] \in S /\ at[t] = k
            after == Flies(t)' /\ svc'[t] \in S /\ at'[t] = k
        IN  Cardinality(Engine!InFlight(S, k)') = Cardinality(Engine!InFlight(S, k))
                   + (IF after THEN 1 ELSE 0) - (IF before THEN 1 ELSE 0)
    BY <1>1, FlightStep
  <2>2. ~Flies(t)
    BY <1>0 DEF Flies
  <2>3. (Flies(t)' /\ svc'[t] \in S /\ at'[t] = k) <=> (granted /\ s \in S /\ k = n)
    BY <1>1 DEF Flies
  <2>4. Cardinality(Engine!InFlight(S, k)) \in Nat
    BY InFlightIsFinite
  <2> QED
    BY <2>1, <2>2, <2>3, <2>4
<1>9. LastIsOwn'
  <2> SUFFICES ASSUME NEW u \in Threads, Flies(u)', svc'[u] \in Engine!HealedByOne
               PROVE  heals'[svc'[u]] # << >> /\ heals'[svc'[u]][Len(heals'[svc'[u]])] = at'[u]
    BY DEF LastIsOwn, Engine!HealedByOne
  <2>1. CASE u = t
    BY <1>0, <1>1, <2>1 DEF Flies
  <2>2. CASE u # t
    <3>1. svc'[u] = svc[u] /\ at'[u] = at[u] /\ Flies(u) /\ pc[u] # "idle"
      BY <1>1, <2>2 DEF Flies
    <3>2. svc[u] # s /\ svc[u] \in Services
      BY <1>4, <1>5, <2>2, <3>1
    <3> QED
      BY <1>0, <3>1, <3>2 DEF LastIsOwn
  <2> QED
    BY <2>1, <2>2
<1>10. Engine!NoSlotBurnt'
  <2> SUFFICES ASSUME NEW r \in Engine!HealedByOne, NEW k \in Engine!Times
               PROVE  Cardinality(Engine!Slots(heals'[r], k)) <=
                        Cardinality(Engine!Landings({r}, k)) + Cardinality(Engine!InFlight({r}, k)')
    BY <1>7, EngineCounts DEF Engine!NoSlotBurnt, Engine!HealedByOne
  <2>0. r \in Services
    BY DEF Engine!HealedByOne
  <2>1. Cardinality(Engine!Slots(heals[r], k))
            <= Cardinality(Engine!Landings({r}, k)) + Cardinality(Engine!InFlight({r}, k))
    BY Unburnt
  <2>2. Cardinality(Engine!Landings({r}, k)) \in Nat /\ Cardinality(Engine!InFlight({r}, k)) \in Nat
        /\ Cardinality(Engine!Slots(heals[r], k)) \in Nat /\ Cardinality(Engine!Slots(heals'[r], k)) \in Nat
    BY <1>3, <2>0, LandingsAreFinite, InFlightIsFinite, SlotsAreFinite DEF Engine!TypeOK
  <2>3. CASE r # s
    BY <1>0, <1>8, <2>0, <2>1, <2>3
  <2>4. CASE r = s
    <3>1. Cardinality(Engine!Slots(heals'[s], k)) <=
              Cardinality(Engine!Slots(heals[s], k)) + (IF granted /\ k = n THEN 1 ELSE 0)
      BY <1>0 DEF Kept
    <3>2. Cardinality(Engine!InFlight({s}, k)') =
              Cardinality(Engine!InFlight({s}, k)) + (IF granted /\ k = n THEN 1 ELSE 0)
      BY <1>8, <2>2, <2>4
    <3> QED
      BY <2>1, <2>2, <2>4, <3>1, <3>2
  <2> QED
    BY <2>3, <2>4
<1>11. ASSUME NEW S, NEW dq \in Seq(Engine!Times), NEW d, Covered(S, dq), s \in S, Kept(dq, d, n, granted)
       PROVE  Covered(S, d)'
  <2> SUFFICES ASSUME NEW k \in Engine!Times, k >= now - Window
               PROVE  Cardinality(Engine!Landings(S, k)) + Cardinality(Engine!InFlight(S, k)')
                        <= Cardinality(Engine!Slots(d, k))
    BY <1>0, <1>7 DEF Covered
  <2>1. Cardinality(Engine!Landings(S, k)) + Cardinality(Engine!InFlight(S, k))
            <= Cardinality(Engine!Slots(dq, k))
    BY <1>11 DEF Covered
  <2>2. Cardinality(Engine!Slots(d, k)) = Cardinality(Engine!Slots(dq, k)) + (IF granted /\ k = n THEN 1 ELSE 0)
    BY <1>0, <1>11 DEF Kept
  <2>3. Cardinality(Engine!Landings(S, k)) \in Nat /\ Cardinality(Engine!InFlight(S, k)) \in Nat
        /\ Cardinality(Engine!Slots(dq, k)) \in Nat
    BY LandingsAreFinite, InFlightIsFinite, SlotsAreFinite
  <2>4. Cardinality(Engine!InFlight(S, k)') =
            Cardinality(Engine!InFlight(S, k)) + (IF granted /\ k = n THEN 1 ELSE 0)
    BY <1>8, <1>11, <2>3
  <2> QED
    BY <2>1, <2>2, <2>3, <2>4
<1>12. ASSUME NEW r \in Services, r # s, NEW dq, Covered({r}, dq)
       PROVE  Covered({r}, dq)'
  BY <1>0, <1>7, <1>8, <1>12 DEF Covered
<1>13. CapsAreCovered => CapsAreCovered'
  <2> SUFFICES ASSUME CapsAreCovered
               PROVE  CapsAreCovered'
    OBVIOUS
  <2>1. PICK g, H, g2, H2: g = global /\ H = heals /\ g2 = global' /\ H2 = heals'
    OBVIOUS
  <2>2. Covered(Services, g) /\ \A r \in Services: Covered({r}, H[r])
    BY <2>1 DEF CapsAreCovered
  <2>2a. g \in Seq(Engine!Times) /\ H[s] \in Seq(Engine!Times)
    BY <2>1 DEF Engine!TypeOK
  <2>3. Covered(Services, g2)' /\ Covered({s}, H2[s])'
    BY <1>0, <1>11, <2>1, <2>2, <2>2a
  <2>4. \A r \in Services: r # s => Covered({r}, H[r])'
    BY <1>12, <2>2
  <2>5. \A r \in Services: r # s => H2[r] = H[r]
    BY <1>0, <2>1
  <2>6. Covered(Services, global)'
    BY <2>1, <2>3 DEF Covered
  <2>7. \A r \in Services: Covered({r}, heals[r])'
    <3> SUFFICES ASSUME NEW r \in Services
                 PROVE  Covered({r}, heals[r])'
      OBVIOUS
    <3>1. CASE r = s
      BY <2>1, <2>3, <3>1 DEF Covered
    <3>2. CASE r # s
      BY <2>1, <2>4, <2>5, <3>2 DEF Covered
    <3> QED
      BY <3>1, <3>2
  <2> QED
    BY <2>6, <2>7 DEF CapsAreCovered
<1>14. svc[t] \in Engine!HealedByOne => at[t] >= promised[svc[t]]
  <2>1. promised[s] \in Nat /\ n \in Nat
    BY DEF Engine!TypeOK, Engine!Times
  <2> QED
    BY <1>0, <2>1
<1> QED
  BY <1>3, <1>6, <1>7, <1>9, <1>10, <1>13, <1>14

LEMMA EngineInductive ==
    ASSUME Engine!AutohealAssumption, EngineInv, [Engine!Next]_(Engine!vars)
    PROVE  EngineInv' /\ ("lost_reply" \notin HealFaults /\ CapsAreCovered => CapsAreCovered')
<1>1. CASE UNCHANGED Engine!vars
  <2>1. LandingsAreNumbered' /\ Engine!NoSlotBurnt' /\ LastIsOwn' /\ (CapsAreCovered => CapsAreCovered')
    BY <1>1, QuietStep DEF Engine!vars, Flies
  <2>2. Engine!TypeOK' /\ HealsAreAllowed' /\ PromisesAreKept'
    BY <1>1 DEF EngineInv, Engine!vars, Engine!TypeOK, HealsAreAllowed, PromisesAreKept, Engine!HealedByOne
  <2> QED
    BY <2>1, <2>2 DEF EngineInv
<1> QED
  BY <1>1, CallStep, RejectStep, ReserveStep, UpdateStep, RollbackStep, VerifyStep, DisableStep, EngineTick
  DEF Engine!Next, Engine!ThreadStep

\* Only a reservation grants a heal.
LEMMA OnlyReserveGrants ==
    ASSUME EngineInv, [Engine!Next]_(Engine!vars), NEW t \in Threads,
           pc[t] = "reserve", pc'[t] = "update"
    PROVE  Engine!Reserve(t)
<1> USE DEF EngineInv, Engine!TypeOK
<1>1. pc' # pc
  OBVIOUS
<1>2. PICK u \in Threads: Engine!ThreadStep(u) \/ \E s \in Services: Engine!Call(u, s)
  BY <1>1 DEF Engine!Next, Engine!vars, Engine!Tick
<1>3. \A v \in Threads \ {u}: pc'[v] = pc[v]
  BY <1>2 DEF Engine!ThreadStep, Engine!Call, Engine!RejectDisabled, Engine!Reserve, Engine!ForceUpdate,
              Engine!Rollback, Engine!Verify, Engine!Disable, Engine!Return, Engine!Goto
<1>4. u = t
  BY <1>3
<1>5. pc[t] # "idle" /\ pc[t] # "update" /\ pc[t] # "rollback" /\ pc[t] # "verify" /\ pc[t] # "disable"
  OBVIOUS
<1>6. ~(\E s \in Services: Engine!Call(t, s))
  BY <1>5 DEF Engine!Call
<1>7. ~Engine!RejectDisabled(t)
  <2>1. ASSUME Engine!RejectDisabled(t)
        PROVE  pc'[t] = "idle"
    BY <2>1 DEF Engine!RejectDisabled, Engine!Return, Engine!Goto
  <2> QED
    BY <2>1
<1>8. ~Engine!ForceUpdate(t) /\ ~Engine!Rollback(t) /\ ~Engine!Verify(t) /\ ~Engine!Disable(t)
  BY <1>5 DEF Engine!ForceUpdate, Engine!Rollback, Engine!Verify, Engine!Disable
<1> QED
  BY <1>2, <1>4, <1>6, <1>7, <1>8 DEF Engine!ThreadStep

\* autoheal.py: however many loops heal however many services, a heal that Docker refuses
\* gives its slot back and no window of an hour holds more force-updates than its cap, as
\* long as no reply to an update that Docker did apply is lost.
THEOREM HealsStayBounded ==
    ASSUME Engine!AutohealAssumption, "lost_reply" \notin HealFaults
    PROVE  Engine!Spec => []HealsAreBounded
<1>1. Engine!Init => EngineInv /\ CapsAreCovered
  BY EngineInit
<1>2. EngineInv /\ CapsAreCovered /\ [Engine!Next]_(Engine!vars) => EngineInv' /\ CapsAreCovered'
  BY EngineInductive
<1>3. EngineInv /\ CapsAreCovered => HealsAreBounded
  <2> SUFFICES ASSUME EngineInv, CapsAreCovered
               PROVE  HealsAreBounded
    OBVIOUS
  <2> USE DEF EngineInv
  <2>1. MaxPerHour \in Nat /\ MaxGlobalPerHour \in Nat
    BY DEF Engine!AutohealAssumption
  <2>2. ASSUME NEW s \in Services
        PROVE  Cardinality(Engine!Recent({s})) <= MaxPerHour
    <3>1. heals[s] \in Seq(Engine!Times) /\ Len(heals[s]) <= MaxPerHour /\ Covered({s}, heals[s])
      BY DEF Engine!TypeOK, CapsAreCovered
    <3> QED
      BY <2>1, <3>1, CoveredIsCapped
  <2>3. Cardinality(Engine!Recent(Services)) <= MaxGlobalPerHour
    <3>1. global \in Seq(Engine!Times) /\ Len(global) <= MaxGlobalPerHour /\ Covered(Services, global)
      BY DEF Engine!TypeOK, CapsAreCovered
    <3> QED
      BY <2>1, <3>1, CoveredIsCapped
  <2> QED
    BY <2>2, <2>3, EngineCounts
    DEF HealsAreBounded, Engine!HealCapsHold, Engine!ServiceCapHolds, Engine!GlobalCapHolds
<1> QED
  BY <1>1, <1>2, <1>3, PTL DEF Engine!Spec

\* autoheal.py:312: once a heal of a service that one loop heals failed verification, no
\* slot is granted to it before the announced hour is over.
LEMMA CooldownsAreHonoured ==
    ASSUME Engine!AutohealAssumption
    PROVE  Engine!Spec => Engine!CooldownHonoured
<1>1. Engine!Init => EngineInv
  BY EngineInit
<1>2. EngineInv /\ [Engine!Next]_(Engine!vars) => EngineInv'
  BY EngineInductive
<1>3. EngineInv /\ [Engine!Next]_(Engine!vars) =>
          \A t \in Threads:
              pc[t] = "reserve" /\ pc'[t] = "update" /\ svc[t] \in Engine!HealedByOne
                  => at[t] >= promised[svc[t]]
  BY OnlyReserveGrants, ReserveStep
<1> QED
  BY <1>1, <1>2, <1>3, PTL DEF Engine!Spec, Engine!CooldownHonoured

-----------------------------------------------------------------------------
(* PatroniLeader.                                                          *)

\* An episode starts after the last poll that saw a leader, and is paged once.
LeaderInv ==
    /\ Leader!TypeOK
    /\ started # Leader!NotStarted => ledAt < started
    /\ ledAt # Leader!NotStarted => ledAt < polls
    /\ pages = IF alerted THEN 1 ELSE 0

LEMMA LeaderStart ==
    ASSUME Leader!LeaderAssumption, Leader!Init
    PROVE  LeaderInv
<1>1. leader \in BOOLEAN /\ alerted \in BOOLEAN /\ started = -1 /\ pages = 0 /\ ledAt = -1 /\ polls = 0
  BY DEF Leader!Init, Leader!NotStarted
<1>2. ~alerted
  BY DEF Leader!Init
<1> QED
  BY <1>1, <1>2 DEF LeaderInv, Leader!TypeOK, Leader!NotStarted, Leader!LeaderAssumption

LEMMA LeaderInductive ==
    ASSUME Leader!LeaderAssumption, LeaderInv, [Leader!Next]_(Leader!vars)
    PROVE  /\ LeaderInv'
           /\ pages' > pages => polls - ledAt > LeaderAfter \/ ledAt = Leader!NotStarted
<1> USE DEF LeaderInv, Leader!TypeOK, Leader!NotStarted, Leader!LeaderAssumption
<1>1. CASE UNCHANGED Leader!vars
  BY <1>1 DEF Leader!vars
<1>2. CASE Leader!Elect \/ Leader!Lose
  <2>1. leader' \in BOOLEAN /\ UNCHANGED <<started, alerted, pages, ledAt, polls>>
    BY <1>2 DEF Leader!Elect, Leader!Lose
  <2> QED
    BY <2>1
<1>3. CASE Leader!Poll
  <2>0. polls' = polls + 1 /\ polls < LastPoll
    BY <1>3 DEF Leader!Poll
  <2>1. CASE Leader!PollLed
    <3>1. /\ leader' = leader /\ started' = -1 /\ alerted' = FALSE /\ pages' = 0 /\ ledAt' = polls
          /\ alerted' \in BOOLEAN
      BY <2>1 DEF Leader!PollLed, Leader!Ended
    <3>2. Leader!TypeOK'
      BY <2>0, <3>1
    <3> QED
      BY <2>0, <3>1, <3>2
  <2>2. CASE Leader!PollSkipped
    BY <2>0, <2>2 DEF Leader!PollSkipped
  <2>3. CASE Leader!PollLeaderless
    <3> DEFINE start == IF started = -1 THEN polls ELSE started
    <3>1. /\ started' = start /\ alerted' = (alerted \/ Leader!PageDue(start))
          /\ pages' = IF Leader!PageDue(start) THEN pages + 1 ELSE pages
          /\ leader' = leader /\ ledAt' = ledAt
      BY <2>3 DEF Leader!PollLeaderless
    <3>2. start \in 0..polls /\ start # -1 /\ ledAt < start
      OBVIOUS
    <3> HIDE DEF start
    <3>3. Leader!PageDue(start) => ~alerted /\ polls - start >= LeaderAfter
      BY DEF Leader!PageDue
    <3>4a. alerted' \in BOOLEAN
      BY <3>1 DEF Leader!PageDue
    <3>4. pages' = (IF alerted' THEN 1 ELSE 0) /\ pages' \in 0..1
      <4>1. CASE Leader!PageDue(start)
        <5>1. alerted'
          BY <3>1, <4>1, Zenon
        <5>2. pages = 0
          BY <3>3, <4>1
        <5>3. pages' = 1
          BY <3>1, <4>1, <5>2
        <5> QED
          BY <5>1, <5>3
      <4>2. CASE ~Leader!PageDue(start)
        BY <3>1, <4>2
      <4> QED
        BY <4>1, <4>2
    <3>5. LeaderInv'
      BY <2>0, <3>1, <3>2, <3>4a, <3>4
    <3>6. pages' > pages => polls - ledAt > LeaderAfter \/ ledAt = -1
      BY <3>1, <3>2, <3>3
    <3> QED
      BY <3>5, <3>6
  <2> QED
    BY <1>3, <2>1, <2>2, <2>3 DEF Leader!Poll
<1> QED
  BY <1>1, <1>2, <1>3 DEF Leader!Next

-----------------------------------------------------------------------------
(* ReplicaDrift.                                                           *)

\* An alert that is still to be emitted: the head of the queue is being healed when it
\* has been told.
Untold(s, kind) ==
    \E i \in 1..Len(alerts):
        alerts[i] = [svc |-> s, kind |-> kind] /\ (loop = "heal" => i # 1)
DriftKnown(s) == told[s] = "drift" \/ s \in dropped

DriftTypes ==
    /\ state \in [Services -> Drift!DriftState] /\ loop \in {"sleep", "list", "scan", "emit", "heal"}
    /\ alerts \in Seq(Drift!Alert) /\ told \in [Services -> {"none", "drift", "recovery"}]
    /\ quiet \in [Services -> BOOLEAN] /\ dropped \subseteq Services
    /\ listed \subseteq Services /\ left \subseteq listed
\* One alert a service in a pass, and none for a service not looked at yet.
OneAlertEach ==
    /\ \A i, j \in 1..Len(alerts): alerts[i].svc = alerts[j].svc => i = j
    /\ \A i \in 1..Len(alerts): loop = "scan" => alerts[i].svc \in listed \ left
    /\ loop \in {"sleep", "list"} => alerts = <<>>
    /\ loop = "heal" => alerts # <<>> /\ told[alerts[1].svc] = "drift" /\ alerts[1].kind = "drift"
\* What the tracking state, the queue and the alerts told say of a service.
Tracked ==
    \A s \in Services:
        /\ state[s].alerted => DriftKnown(s) \/ Untold(s, "drift")
        /\ Untold(s, "recovery") => DriftKnown(s) /\ ~state[s].alerted
        /\ Untold(s, "drift") => state[s].alerted /\ quiet[s]
        /\ ~state[s].alerted => quiet[s]

DriftInv == DriftTypes /\ OneAlertEach /\ Tracked

LEMMA DriftInit == Drift!Init => DriftInv
<1> SUFFICES ASSUME Drift!Init
             PROVE  DriftInv
  OBVIOUS
<1> USE DEF Drift!Init
<1>1. DriftTypes
  BY DEF DriftTypes, Drift!Absent, Drift!DriftState, Drift!Untracked
<1>2. OneAlertEach
  BY DEF OneAlertEach
<1>3. Tracked
  BY DEF Tracked, Untold, Drift!Absent
<1> QED
  BY <1>1, <1>2, <1>3 DEF DriftInv

\* A step that leaves the queue and what was told alone.
LEMMA QueueStays ==
    ASSUME DriftInv, alerts' = alerts, told' = told, dropped' = dropped,
           loop' = loop \/ (loop' # "heal" /\ loop # "heal"),
           state' \in [Services -> Drift!DriftState], quiet' \in [Services -> BOOLEAN],
           \A s \in Services: /\ state'[s].alerted = state[s].alerted \/ (quiet'[s] /\ ~state'[s].alerted /\ ~Untold(s, "drift"))
                              /\ quiet[s] => quiet'[s]
    PROVE  Tracked'
<1>1. \A s \in Services, k \in {"drift", "recovery"}: Untold(s, k)' <=> Untold(s, k)
  BY DEF Untold
<1>2. \A s \in Services: DriftKnown(s)' <=> DriftKnown(s)
  BY DEF DriftKnown
<1> QED
  BY <1>1, <1>2 DEF DriftInv, Tracked, DriftTypes, Drift!DriftState

LEMMA PollStarts ==
    ASSUME Drift!DriftAssumption, DriftInv, Drift!Wake
    PROVE  DriftInv'
<1> USE DEF DriftInv
<1>1. /\ loop = "sleep" /\ loop' = "list"
      /\ state' = [s \in Services |-> IF state[s].age \in 0..(MaxAge - 1)
                                      THEN [state[s] EXCEPT !.age = @ + 1] ELSE state[s]]
      /\ UNCHANGED <<listed, left, alerts, told, quiet, dropped>>
  BY DEF Drift!Wake
<1>2. \A s \in Services: state'[s] \in Drift!DriftState /\ state'[s].alerted = state[s].alerted
  BY <1>1 DEF DriftTypes, Drift!DriftState, Drift!DriftAssumption, Drift!Untracked, Drift!NotStarted
<1>3. state' \in [Services -> Drift!DriftState]
  BY <1>1, <1>2
<1>4. Tracked'
  BY <1>1, <1>2, <1>3, QueueStays DEF DriftTypes
<1> QED
  BY <1>1, <1>3, <1>4 DEF DriftTypes, OneAlertEach

LEMMA ListStep ==
    ASSUME DriftInv, Drift!ListOk
    PROVE  DriftInv'
<1> USE DEF DriftInv, Drift!ListOk
<1>1. listed' \subseteq Services /\ left' = listed' /\ alerts = <<>>
  BY DEF OneAlertEach
<1>2. Tracked'
  BY QueueStays DEF DriftTypes
<1> QED
  BY <1>1, <1>2 DEF DriftTypes, OneAlertEach

LEMMA ScanEnds ==
    ASSUME DriftInv, Drift!Abandon, UNCHANGED <<state, told, quiet>>, loop # "heal"
    PROVE  DriftInv'
<1> USE DEF DriftInv
<1>1. /\ loop' = "sleep" /\ listed' = {} /\ left' = {} /\ alerts' = <<>>
      /\ dropped' = dropped \cup {s \in Services: Drift!Pending(s, "drift")}
  BY DEF Drift!Abandon, Drift!Discard
<1>2. \A s \in Services: ~Untold(s, "drift")' /\ ~Untold(s, "recovery")'
  BY <1>1 DEF Untold
<1>3. \A s \in Services: DriftKnown(s) \/ Untold(s, "drift") => DriftKnown(s)'
  BY <1>1 DEF DriftKnown, Untold, Drift!Pending
<1>4. Tracked'
  BY <1>2, <1>3 DEF Tracked
<1> QED
  BY <1>1, <1>4 DEF DriftTypes, OneAlertEach

LEMMA LookStep ==
    ASSUME Drift!DriftAssumption, DriftInv, NEW s \in Services, Drift!Look(s)
    PROVE  DriftInv'
<1> USE DEF DriftInv
<1>1. /\ loop = "scan" /\ loop' = "scan" /\ s \in left /\ left' = left \ {s}
      /\ UNCHANGED <<listed, told, dropped>>
  BY DEF Drift!Look
<1>2. \A i \in 1..Len(alerts): alerts[i].svc \in listed \ left /\ alerts[i] \in Drift!Alert
  BY <1>1 DEF OneAlertEach, DriftTypes
<1>3. state[s] \in Drift!DriftState
  BY DEF DriftTypes
<1>4. ~Untold(s, "drift") /\ ~Untold(s, "recovery")
  BY <1>1, <1>2 DEF Untold
<1>5. ASSUME NEW due \in BOOLEAN, NEW kind \in {"drift", "recovery"}, Drift!Note(due, s, kind)
      PROVE  /\ alerts' \in Seq(Drift!Alert) /\ OneAlertEach'
             /\ \A t \in Services, k \in {"drift", "recovery"}:
                    Untold(t, k)' <=> Untold(t, k) \/ (due /\ t = s /\ k = kind)
  <2>1. CASE ~due
    <3>1. alerts' = alerts
      BY <1>5, <2>1 DEF Drift!Note
    <3> QED
      BY <1>1, <1>2, <2>1, <3>1 DEF DriftTypes, OneAlertEach, Untold
  <2>2. CASE due
    <3> DEFINE a == [svc |-> s, kind |-> kind]
    <3>0. a \in Drift!Alert /\ a.svc = s
      BY DEF Drift!Alert
    <3>1. alerts' = Append(alerts, a)
      BY <1>5, <2>2 DEF Drift!Note
    <3> HIDE DEF a
    <3>2. /\ alerts' \in Seq(Drift!Alert) /\ Len(alerts') = Len(alerts) + 1
          /\ \A i \in 1..Len(alerts): alerts'[i] = alerts[i]
          /\ alerts'[Len(alerts) + 1] = a /\ Len(alerts) \in Nat
      BY <3>0, <3>1 DEF DriftTypes
    <3>3. \A i \in 1..Len(alerts'): i \in 1..Len(alerts) \/ i = Len(alerts) + 1
      BY <3>2
    <3>4. OneAlertEach'
      <4>1. ASSUME NEW i \in 1..Len(alerts'), NEW j \in 1..Len(alerts'), alerts'[i].svc = alerts'[j].svc
            PROVE  i = j
        <5>1. \A k \in 1..Len(alerts): alerts'[k].svc # s
          BY <1>1, <1>2, <3>2
        <5>2. alerts'[Len(alerts) + 1].svc = s
          BY <3>0, <3>2
        <5> QED
          BY <3>2, <3>3, <4>1, <5>1, <5>2 DEF OneAlertEach
      <4>2. \A i \in 1..Len(alerts'): alerts'[i].svc \in listed' \ left'
        BY <1>1, <1>2, <3>0, <3>2, <3>3 DEF DriftTypes
      <4> QED
        BY <1>1, <4>1, <4>2 DEF OneAlertEach
    <3>5. \A t \in Services, k \in {"drift", "recovery"}:
              Untold(t, k)' <=> Untold(t, k) \/ (t = s /\ k = kind)
      <4>1. \A t \in Services, k \in {"drift", "recovery"}:
              Untold(t, k)' <=> \E i \in 1..Len(alerts'): alerts'[i] = [svc |-> t, kind |-> k]
        BY <1>1 DEF Untold
      <4>2. \A t \in Services, k \in {"drift", "recovery"}:
              Untold(t, k) <=> \E i \in 1..Len(alerts): alerts[i] = [svc |-> t, kind |-> k]
        BY <1>1 DEF Untold
      <4>3. \A t \in Services, k \in {"drift", "recovery"}: a = [svc |-> t, kind |-> k] <=> t = s /\ k = kind
        BY DEF a
      <4>4. Len(alerts) + 1 \in 1..Len(alerts') /\ 1..Len(alerts) \subseteq 1..Len(alerts')
        BY <3>2
      <4>5. ASSUME NEW t \in Services, NEW k \in {"drift", "recovery"}, Untold(t, k)'
            PROVE  Untold(t, k) \/ (t = s /\ k = kind)
        <5>1. PICK i \in 1..Len(alerts'): alerts'[i] = [svc |-> t, kind |-> k]
          BY <4>1, <4>5
        <5> QED
          BY <3>2, <3>3, <4>2, <4>3, <5>1
      <4>6. ASSUME NEW t \in Services, NEW k \in {"drift", "recovery"}, Untold(t, k) \/ (t = s /\ k = kind)
            PROVE  Untold(t, k)'
        <5>1. CASE Untold(t, k)
          <6>1. PICK i \in 1..Len(alerts): alerts[i] = [svc |-> t, kind |-> k]
            BY <4>2, <5>1
          <6> QED
            BY <3>2, <4>1, <4>4, <6>1
        <5>2. CASE t = s /\ k = kind
          BY <3>2, <4>1, <4>3, <4>4, <5>2
        <5> QED
          BY <4>6, <5>1, <5>2
      <4> QED
        BY <4>5, <4>6
    <3> QED
      BY <2>2, <3>2, <3>4, <3>5
  <2> QED
    BY <2>1, <2>2
<1>6. \A t \in Services: DriftKnown(t)' <=> DriftKnown(t)
  BY <1>1 DEF DriftKnown
<1>7. CASE /\ state' = [state EXCEPT ![s] = Drift!Short(@)]
           /\ Drift!Note(Drift!DriftDue(state[s]), s, "drift") /\ UNCHANGED quiet
  <2> DEFINE due == Drift!DriftDue(state[s])
             new == Drift!Short(state[s])
  <2>1. due \in BOOLEAN /\ (due <=> ~state[s].alerted /\ new.alerted) /\ (state[s].alerted => new.alerted)
        /\ new.alerted \in BOOLEAN
    BY <1>3 DEF Drift!DriftDue, Drift!Short, Drift!DriftState, Drift!DriftAssumption, Drift!NotStarted, Drift!Untracked
  <2>2. new \in Drift!DriftState
    BY <1>3 DEF Drift!Short, Drift!DriftState, Drift!DriftAssumption, Drift!NotStarted, Drift!Untracked
  <2> HIDE DEF due, new
  <2>3. state' = [state EXCEPT ![s] = new] /\ Drift!Note(due, s, "drift") /\ quiet' = quiet
    BY <1>7 DEF due, new
  <2>4. \A t \in Services: state'[t] = IF t = s THEN new ELSE state[t]
    BY <2>3 DEF DriftTypes
  <2>5. /\ alerts' \in Seq(Drift!Alert) /\ OneAlertEach'
        /\ \A t \in Services, k \in {"drift", "recovery"}:
               Untold(t, k)' <=> Untold(t, k) \/ (due /\ t = s /\ k = "drift")
    BY <1>5, <2>1, <2>3
  <2>6. Tracked'
    BY <1>4, <1>6, <2>1, <2>3, <2>4, <2>5 DEF Tracked
  <2>7. DriftTypes'
    BY <1>1, <2>2, <2>3, <2>5 DEF DriftTypes
  <2> QED
    BY <2>5, <2>6, <2>7
<1>8. CASE /\ state' = [state EXCEPT ![s] = Drift!Full(@)]
           /\ Drift!Note(Drift!RecoveryDue(state[s]), s, "recovery")
           /\ quiet' = [quiet EXCEPT ![s] = TRUE]
  <2> DEFINE due == Drift!RecoveryDue(state[s])
             new == Drift!Full(state[s])
  <2>1. due \in BOOLEAN /\ (due => state[s].alerted) /\ ~new.alerted
    BY <1>3 DEF Drift!RecoveryDue, Drift!Full, Drift!Fresh, Drift!DriftState
  <2>2. new \in Drift!DriftState
    BY DEF Drift!Full, Drift!Fresh, Drift!DriftState
  <2> HIDE DEF due, new
  <2>3. /\ state' = [state EXCEPT ![s] = new] /\ Drift!Note(due, s, "recovery")
        /\ quiet' = [quiet EXCEPT ![s] = TRUE]
    BY <1>8 DEF due, new
  <2>4. \A t \in Services: /\ state'[t] = IF t = s THEN new ELSE state[t]
                           /\ quiet'[t] = IF t = s THEN TRUE ELSE quiet[t]
    BY <2>3 DEF DriftTypes
  <2>5. /\ alerts' \in Seq(Drift!Alert) /\ OneAlertEach'
        /\ \A t \in Services, k \in {"drift", "recovery"}:
               Untold(t, k)' <=> Untold(t, k) \/ (due /\ t = s /\ k = "recovery")
    BY <1>5, <2>1, <2>3
  <2>6. Tracked'
    BY <1>4, <1>6, <2>1, <2>4, <2>5 DEF Tracked
  <2>7. DriftTypes'
    BY <1>1, <2>2, <2>3, <2>5 DEF DriftTypes
  <2> QED
    BY <2>5, <2>6, <2>7
<1> QED
  BY <1>7, <1>8 DEF Drift!Look

LEMMA EndScanStep ==
    ASSUME DriftInv, Drift!EndScan
    PROVE  DriftInv'
<1> USE DEF DriftInv
<1>1. /\ loop = "scan" /\ loop' = "emit" /\ listed' = {} /\ left = {} /\ left' = {}
      /\ state' = [s \in Services |-> IF s \in listed THEN state[s] ELSE Drift!Absent]
      /\ quiet' = [s \in Services |-> quiet[s] \/ s \notin listed]
      /\ UNCHANGED <<alerts, told, dropped>>
  BY DEF Drift!EndScan, Drift!Forget
<1>2. Drift!Absent \in Drift!DriftState /\ ~Drift!Absent.alerted
  BY DEF Drift!Absent, Drift!DriftState, Drift!Untracked
<1>3. state' \in [Services -> Drift!DriftState] /\ quiet' \in [Services -> BOOLEAN]
  BY <1>1, <1>2 DEF DriftTypes
<1>4. \A s \in Services: s \notin listed => ~Untold(s, "drift")
  BY <1>1 DEF Untold, OneAlertEach
<1>5. Tracked'
  BY <1>1, <1>2, <1>3, <1>4, QueueStays DEF DriftTypes
<1> QED
  BY <1>1, <1>3, <1>5 DEF DriftTypes, OneAlertEach

\* What telling an alert does, and when it is due.
LEMMA EmitStep ==
    ASSUME DriftInv, Drift!Emit
    PROVE  /\ DriftInv'
           /\ \A s \in Services: /\ Drift!Recovers(s) => told[s] = "drift" \/ s \in dropped
                                 /\ Head(alerts) = [svc |-> s, kind |-> "drift"] => quiet[s]
<1> USE DEF DriftInv
<1> DEFINE a == alerts[1]
<1>1. /\ loop = "emit" /\ alerts # <<>> /\ told' = [told EXCEPT ![a.svc] = a.kind]
      /\ quiet' = [quiet EXCEPT ![a.svc] = @ /\ a.kind # "drift"]
      /\ dropped' = dropped \ {a.svc} /\ UNCHANGED <<state, listed, left>>
      /\ IF a.kind = "drift" THEN loop' = "heal" /\ alerts' = alerts
         ELSE alerts' = Tail(alerts) /\ loop' = loop
      /\ Head(alerts) = a
  <2>1. alerts # <<>> => Head(alerts) = a
    BY DEF DriftTypes
  <2> HIDE DEF a
  <2> QED
    BY <2>1 DEF Drift!Emit
<1>2. Len(alerts) \in Nat \ {0} /\ 1 \in 1..Len(alerts) /\ a \in Drift!Alert
  BY <1>1 DEF DriftTypes
<1>3. a.svc \in Services /\ a.kind \in {"drift", "recovery"} /\ a = [svc |-> a.svc, kind |-> a.kind]
  BY <1>2 DEF Drift!Alert
<1>4. Untold(a.svc, a.kind)
  BY <1>1, <1>2, <1>3 DEF Untold
<1>5. \A k \in {"drift", "recovery"}: Untold(a.svc, k) => k = a.kind
  BY <1>2, <1>3 DEF Untold, OneAlertEach
<1> HIDE DEF a
<1>6. \A s \in Services: s # a.svc => (DriftKnown(s)' <=> DriftKnown(s)) /\ quiet'[s] = quiet[s]
  BY <1>1, <1>3 DEF DriftKnown, DriftTypes
<1>7. told'[a.svc] = a.kind /\ quiet'[a.svc] = (quiet[a.svc] /\ a.kind # "drift")
  BY <1>1, <1>3 DEF DriftTypes
<1>8. CASE a.kind = "drift"
  <2>1. \A s \in Services, k \in {"drift", "recovery"}: Untold(s, k)' <=> Untold(s, k) /\ s # a.svc
    <3> SUFFICES ASSUME NEW s \in Services, NEW k \in {"drift", "recovery"}
                 PROVE  Untold(s, k)' <=> Untold(s, k) /\ s # a.svc
      OBVIOUS
    <3>1. Untold(s, k)' <=> \E i \in 1..Len(alerts): alerts[i] = [svc |-> s, kind |-> k] /\ i # 1
      BY <1>1, <1>8 DEF Untold
    <3>2. Untold(s, k) <=> \E i \in 1..Len(alerts): alerts[i] = [svc |-> s, kind |-> k]
      BY <1>1 DEF Untold
    <3>3. \A i \in 1..Len(alerts): alerts[i] = [svc |-> s, kind |-> k] => (i = 1 <=> s = a.svc)
      BY <1>2 DEF OneAlertEach, a
    <3> QED
      BY <3>1, <3>2, <3>3
  <2>2. Tracked'
    BY <1>1, <1>3, <1>4, <1>6, <1>7, <1>8, <2>1 DEF Tracked, DriftKnown
  <2>3. OneAlertEach'
    BY <1>1, <1>2, <1>7, <1>8 DEF OneAlertEach, a
  <2>4. DriftTypes'
    BY <1>1, <1>3, <1>8 DEF DriftTypes
  <2> QED
    BY <1>1, <1>2, <1>3, <1>4, <1>6, <1>7, <1>8, <2>2, <2>3, <2>4 DEF Drift!Recovers, Tracked, a
<1>9. CASE a.kind = "recovery"
  <2>0. alerts' = Tail(alerts) /\ loop' = "emit"
    BY <1>1, <1>9
  <2>1. /\ alerts' \in Seq(Drift!Alert) /\ Len(alerts') = Len(alerts) - 1
        /\ \A i \in 1..Len(alerts'): i + 1 \in 1..Len(alerts) /\ alerts'[i] = alerts[i + 1]
    BY <1>2, <2>0 DEF DriftTypes
  <2>2. \A s \in Services, k \in {"drift", "recovery"}: Untold(s, k)' <=> Untold(s, k) /\ s # a.svc
    <3> SUFFICES ASSUME NEW s \in Services, NEW k \in {"drift", "recovery"}
                 PROVE  Untold(s, k)' <=> Untold(s, k) /\ s # a.svc
      OBVIOUS
    <3>1. Untold(s, k)' <=> \E i \in 1..Len(alerts'): alerts'[i] = [svc |-> s, kind |-> k]
      BY <2>0 DEF Untold
    <3>2. Untold(s, k) <=> \E i \in 1..Len(alerts): alerts[i] = [svc |-> s, kind |-> k]
      BY <1>1 DEF Untold
    <3>3. \A i \in 1..Len(alerts): alerts[i] = [svc |-> s, kind |-> k] => (i = 1 <=> s = a.svc)
      BY <1>2 DEF OneAlertEach, a
    <3>4. \A i \in 1..Len(alerts): i # 1 => i - 1 \in 1..Len(alerts') /\ alerts'[i - 1] = alerts[i]
      BY <1>2, <2>1
    <3>5. \A i \in 1..Len(alerts'): i + 1 # 1
      OBVIOUS
    <3> QED
      BY <2>1, <3>1, <3>2, <3>3, <3>4, <3>5
  <2>3. Tracked'
    <3> SUFFICES ASSUME NEW s \in Services
                 PROVE  /\ state[s].alerted => DriftKnown(s)' \/ Untold(s, "drift")'
                        /\ Untold(s, "recovery")' => DriftKnown(s)' /\ ~state[s].alerted
                        /\ Untold(s, "drift")' => state[s].alerted /\ quiet'[s]
                        /\ ~state[s].alerted => quiet'[s]
      BY <1>1 DEF Tracked
    <3>1. CASE s = a.svc
      BY <1>4, <1>7, <1>9, <2>2, <3>1 DEF Tracked
    <3>2. CASE s # a.svc
      BY <1>6, <2>2, <3>2 DEF Tracked
    <3> QED
      BY <3>1, <3>2
  <2>4. OneAlertEach'
    <3>1. ASSUME NEW i \in 1..Len(alerts'), NEW j \in 1..Len(alerts'), alerts'[i].svc = alerts'[j].svc
          PROVE  i = j
      <4>1. i + 1 = j + 1
        BY <2>1, <3>1 DEF OneAlertEach
      <4> QED
        BY <4>1
    <3> QED
      BY <2>0, <3>1 DEF OneAlertEach
  <2>5. DriftTypes'
    BY <1>1, <1>3, <1>9, <2>0, <2>1 DEF DriftTypes
  <2> QED
    BY <1>1, <1>2, <1>3, <1>4, <1>6, <1>7, <1>9, <2>3, <2>4, <2>5 DEF Drift!Recovers, Tracked, DriftKnown, DriftTypes, a
<1> QED
  BY <1>3, <1>8, <1>9

LEMMA HealStep ==
    ASSUME DriftInv, Drift!Heal
    PROVE  DriftInv'
<1> USE DEF DriftInv
<1>1. /\ loop = "heal" /\ loop' = "emit" /\ alerts' = Tail(alerts)
      /\ UNCHANGED <<state, listed, left, told, quiet, dropped>>
  BY DEF Drift!Heal
<1>2. Len(alerts) \in Nat \ {0}
  BY <1>1 DEF DriftTypes, OneAlertEach
<1>3. /\ alerts' \in Seq(Drift!Alert) /\ Len(alerts') = Len(alerts) - 1
      /\ \A i \in 1..Len(alerts'): i + 1 \in 1..Len(alerts) /\ alerts'[i] = alerts[i + 1]
  BY <1>1, <1>2 DEF DriftTypes
<1>4. \A s \in Services, k \in {"drift", "recovery"}: Untold(s, k)' <=> Untold(s, k)
  <2> SUFFICES ASSUME NEW s \in Services, NEW k \in {"drift", "recovery"}
               PROVE  Untold(s, k)' <=> Untold(s, k)
    OBVIOUS
  <2>1. Untold(s, k)' <=> \E i \in 1..Len(alerts'): alerts'[i] = [svc |-> s, kind |-> k]
    BY <1>1 DEF Untold
  <2>2. Untold(s, k) <=> \E i \in 1..Len(alerts): alerts[i] = [svc |-> s, kind |-> k] /\ i # 1
    BY <1>1 DEF Untold
  <2>3. \A i \in 1..Len(alerts): i # 1 => i - 1 \in 1..Len(alerts') /\ alerts'[i - 1] = alerts[i]
    BY <1>2, <1>3
  <2>4. \A i \in 1..Len(alerts'): i + 1 # 1
    OBVIOUS
  <2> QED
    BY <1>3, <2>1, <2>2, <2>3, <2>4
<1>5. Tracked'
  BY <1>1, <1>4 DEF Tracked, DriftKnown
<1>6. OneAlertEach'
  <2>1. ASSUME NEW i \in 1..Len(alerts'), NEW j \in 1..Len(alerts'), alerts'[i].svc = alerts'[j].svc
        PROVE  i = j
    <3>1. i + 1 = j + 1
      BY <1>3, <2>1 DEF OneAlertEach
    <3> QED
      BY <3>1
  <2> QED
    BY <1>1, <2>1 DEF OneAlertEach
<1> QED
  BY <1>1, <1>3, <1>5, <1>6 DEF DriftTypes

LEMMA DriftInductive ==
    ASSUME Drift!DriftAssumption, DriftInv, [Drift!Next]_(Drift!vars)
    PROVE  DriftInv'
<1>1. CASE UNCHANGED Drift!vars \/ Drift!Swarm \/ Drift!EndPoll
  <2>1. UNCHANGED <<state, listed, left, alerts, told, quiet, dropped>>
        /\ (loop' = loop \/ (loop' = "sleep" /\ loop = "emit" /\ alerts = <<>>))
    BY <1>1 DEF Drift!vars, Drift!Swarm, Drift!EndPoll
  <2>2. DriftTypes' /\ OneAlertEach'
    BY <2>1 DEF DriftInv, DriftTypes, OneAlertEach
  <2>3. Tracked'
    BY <2>1, QueueStays DEF DriftInv, DriftTypes
  <2> QED
    BY <2>2, <2>3 DEF DriftInv
<1>2. CASE Drift!ListRaises \/ \E s \in Services: Drift!LookRaises(s)
  BY <1>2, ScanEnds DEF Drift!ListRaises, Drift!LookRaises
<1> QED
  BY <1>1, <1>2, PollStarts, ListStep, LookStep, EndScanStep, EmitStep, HealStep
  DEF Drift!Next, Drift!LoopStep

\* A service is told of anew only by an emission.
LEMMA OnlyEmitTells ==
    ASSUME [Drift!Next]_(Drift!vars), NEW s \in Services, Drift!Recovers(s)
    PROVE  Drift!Emit
BY DEF Drift!Next, Drift!LoopStep, Drift!vars, Drift!Recovers, Drift!Swarm, Drift!Wake, Drift!ListOk,
       Drift!ListRaises, Drift!EndScan, Drift!Heal, Drift!EndPoll, Drift!Look, Drift!LookRaises

\* autoheal.py, replica_drift.py, patroni_leader.py: a service is healed again only once the
\* cooldown that was announced is over, a drift alert stands for a drift and a recovery is told
\* of a drift that was told of or dropped, and nobody is paged while the cluster had a leader.
THEOREM EpisodesAreOver ==
    ASSUME Engine!AutohealAssumption, Drift!DriftAssumption, Leader!LeaderAssumption
    PROVE  Engine!Spec /\ Drift!Spec /\ Leader!Spec => EpisodesAreTold
<1>1. Drift!Init => DriftInv
  BY DriftInit
<1>2. DriftInv /\ [Drift!Next]_(Drift!vars) => DriftInv'
  BY DriftInductive
<1>3. DriftInv /\ [Drift!Next]_(Drift!vars) =>
          \A s \in Services:
              /\ Drift!Recovers(s) => told[s] = "drift" \/ s \in dropped
              /\ Drift!Emit /\ Head(alerts) = [svc |-> s, kind |-> "drift"] => quiet[s]
  BY OnlyEmitTells, EmitStep
<1>4. Leader!Init => LeaderInv
  BY LeaderStart
<1>5. LeaderInv /\ [Leader!Next]_(Leader!vars) => LeaderInv'
  BY LeaderInductive
<1>6. LeaderInv /\ [Leader!Next]_(Leader!vars) =>
          (pages' > pages => polls - ledAt > LeaderAfter \/ ledAt = Leader!NotStarted)
  BY LeaderInductive
<1>7. Drift!Spec => Drift!AlertsMatchEpisodes
  BY <1>1, <1>2, <1>3, PTL DEF Drift!Spec, Drift!AlertsMatchEpisodes
<1>8. Leader!Spec => Leader!RecentLeaderNotPaged
  BY <1>4, <1>5, <1>6, PTL DEF Leader!Spec, Leader!RecentLeaderNotPaged
<1> QED
  BY <1>7, <1>8, CooldownsAreHonoured DEF EpisodesAreTold
-----------------------------------------------------------------------------
(* LlmCall: what bounds a call and a provider.                             *)

InFlight(e) == IF e.pc = "busy" THEN 1 ELSE 0
Over(e) == e.pc \in {"answered", "failed", "left"}
\* A call asks the primary once, and once more for each retry, and then the fallback once.
Fits(e, s) ==
    /\ e.attempt <= MaxRetries /\ e.left <= MaxWait + Timeout /\ e.sleep <= Token + RetryAfter
    /\ s["primary"] <= MaxRetries + 1 /\ s["fallback"] <= MaxRetries + 1
    /\ ~Over(e) /\ e.at = "primary" => s["primary"] <= e.attempt + InFlight(e) /\ s["fallback"] = 0
    /\ ~Over(e) /\ e.at = "fallback" => s["fallback"] <= InFlight(e)
\* The semaphore of a provider.
SlotsHeld ==
    \A p \in Dispatching!Providers:
        IsFiniteSet(Dispatching!Busy(p)) /\ Cardinality(Dispatching!Busy(p)) <= Cap[p]

LlmBounds == (\A c \in Calls: Fits(call[c], sent[c])) /\ SlotsHeld

LEMMA MoreOfNew ==
    /\ Dispatching!New.at = "primary" /\ Dispatching!New.attempt = 0 /\ Dispatching!New.sleep = 0
    /\ Dispatching!New.left = 0 /\ Dispatching!New \in CallRec
BY NewIs DEF Dispatching!New

LEMMA AttemptsAre ==
    ASSUME LlmTypes, NEW c \in Calls
    PROVE  /\ call[c] \in CallRec /\ call[c].attempt \in Nat /\ call[c].left \in Nat /\ call[c].sleep \in Nat
           /\ sent[c]["primary"] \in Nat /\ sent[c]["fallback"] \in Nat
           /\ call[c].at \in {"primary", "fallback"}
BY DEF LlmTypes, CallRec, Dispatching!Providers

\* A call that has given up, waits for a retry or goes to the fallback.
LEMMA AfterFailureFits ==
    ASSUME Dispatching!LlmCallAssumption, LlmTypes, NEW c \in Calls, NEW is429 \in BOOLEAN,
           Fits(call[c], sent[c]), call[c].pc \in {"check", "token", "busy"}
    PROVE  Fits(Dispatching!AfterFailure(c, is429), sent[c])
<1> USE LlmConstants, AttemptsAre
<1>0. ~Over(call[c]) /\ InFlight(call[c]) \in {0, 1}
  BY DEF Over, InFlight
<1>1. ASSUME NEW e \in CallRec, e.pc = "failed", e.attempt = 0, e.left = 0, e.sleep = 0
      PROVE  Fits(e, sent[c])
  BY <1>1 DEF Fits, Over
<1>2. Fits([Dispatching!New EXCEPT !.pc = "failed"], sent[c])
  <2>1. [Dispatching!New EXCEPT !.pc = "failed"] \in CallRec
    BY MoreOfNew DEF CallRec, Dispatching!States, Dispatching!Ended
  <2> QED
    BY <1>1, <2>1, MoreOfNew DEF CallRec
<1>3. ASSUME call[c].at = "primary", call[c].attempt < MaxRetries
      PROVE  Fits([Dispatching!New EXCEPT !.pc = "backoff", !.attempt = call[c].attempt + 1, !.sleep = RetryAfter],
                  sent[c])
  <2> DEFINE e == [Dispatching!New EXCEPT !.pc = "backoff", !.attempt = call[c].attempt + 1, !.sleep = RetryAfter]
  <2>1. e.pc = "backoff" /\ e.attempt = call[c].attempt + 1 /\ e.sleep = RetryAfter /\ e.left = 0 /\ e.at = "primary"
    BY MoreOfNew DEF CallRec
  <2> HIDE DEF e
  <2>2. sent[c]["primary"] <= call[c].attempt + InFlight(call[c]) /\ sent[c]["fallback"] = 0
    BY <1>0, <1>3 DEF Fits
  <2>3. Fits(e, sent[c])
    BY <1>0, <1>3, <2>1, <2>2 DEF Fits, Over, InFlight
  <2> QED
    BY <2>3 DEF e
<1>4. ASSUME call[c].at = "primary"
      PROVE  Fits([Dispatching!New EXCEPT !.pc = "check", !.at = "fallback"], sent[c])
  <2> DEFINE e == [Dispatching!New EXCEPT !.pc = "check", !.at = "fallback"]
  <2>1. e.pc = "check" /\ e.attempt = 0 /\ e.sleep = 0 /\ e.left = 0 /\ e.at = "fallback"
    BY MoreOfNew DEF CallRec
  <2> HIDE DEF e
  <2>2. sent[c]["fallback"] = 0 /\ sent[c]["primary"] <= MaxRetries + 1
    BY <1>0, <1>4 DEF Fits
  <2>3. Fits(e, sent[c])
    BY <2>1, <2>2 DEF Fits, Over, InFlight
  <2> QED
    BY <2>3 DEF e
<1> QED
  BY <1>2, <1>3, <1>4 DEF Dispatching!AfterFailure, Dispatching!Exhausted

\* A step of one call that sends nothing, and takes no slot.
LEMMA NoSlotTaken ==
    ASSUME Dispatching!LlmCallAssumption, LlmBounds, NEW c \in Calls, OneCall(c), call'[c].pc # "busy",
           sent' = sent, Fits(call'[c], sent[c])
    PROVE  LlmBounds'
<1>1. \A d \in Calls: Fits(call'[d], sent'[d])
  BY DEF LlmBounds, OneCall
<1>2. ASSUME NEW p \in Dispatching!Providers
      PROVE  IsFiniteSet(Dispatching!Busy(p))' /\ Cardinality(Dispatching!Busy(p)') <= Cap[p]
  <2>1. Dispatching!Busy(p)' \subseteq Dispatching!Busy(p)
    BY DEF OneCall, Dispatching!Busy, Dispatching!At
  <2>2. IsFiniteSet(Dispatching!Busy(p)) /\ Cardinality(Dispatching!Busy(p)) <= Cap[p]
    BY DEF LlmBounds, SlotsHeld
  <2>3. /\ IsFiniteSet(Dispatching!Busy(p)') /\ Cardinality(Dispatching!Busy(p)') <= Cardinality(Dispatching!Busy(p))
        /\ Cardinality(Dispatching!Busy(p)') \in Nat /\ Cardinality(Dispatching!Busy(p)) \in Nat
    BY <2>1, <2>2, FS_Subset, FS_CardinalityType
  <2>4. Cap[p] \in Nat
    BY DEF Dispatching!LlmCallAssumption
  <2> QED
    BY <2>2, <2>3, <2>4
<1> QED
  BY <1>1, <1>2 DEF LlmBounds, SlotsHeld

\* A call goes on as it is: only its step and its timers change.
LEMMA GoesOn ==
    ASSUME Dispatching!LlmCallAssumption, LlmTypes, LlmBounds, NEW c \in Calls, OneCall(c), ~Over(call[c]),
           call[c].pc # "busy", call'[c].pc # "busy", call'[c].at = call[c].at,
           call'[c].attempt = call[c].attempt, call'[c].left \in {0, MaxWait, call[c].left},
           call'[c].sleep \in 0..Token \cup {call[c].sleep}, sent' = sent
    PROVE  LlmBounds'
<1>1. Fits(call[c], sent[c]) /\ call'[c] \in CallRec
  BY DEF LlmBounds, OneCall
<1>2. InFlight(call'[c]) = 0 /\ InFlight(call[c]) = 0
  BY DEF InFlight
<1>3. Fits(call'[c], sent[c])
  BY <1>1, <1>2, LlmConstants, AttemptsAre DEF Fits
<1> QED
  BY <1>3, NoSlotTaken

LEMMA Fails ==
    ASSUME Dispatching!LlmCallAssumption, LlmTypes, LlmBounds, NEW c \in Calls, NEW is429 \in BOOLEAN,
           call[c].pc \in {"check", "token", "busy"}, sent' = sent,
           call' = [call EXCEPT ![c] = Dispatching!AfterFailure(c, is429)]
    PROVE  LlmBounds'
<1>1. OneCall(c) /\ call'[c] = Dispatching!AfterFailure(c, is429)
      /\ call'[c].pc \in {"failed", "backoff", "check"}
  BY AfterFailureIs DEF LlmTypes, OneCall
<1>2. Fits(call'[c], sent[c])
  BY <1>1, AfterFailureFits DEF LlmBounds
<1> QED
  BY <1>1, <1>2, NoSlotTaken

LEMMA EndsWell ==
    ASSUME Dispatching!LlmCallAssumption, LlmTypes, LlmBounds, NEW c \in Calls, NEW how \in {"answered", "left"},
           sent' = sent, call' = [call EXCEPT ![c] = [Dispatching!New EXCEPT !.pc = how]]
    PROVE  LlmBounds'
<1> DEFINE e == [Dispatching!New EXCEPT !.pc = how]
<1>1. e \in CallRec /\ e.pc = how /\ e.attempt = 0 /\ e.left = 0 /\ e.sleep = 0
  BY MoreOfNew DEF CallRec, Dispatching!States, Dispatching!Ended
<1> HIDE DEF e
<1>2. OneCall(c) /\ call'[c] = e
  BY <1>1 DEF e, LlmTypes, OneCall
<1>3. Fits(call'[c], sent[c])
  <2>1. Fits(call[c], sent[c]) /\ Over(e)
    BY <1>1 DEF LlmBounds, Over
  <2>2. sent[c]["primary"] <= MaxRetries + 1 /\ sent[c]["fallback"] <= MaxRetries + 1
    BY <2>1 DEF Fits
  <2>3. 0 <= MaxRetries /\ 0 <= MaxWait + Timeout /\ 0 <= Token + RetryAfter
    BY LlmConstants
  <2> QED
    BY <1>1, <1>2, <2>1, <2>2, <2>3 DEF Fits
<1> QED
  BY <1>1, <1>2, <1>3, NoSlotTaken

LEMMA JoinsQueue ==
    ASSUME Dispatching!LlmCallAssumption, LlmTypes, LlmBounds, NEW c \in Calls, Dispatching!Enqueue(c),
           call[c].pc \in {"new", "token"}, sent' = sent
    PROVE  LlmBounds'
<1> DEFINE e == [call[c] EXCEPT !.pc = "queued", !.left = 0, !.sleep = 0]
<1>1. /\ e \in CallRec /\ e.pc = "queued" /\ e.left = 0 /\ e.sleep = 0 /\ e.at = call[c].at
      /\ e.attempt = call[c].attempt
  BY AttemptsAre DEF CallRec, Dispatching!States
<1>2. call' = [call EXCEPT ![c] = e]
  BY DEF Dispatching!Enqueue, LlmTypes
<1> HIDE DEF e
<1>3. OneCall(c) /\ call'[c] = e
  BY <1>1, <1>2 DEF LlmTypes, OneCall
<1> QED
  BY <1>1, <1>3, LlmConstants, GoesOn DEF Over

\* A slot is taken only below the cap.
LEMMA SlotTaken ==
    ASSUME Dispatching!LlmCallAssumption, LlmInv, LlmBounds, NEW c \in Calls, Dispatching!Dispatch(c)
    PROVE  LlmBounds'
<1>0. LlmTypes
  BY DEF LlmInv
<1>1. PICK p \in Dispatching!Providers: p = call[c].at
  BY <1>0 DEF LlmTypes, CallRec
<1>2. /\ queue[p] # <<>> /\ Head(queue[p]) = c /\ Dispatching!Cardinality(Dispatching!Busy(p)) < Cap[p]
      /\ call' = [call EXCEPT ![c].pc = "busy", ![c].left = Timeout]
      /\ sent' = [sent EXCEPT ![c][p] = @ + 1]
  BY <1>1 DEF Dispatching!Dispatch
<1>3. call[c].pc = "queued"
  <2>1. queue[p] \in Seq(Calls) /\ 1 \in DOMAIN queue[p] /\ queue[p][1] = c
    BY <1>0, <1>2 DEF LlmTypes
  <2> QED
    BY <2>1 DEF LlmInv, QueuesAreSound
<1> DEFINE e == [call[c] EXCEPT !.pc = "busy", !.left = Timeout]
<1>4. /\ e \in CallRec /\ e.pc = "busy" /\ e.left = Timeout /\ e.at = p
      /\ e.attempt = call[c].attempt /\ e.sleep = call[c].sleep
  BY <1>0, <1>1, LlmConstants, StateNames, AttemptsAre DEF CallRec
<1>5. call' = [call EXCEPT ![c] = e]
  BY <1>0, <1>2 DEF LlmTypes
<1> HIDE DEF e
<1>6. OneCall(c) /\ call'[c] = e
  BY <1>0, <1>4, <1>5 DEF LlmTypes, OneCall
<1>7. /\ sent'[c] = [sent[c] EXCEPT ![p] = @ + 1] /\ \A d \in Calls \ {c}: sent'[d] = sent[d]
      /\ \A q \in {"primary", "fallback"}: sent'[c][q] = IF q = p THEN sent[c][q] + 1 ELSE sent[c][q]
  BY <1>0, <1>2 DEF LlmTypes, Dispatching!Providers
<1>8. Fits(call'[c], sent'[c])
  <2>1. Fits(call[c], sent[c]) /\ ~Over(call[c]) /\ InFlight(call[c]) = 0 /\ InFlight(e) = 1
    BY <1>3, <1>4 DEF LlmBounds, Over, InFlight
  <2>2. CASE p = "primary"
    <3>1. /\ sent[c]["primary"] <= call[c].attempt /\ sent[c]["fallback"] = 0 /\ call[c].attempt <= MaxRetries
          /\ sent'[c]["primary"] = sent[c]["primary"] + 1 /\ sent'[c]["fallback"] = 0
      BY <1>0, <1>1, <1>7, <2>1, <2>2, AttemptsAre DEF Fits
    <3> QED
      BY <1>0, <1>4, <1>6, <2>1, <2>2, <3>1, LlmConstants, AttemptsAre DEF Fits
  <2>3. CASE p = "fallback"
    <3>1. /\ sent[c]["fallback"] = 0 /\ sent[c]["primary"] <= MaxRetries + 1
          /\ sent'[c]["fallback"] = 1 /\ sent'[c]["primary"] = sent[c]["primary"]
      BY <1>0, <1>1, <1>7, <2>1, <2>3, AttemptsAre DEF Fits
    <3> QED
      BY <1>0, <1>4, <1>6, <2>1, <2>3, <3>1, LlmConstants, AttemptsAre DEF Fits
  <2> QED
    BY <2>2, <2>3, LlmConstants
<1>9. \A d \in Calls: Fits(call'[d], sent'[d])
  BY <1>6, <1>7, <1>8 DEF LlmBounds, OneCall
<1>10. ASSUME NEW q \in Dispatching!Providers
       PROVE  IsFiniteSet(Dispatching!Busy(q))' /\ Cardinality(Dispatching!Busy(q)') <= Cap[q]
  <2>1. IsFiniteSet(Dispatching!Busy(q)) /\ Cardinality(Dispatching!Busy(q)) <= Cap[q] /\ Cap[q] \in Nat
    BY DEF LlmBounds, SlotsHeld, Dispatching!LlmCallAssumption
  <2>2. Cardinality(Dispatching!Busy(q)) \in Nat
    BY <2>1, FS_CardinalityType
  <2>3. CASE q = p
    <3>1. Dispatching!Busy(q)' = Dispatching!Busy(q) \cup {c} /\ c \notin Dispatching!Busy(q)
      BY <1>1, <1>3, <1>4, <1>6, <2>3 DEF OneCall, Dispatching!Busy, Dispatching!At
    <3>2. IsFiniteSet(Dispatching!Busy(q)') /\ Cardinality(Dispatching!Busy(q)') = Cardinality(Dispatching!Busy(q)) + 1
      BY <2>1, <3>1, FS_AddElement
    <3>3. Cardinality(Dispatching!Busy(q)) < Cap[q]
      BY <1>2, <2>3 DEF Dispatching!Cardinality, Cardinality
    <3> QED
      BY <2>1, <2>2, <3>2, <3>3
  <2>4. CASE q # p
    <3>1. Dispatching!Busy(q)' = Dispatching!Busy(q)
      BY <1>1, <1>3, <1>4, <1>6, <2>4 DEF OneCall, Dispatching!Busy, Dispatching!At
    <3> QED
      BY <2>1, <3>1
  <2> QED
    BY <2>3, <2>4
<1> QED
  BY <1>9, <1>10 DEF LlmBounds, SlotsHeld

\* Time runs down the timers.
LEMMA TimersRunDown ==
    ASSUME Dispatching!LlmCallAssumption, LlmTypes, LlmBounds, Dispatching!Tick
    PROVE  LlmBounds'
<1>1. /\ call' = [c \in Calls |-> [call[c] EXCEPT !.left = Dispatching!Less(@), !.sleep = Dispatching!Less(@)]]
      /\ sent' = sent
  BY DEF Dispatching!Tick
<1>2. ASSUME NEW c \in Calls
      PROVE  /\ call'[c].pc = call[c].pc /\ call'[c].at = call[c].at /\ Fits(call'[c], sent'[c])
  <2>1. call[c] \in CallRec /\ call'[c] = [call[c] EXCEPT !.left = Dispatching!Less(@), !.sleep = Dispatching!Less(@)]
    BY <1>1, AttemptsAre
  <2>2. /\ call'[c].pc = call[c].pc /\ call'[c].at = call[c].at /\ call'[c].attempt = call[c].attempt
        /\ call'[c].left = Dispatching!Less(call[c].left) /\ call'[c].sleep = Dispatching!Less(call[c].sleep)
    BY <2>1 DEF CallRec
  <2>3. \A n \in Nat: Dispatching!Less(n) \in Nat /\ Dispatching!Less(n) <= n
    BY DEF Dispatching!Less
  <2>4. call'[c].left <= call[c].left /\ call'[c].sleep <= call[c].sleep /\ call'[c].left \in Nat /\ call'[c].sleep \in Nat
    BY <2>2, <2>3, AttemptsAre
  <2>5. Fits(call[c], sent[c])
    BY DEF LlmBounds
  <2>6. /\ call'[c].attempt <= MaxRetries /\ call'[c].left <= MaxWait + Timeout
        /\ call'[c].sleep <= Token + RetryAfter
    BY <2>2, <2>4, <2>5, LlmConstants, AttemptsAre DEF Fits
  <2> QED
    BY <1>1, <2>2, <2>5, <2>6 DEF Fits, Over, InFlight
<1>3. \A p \in Dispatching!Providers: Dispatching!Busy(p)' = Dispatching!Busy(p)
  BY <1>2 DEF Dispatching!Busy, Dispatching!At
<1> QED
  BY <1>2, <1>3 DEF LlmBounds, SlotsHeld

LEMMA BoundsStep ==
    ASSUME Dispatching!LlmCallAssumption, LlmInv, LlmBounds, [Dispatching!Next]_(Dispatching!vars)
    PROVE  LlmBounds'
<1>0. LlmTypes
  BY DEF LlmInv
<1>1. CASE UNCHANGED Dispatching!vars
  <2>1. call' = call /\ sent' = sent
    BY <1>1 DEF Dispatching!vars
  <2>2. \A p \in Dispatching!Providers: Dispatching!Busy(p)' = Dispatching!Busy(p)
    BY <2>1 DEF Dispatching!Busy, Dispatching!At
  <2> QED
    BY <2>1, <2>2 DEF LlmBounds, SlotsHeld
<1>2. ASSUME NEW c \in Calls, Dispatching!Start(c)
      PROVE  LlmBounds'
  <2>1. call[c].pc = "new" /\ sent' = sent
    BY <1>2 DEF Dispatching!Start, Dispatching!At, Dispatching!history
  <2>2. CASE Dispatching!Enqueue(c)
    BY <1>0, <2>1, <2>2, JoinsQueue
  <2>3. CASE call' = [call EXCEPT ![c].pc = "check"]
    <3>1. /\ OneCall(c) /\ call'[c].pc = "check" /\ call'[c].at = call[c].at /\ call'[c].left = call[c].left
          /\ call'[c].sleep = call[c].sleep /\ call'[c].attempt = call[c].attempt
      BY <1>0, <2>3 DEF LlmTypes, OneCall, CallRec, Dispatching!States
    <3> QED
      BY <1>0, <2>1, <3>1, GoesOn DEF Over
  <2> QED
    BY <1>2, <2>2, <2>3 DEF Dispatching!Start
<1>3. ASSUME NEW c \in Calls, Dispatching!Check(c)
      PROVE  LlmBounds'
  <2>1. call[c].pc = "check" /\ sent' = sent
    BY <1>3 DEF Dispatching!Check, Dispatching!At, Dispatching!history
  <2>2. CASE call' = [call EXCEPT ![c].pc = "token", ![c].left = MaxWait]
    <3> DEFINE e == [call[c] EXCEPT !.pc = "token", !.left = MaxWait]
    <3>1. /\ e \in CallRec /\ e.pc = "token" /\ e.left = MaxWait /\ e.at = call[c].at
          /\ e.attempt = call[c].attempt /\ e.sleep = call[c].sleep
      BY <1>0, LlmConstants, StateNames, AttemptsAre DEF CallRec
    <3>2. call' = [call EXCEPT ![c] = e]
      BY <1>0, <2>2 DEF LlmTypes
    <3> HIDE DEF e
    <3>3. /\ OneCall(c) /\ call'[c].pc = "token" /\ call'[c].at = call[c].at /\ call'[c].left = MaxWait
          /\ call'[c].sleep = call[c].sleep /\ call'[c].attempt = call[c].attempt
      BY <1>0, <3>1, <3>2 DEF LlmTypes, OneCall
    <3> QED
      BY <1>0, <2>1, <3>3, GoesOn DEF Over
  <2>3. CASE call' = [call EXCEPT ![c] = Dispatching!AfterFailure(c, FALSE)]
    BY <1>0, <2>1, <2>3, Fails
  <2> QED
    BY <1>3, <2>2, <2>3 DEF Dispatching!Check
<1>4. ASSUME NEW c \in Calls, Dispatching!Unlimited(c) \/ Dispatching!Take(c)
      PROVE  LlmBounds'
  BY <1>0, <1>4, JoinsQueue DEF Dispatching!Unlimited, Dispatching!Take, Dispatching!At, Dispatching!history
<1>5. ASSUME NEW c \in Calls, Dispatching!Nap(c)
      PROVE  LlmBounds'
  <2>1. /\ call[c].pc = "token" /\ call[c].at \in Limited /\ units[call[c].at] < Token
        /\ call' = [call EXCEPT ![c].pc = "nap", ![c].sleep = Dispatching!Needed(c)] /\ sent' = sent
    BY <1>5 DEF Dispatching!Nap, Dispatching!Short, Dispatching!At, Dispatching!history
  <2>2. Dispatching!Needed(c) \in 0..Token
    <3>1. units[call[c].at] \in Nat /\ Token \in Nat
      BY <1>0, <2>1, LlmConstants DEF LlmTypes
    <3> QED
      BY <2>1, <3>1 DEF Dispatching!Needed
  <2>3. PICK n \in 0..Token: n = Dispatching!Needed(c)
    BY <2>2
  <2>4. n \in Nat
    BY LlmConstants
  <2>5. /\ OneCall(c) /\ call'[c].pc = "nap" /\ call'[c].at = call[c].at /\ call'[c].left = call[c].left
        /\ call'[c].sleep = n /\ call'[c].attempt = call[c].attempt
    BY <1>0, <2>1, <2>3, <2>4 DEF LlmTypes, OneCall, CallRec, Dispatching!States, Dispatching!Asleep
  <2> QED
    BY <1>0, <2>1, <2>3, <2>5, GoesOn DEF Over
<1>6. ASSUME NEW c \in Calls, Dispatching!GiveUp(c)
      PROVE  LlmBounds'
  BY <1>0, <1>6, Fails DEF Dispatching!GiveUp, Dispatching!Short, Dispatching!At
<1>7. ASSUME NEW c \in Calls, Dispatching!Wake(c)
      PROVE  LlmBounds'
  <2>1. /\ call[c].pc \in {"nap", "backoff"} /\ sent' = sent
        /\ call' = [call EXCEPT ![c].pc = IF call[c].pc = "nap" THEN "token" ELSE "check"]
    BY <1>7 DEF Dispatching!Wake, Dispatching!At, Dispatching!history, Dispatching!Asleep
  <2>2. /\ OneCall(c) /\ call'[c].pc \in {"token", "check"} /\ call'[c].at = call[c].at
        /\ call'[c].left = call[c].left /\ call'[c].sleep = call[c].sleep /\ call'[c].attempt = call[c].attempt
    BY <1>0, <2>1 DEF LlmTypes, OneCall, CallRec, Dispatching!States
  <2> QED
    BY <1>0, <2>1, <2>2, GoesOn DEF Over
<1>8. ASSUME NEW c \in Calls, Dispatching!Answered(c) \/ Dispatching!Abandon(c)
      PROVE  LlmBounds'
  BY <1>0, <1>8, EndsWell DEF Dispatching!Answered, Dispatching!Abandon, Dispatching!history
<1>9. ASSUME NEW c \in Calls, NEW is429 \in BOOLEAN, Dispatching!Refused(c, is429)
      PROVE  LlmBounds'
  BY <1>0, <1>9, Fails DEF Dispatching!Refused, Dispatching!At
<1> QED
  BY <1>0, <1>1, <1>2, <1>3, <1>4, <1>5, <1>6, <1>7, <1>8, <1>9, SlotTaken, TimersRunDown
  DEF Dispatching!Next, Dispatching!Step

LEMMA BoundsStart ==
    ASSUME Dispatching!LlmCallAssumption, Dispatching!Init
    PROVE  LlmBounds
<1>1. \A c \in Calls: call[c] = Dispatching!New /\ sent[c]["primary"] = 0 /\ sent[c]["fallback"] = 0
  BY DEF Dispatching!Init, Dispatching!Providers
<1>2. \A c \in Calls: Fits(call[c], sent[c])
  BY <1>1, MoreOfNew, NewIs, LlmConstants DEF Fits, InFlight
<1>3. \A p \in Dispatching!Providers: Dispatching!Busy(p) = {} /\ Cap[p] \in Nat
  BY <1>1, NewIs DEF Dispatching!Busy, Dispatching!At, Dispatching!LlmCallAssumption
<1> QED
  BY <1>2, <1>3, FS_EmptySet DEF LlmBounds, SlotsHeld

LEMMA LlmTypesHold ==
    ASSUME Dispatching!LlmCallAssumption, LlmInv, LlmBounds
    PROVE  Dispatching!TypeOK
<1>0. LlmTypes
  BY DEF LlmInv
<1>1. call \in [Calls -> [pc: Dispatching!States, at: Dispatching!Providers, attempt: 0..MaxRetries,
                          left: 0..(MaxWait + Timeout), sleep: 0..(Token + RetryAfter)]]
  <2>1. ASSUME NEW c \in Calls
        PROVE  call[c] \in [pc: Dispatching!States, at: Dispatching!Providers, attempt: 0..MaxRetries,
                            left: 0..(MaxWait + Timeout), sleep: 0..(Token + RetryAfter)]
    <3>1. call[c] \in CallRec
      BY <1>0, AttemptsAre
    <3>2. call[c].attempt \in 0..MaxRetries /\ call[c].left \in 0..(MaxWait + Timeout)
          /\ call[c].sleep \in 0..(Token + RetryAfter)
      BY <1>0, LlmConstants, AttemptsAre DEF LlmBounds, Fits
    <3> QED
      BY <3>1, <3>2 DEF CallRec
  <2> QED
    BY <1>0, <2>1 DEF LlmTypes
<1>2. sent \in [Calls -> [Dispatching!Providers -> 0..(MaxRetries + 1)]]
  <2>1. ASSUME NEW c \in Calls
        PROVE  sent[c] \in [Dispatching!Providers -> 0..(MaxRetries + 1)]
    <3>1. sent[c] \in [{"primary", "fallback"} -> Nat]
      BY <1>0 DEF LlmTypes, Dispatching!Providers
    <3>2. sent[c]["primary"] <= MaxRetries + 1 /\ sent[c]["fallback"] <= MaxRetries + 1
      BY DEF LlmBounds, Fits
    <3> QED
      BY <3>1, <3>2, LlmConstants
  <2> QED
    BY <1>0, <2>1 DEF LlmTypes
<1>3. \A p \in Dispatching!Providers:
        Dispatching!Cardinality({c \in Calls: call[c].pc = "busy" /\ call[c].at = p}) <= Cap[p]
  BY DEF LlmBounds, SlotsHeld, Dispatching!Busy, Dispatching!At, Dispatching!Cardinality, Cardinality
<1> QED
  BY <1>0, <1>1, <1>2, <1>3 DEF Dispatching!TypeOK, LlmTypes

-----------------------------------------------------------------------------
(* ReplicaDrift: what bounds the queue of a pass, and the states of Swarm. *)

HealthTyped == health \in [Services -> Drift!Health]

LEMMA HealthStep ==
    ASSUME HealthTyped, [Drift!Next]_(Drift!vars)
    PROVE  HealthTyped'
<1>1. health' = health \/ Drift!Swarm
  BY DEF Drift!vars, Drift!Next, Drift!LoopStep, Drift!Wake, Drift!ListOk, Drift!ListRaises, Drift!EndScan,
         Drift!Emit, Drift!Heal, Drift!EndPoll, Drift!Look, Drift!LookRaises
<1> QED
  BY <1>1 DEF HealthTyped, Drift!Swarm

\* No service has two alerts in the queue, so the queue is no longer than there are services.
LEMMA DriftTypesHold ==
    ASSUME Drift!DriftAssumption, DriftInv, HealthTyped
    PROVE  Drift!TypeOK
<1> DEFINE whose == [i \in 1..Len(alerts) |-> alerts[i].svc]
<1>1. alerts \in Seq(Drift!Alert) /\ Len(alerts) \in Nat
  BY DEF DriftInv, DriftTypes
<1>2. whose \in [1..Len(alerts) -> Services]
  <2>1. \A i \in 1..Len(alerts): alerts[i] \in Drift!Alert
    BY <1>1
  <2> QED
    BY <2>1 DEF Drift!Alert
<1>3. \A i, j \in 1..Len(alerts): whose[i] = whose[j] => i = j
  BY DEF DriftInv, OneAlertEach
<1>4. whose \in Injection(1..Len(alerts), Services)
  BY <1>2, <1>3 DEF Injection, IsInjective
<1>5. IsFiniteSet(Services)
  BY DEF Drift!DriftAssumption, Drift!IsFiniteSet, IsFiniteSet
<1> HIDE DEF whose
<1>6. Cardinality(1..Len(alerts)) <= Cardinality(Services)
  BY <1>4, <1>5, FS_Injection
<1>7. Cardinality(1..Len(alerts)) = Len(alerts)
  <2>1. \A n \in Nat: Cardinality(1..n) = IF 1 > n THEN 0 ELSE n - 1 + 1
    BY FS_Interval
  <2> QED
    BY <1>1, <2>1
<1>8. Drift!Cardinality(Services) = Cardinality(Services)
  BY DEF Drift!Cardinality, Cardinality
<1> QED
  BY <1>6, <1>7, <1>8 DEF DriftInv, DriftTypes, HealthTyped, Drift!TypeOK

-----------------------------------------------------------------------------
(* All parts.                                                              *)

\* The run of MCPlatform runs each of the parts: what is proved of a part's specification
\* holds of every behaviour TLC looks at.
THEOREM PlatformRunsItsParts ==
    PlatformSpec => Dispatching!Spec /\ Routing!Spec /\ Engine!Spec /\ Drift!Spec /\ Leader!Spec
<1> DEFINE A == Dispatching!Next
           B == Routing!Next
           C == Engine!Next
           D == Drift!Next
           E == Leader!Next
<1>1. PlatformInit => Dispatching!Init /\ Routing!Init /\ Engine!Init /\ Drift!Init /\ Leader!Init
  BY DEF PlatformInit
<1>2. ASSUME [PlatformNext]_platformVars
      PROVE  /\ [A]_(Dispatching!vars) /\ [B]_(Routing!vars) /\ [C]_(Engine!vars) /\ [D]_(Drift!vars)
             /\ [E]_(Leader!vars)
  <2>1. CASE InCalls(A)
    BY <2>1 DEF InCalls, routingVars, engineVars, driftVars, leaderVars, Routing!vars, Engine!vars, Drift!vars, Leader!vars
  <2>2. CASE InRouting(B)
    BY <2>2 DEF InRouting, callVars, engineVars, driftVars, leaderVars, Dispatching!vars, Engine!vars, Drift!vars, Leader!vars
  <2>3. CASE InEngine(C)
    BY <2>3 DEF InEngine, callVars, routingVars, driftVars, leaderVars, Dispatching!vars, Routing!vars, Drift!vars, Leader!vars
  <2>4. CASE InDrift(Drift!Swarm) \/ InDrift(Drift!LoopStep)
    <3>1. D
      BY <2>4 DEF InDrift, Drift!Next
    <3> HIDE DEF D
    <3> QED
      BY <2>4, <3>1 DEF InDrift, callVars, routingVars, engineVars, leaderVars, Dispatching!vars, Routing!vars, Engine!vars, Leader!vars
  <2>5. CASE InLeader(E)
    BY <2>5 DEF InLeader, callVars, routingVars, engineVars, driftVars, Dispatching!vars, Routing!vars, Engine!vars, Drift!vars
  <2>6. CASE UNCHANGED platformVars
    BY <2>6 DEF platformVars, callVars, routingVars, engineVars, driftVars, leaderVars, Dispatching!vars, Routing!vars, Engine!vars, Drift!vars, Leader!vars
  <2> HIDE DEF A, B, C, D, E
  <2> QED
    BY <1>2, <2>1, <2>2, <2>3, <2>4, <2>5, <2>6 DEF PlatformNext, A, B, C, E
<1> QED
  BY <1>1, <1>2, PTL DEF PlatformSpec, Dispatching!Spec, Routing!Spec, Engine!Spec, Drift!Spec, Leader!Spec

\* The variables of every part keep their types.  In LlmCall that no provider is asked more
\* often than the retries allow and that no semaphore is exceeded; in ReplicaDrift that a
\* pass queues one alert a service at most.
THEOREM PlatformTypeCorrect ==
    ASSUME Dispatching!LlmCallAssumption, Routing!RoutingAssumption, Engine!AutohealAssumption,
           Drift!DriftAssumption, Leader!LeaderAssumption
    PROVE  PlatformSpec => []PlatformTypeOK
<1>1. Dispatching!Spec => []Dispatching!TypeOK
  <2>1. Dispatching!Init => LlmBounds
    BY BoundsStart
  <2>2. LlmInv /\ LlmBounds /\ [Dispatching!Next]_(Dispatching!vars) => LlmBounds'
    BY BoundsStep
  <2>3. LlmInv /\ LlmBounds => Dispatching!TypeOK
    BY LlmTypesHold
  <2> QED
    BY <2>1, <2>2, <2>3, LlmInductive, PTL DEF Dispatching!Spec
<1>2. Engine!Spec => []Engine!TypeOK
  <2>1. Engine!Init => EngineInv
    BY EngineInit
  <2>2. EngineInv /\ [Engine!Next]_(Engine!vars) => EngineInv'
    BY EngineInductive
  <2>3. EngineInv => Engine!TypeOK
    BY DEF EngineInv
  <2> QED
    BY <2>1, <2>2, <2>3, PTL DEF Engine!Spec
<1>3. Drift!Spec => []Drift!TypeOK
  <2>1. Drift!Init => DriftInv /\ HealthTyped
    BY DriftInit DEF Drift!Init, HealthTyped, Drift!Health
  <2>2. DriftInv /\ [Drift!Next]_(Drift!vars) => DriftInv'
    BY DriftInductive
  <2>3. HealthTyped /\ [Drift!Next]_(Drift!vars) => HealthTyped'
    BY HealthStep
  <2>4. DriftInv /\ HealthTyped => Drift!TypeOK
    BY DriftTypesHold
  <2> QED
    BY <2>1, <2>2, <2>3, <2>4, PTL DEF Drift!Spec
<1>4. Leader!Spec => []Leader!TypeOK
  <2>1. Leader!Init => LeaderInv
    BY LeaderStart
  <2>2. LeaderInv /\ [Leader!Next]_(Leader!vars) => LeaderInv'
    BY LeaderInductive
  <2>3. LeaderInv => Leader!TypeOK
    BY DEF LeaderInv
  <2> QED
    BY <2>1, <2>2, <2>3, PTL DEF Leader!Spec
<1> QED
  BY <1>1, <1>2, <1>3, <1>4, RoutingTypeCorrect, PlatformRunsItsParts, PTL DEF PlatformTypeOK
=============================================================================
