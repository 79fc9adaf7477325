--------------------------- MODULE OperatorProofs ----------------------------
(***************************************************************************)
(* Proofs about the limits operators set and the alerts they get, for all  *)
(* constants of MCEdits.                                                   *)
(*                                                                         *)
(* RateLimiter, for any number of requests, starting processes and edits:  *)
(* no window lets more through than the highest limit a request read.      *)
(* CostBreaker, for any number of calls, edits and outages: a call is let  *)
(* through or blocked as the hour and the operator would have it, within   *)
(* the lives of the two caches.                                            *)
(* CostAlerts and Digest, for any number of processes: operators are told  *)
(* once.  With CreatorProofs: the types of all that MCEdits composes.      *)
(***************************************************************************)
EXTENDS CreatorProofs, Sequences, TLAPS, FiniteSetTheorems, WellFoundedInduction, NaturalsInduction

-----------------------------------------------------------------------------
(* RateLimiter.                                                            *)

\* Each counter is as high as the requests it has counted at most, the minute's no higher
\* than the hour's, and no lower than those it let through.
Judged == {r \in Reqs: req[r].pc \in Limiter!Ends}
Through == {r \in Reqs: req[r].pc = "served"}
CountersCount ==
    /\ inHour <= Cardinality(Judged) /\ Cardinality(Through) <= inHour
    /\ \A m \in 1..Minutes: inMin[m] <= inHour /\ Cardinality(Limiter!Served(m)) <= inMin[m]
    /\ \A r \in Reqs: req[r].pc # "new" => req[r].bucket \in 1..Minutes

\* The last one let through was let through under its limit.
Under(S, w) == S # {} => \E r \in S: Cardinality(S) <= req[r].lim[w]
CapsUnder == Under(Through, "hour") /\ \A m \in 1..Minutes: Under(Limiter!Served(m), "min")

\* While nobody overlapped and Redis was there: what a writer still has to write is what
\* the table holds, and there is no other writer.
OneInserter ==
    ~mixed /\ ~dark =>
        /\ limiterRedis
        /\ \A p \in Procs: boot[p].pc = "read" =>
              /\ boot[p].rows = table
              /\ \A q \in Procs: boot[q].pc = "read" => q = p
              /\ \A a \in Puts: put[a].pc # "hset"
        /\ \A a \in Puts: put[a].pc = "hset" =>
              /\ table = [hash EXCEPT ![put[a].key] = put[a].val]
              /\ \A b \in Puts: put[b].pc = "hset" => a = b
        /\ Limiter!Serving /\ ~Limiter!Writing => hash = table

LimiterInv == Limiter!TypeOK /\ CountersCount /\ CapsUnder /\ OneInserter

Request == [pc: {"new", "hit"} \cup Limiter!Ends, bucket: 0..Minutes,
            lim: [Limiter!Windows -> Limits \cup {Limiter!Absent}]]

LEMMA LimiterTypes ==
    ASSUME Limiter!LimiterAssumption
    PROVE  /\ IsFiniteSet(Reqs) /\ Cardinality(Reqs) \in Nat
           /\ Limiter!Cardinality(Reqs) = Cardinality(Reqs) /\ Limiter!IntMax \in Nat
           /\ \A S \in SUBSET Reqs: /\ IsFiniteSet(S) /\ Cardinality(S) \in Nat /\ Cardinality(S) <= Cardinality(Reqs)
                                    /\ Limiter!Cardinality(S) = Cardinality(S)
<1>1. ASSUME NEW S PROVE Limiter!Cardinality(S) = Cardinality(S)
  BY DEF Limiter!Cardinality, Cardinality
<1>2. ASSUME NEW S PROVE Limiter!IsFiniteSet(S) <=> IsFiniteSet(S)
  BY DEF Limiter!IsFiniteSet, IsFiniteSet
<1>3. IsFiniteSet(Reqs)
  BY <1>2 DEF Limiter!LimiterAssumption
<1>4. Limiter!IntMax \in Nat
  BY SMT DEF Limiter!IntMax
<1> QED
  BY <1>1, <1>3, <1>4, FS_Subset, FS_CardinalityType

\* A step of one request only.
OneRequest(r) ==
    /\ req' \in [Reqs -> Request] /\ \A s \in Reqs \ {r}: req'[s] = req[s]

LEMMA ReadFacts ==
    ASSUME Limiter!LimiterAssumption, Limiter!TypeOK, NEW r \in Reqs, Limiter!Read(r)
    PROVE  /\ OneRequest(r) /\ req'[r].pc = "hit" /\ req'[r].bucket \in 1..Minutes
           /\ req[r].pc = "new"
<1> DEFINE x == [pc |-> "hit", bucket |-> minute, lim |-> Limiter!Current]
<1>1. Limiter!Current \in [Limiter!Windows -> Limits \cup {Limiter!Absent}]
  BY DEF Limiter!Current, Limiter!LimiterAssumption, Limiter!TypeOK
<1>2. x \in Request
  BY <1>1 DEF Request, Limiter!TypeOK
<1> QED
  BY <1>2 DEF Limiter!Read, Limiter!TypeOK, OneRequest, Request

LEMMA VerdictIs ==
    ASSUME NEW lim, NEW m, NEW h
    PROVE  /\ Limiter!Verdict(lim, m, h) \in Limiter!Ends
           /\ Limiter!Verdict(lim, m, h) = "served" => ~(m > lim["min"]) /\ ~(h > lim["hour"])
BY DEF Limiter!Verdict, Limiter!Ends

LEMMA HitFacts ==
    ASSUME Limiter!LimiterAssumption, Limiter!TypeOK, NEW r \in Reqs,
           Limiter!Hit(r) \/ Limiter!HitFails(r)
    PROVE  /\ OneRequest(r) /\ req[r].pc = "hit" /\ req'[r].pc \in Limiter!Ends
           /\ req'[r].bucket = req[r].bucket /\ req'[r].lim = req[r].lim
<1>1. PICK e \in Limiter!Ends: req' = [req EXCEPT ![r].pc = e] /\ req[r].pc = "hit"
  BY VerdictIs DEF Limiter!Hit, Limiter!HitFails, Limiter!Ends
<1>2. req \in [Reqs -> Request]
  BY DEF Limiter!TypeOK, Request
<1>3. [req[r] EXCEPT !.pc = e] \in Request
  BY <1>2 DEF Request
<1>4. req' = [q \in Reqs |-> IF q = r THEN [req[r] EXCEPT !.pc = e] ELSE req[q]]
  BY <1>1, <1>2
<1>5. OneRequest(r) /\ req'[r] = [req[r] EXCEPT !.pc = e]
  BY <1>2, <1>3, <1>4 DEF OneRequest
<1> QED
  BY <1>1, <1>2, <1>5 DEF Request

\* The requests that a hit moves, one counted and perhaps let through.
LEMMA CountersStep ==
    ASSUME Limiter!LimiterAssumption, Limiter!TypeOK, CountersCount, Limiter!Next
    PROVE  CountersCount'
<1> USE DEF CountersCount
<1>0. /\ Judged \in SUBSET Reqs /\ Through \in SUBSET Reqs
      /\ \A m \in 1..Minutes: Limiter!Served(m) \in SUBSET Reqs
      /\ Judged' \in SUBSET Reqs /\ Through' \in SUBSET Reqs
      /\ \A m \in 1..Minutes: Limiter!Served(m)' \in SUBSET Reqs
  BY DEF Judged, Through, Limiter!Served
<1>1. ASSUME UNCHANGED <<req, inMin, inHour>>
      PROVE  CountersCount'
  BY <1>1 DEF Judged, Through, Limiter!Served
<1>2. ASSUME NEW r \in Reqs, Limiter!Read(r)
      PROVE  CountersCount'
  <2>1. Judged' = Judged /\ Through' = Through
    BY <1>2, ReadFacts DEF OneRequest, Judged, Through, Limiter!Ends
  <2>2. \A m \in 1..Minutes: Limiter!Served(m)' = Limiter!Served(m)
    BY <1>2, ReadFacts DEF OneRequest, Limiter!Served, Limiter!Ends
  <2>3. \A s \in Reqs: req'[s].pc # "new" => req'[s].bucket \in 1..Minutes
    BY <1>2, ReadFacts DEF OneRequest
  <2> QED
    BY <1>2, <2>1, <2>2, <2>3 DEF Limiter!Read
<1>3. ASSUME NEW r \in Reqs, Limiter!HitFails(r)
      PROVE  CountersCount'
  <2>0. req'[r].pc = "waved"
    BY <1>3 DEF Limiter!HitFails, Limiter!TypeOK
  <2>1. Judged' = Judged \cup {r} /\ Through' = Through
    BY <1>3, <2>0, HitFacts DEF OneRequest, Judged, Through, Limiter!Ends
  <2>2. \A m \in 1..Minutes: Limiter!Served(m)' = Limiter!Served(m)
    BY <1>3, <2>0, HitFacts DEF OneRequest, Limiter!Served, Limiter!Ends
  <2>3. \A s \in Reqs: req'[s].pc # "new" => req'[s].bucket \in 1..Minutes
    BY <1>3, HitFacts DEF OneRequest
  <2>4. Cardinality(Judged) <= Cardinality(Judged')
    BY <1>0, <2>1, LimiterTypes, FS_AddElement
  <2>5. Cardinality(Judged) \in Nat /\ Cardinality(Judged') \in Nat
    BY <1>0, LimiterTypes
  <2> QED
    BY <1>3, <2>1, <2>2, <2>3, <2>4, <2>5, LimiterTypes DEF Limiter!HitFails, Limiter!TypeOK
<1>4. ASSUME NEW r \in Reqs, Limiter!Hit(r)
      PROVE  CountersCount'
  <2>1. r \notin Judged /\ Judged' = Judged \cup {r}
    BY <1>4, HitFacts DEF OneRequest, Judged, Limiter!Ends
  <2>2. r \notin Through /\ Through' = IF req'[r].pc = "served" THEN Through \cup {r} ELSE Through
    BY <1>4, HitFacts DEF OneRequest, Through, Limiter!Ends
  <2>3. \A m \in 1..Minutes:
            /\ r \notin Limiter!Served(m)
            /\ Limiter!Served(m)' = IF req'[r].pc = "served" /\ req[r].bucket = m
                                    THEN Limiter!Served(m) \cup {r} ELSE Limiter!Served(m)
    BY <1>4, HitFacts DEF OneRequest, Limiter!Served, Limiter!Ends
  <2>4. Cardinality(Judged') = Cardinality(Judged) + 1
    BY <1>0, <2>1, LimiterTypes, FS_AddElement
  <2>5. Cardinality(Through') <= Cardinality(Through) + 1
    BY <1>0, <2>2, LimiterTypes, FS_AddElement
  <2>6. ASSUME NEW m \in 1..Minutes
        PROVE  Cardinality(Limiter!Served(m)') <= Cardinality(Limiter!Served(m))
                   + (IF req[r].bucket = m THEN 1 ELSE 0)
    BY <1>0, <2>3, LimiterTypes, FS_AddElement
  <2>7. /\ inHour' = inHour + 1 /\ req[r].bucket \in 1..Minutes
        /\ \A m \in 1..Minutes: inMin'[m] = inMin[m] + (IF req[r].bucket = m THEN 1 ELSE 0)
    BY <1>4, HitFacts DEF Limiter!Hit, Limiter!TypeOK
  <2>8. /\ inHour \in Int /\ \A m \in 1..Minutes: inMin[m] \in Int
        /\ Cardinality(Judged) \in Int /\ Cardinality(Judged') \in Int
        /\ Cardinality(Through) \in Int /\ Cardinality(Through') \in Int
    <3>1. inHour \in Int /\ \A m \in 1..Minutes: inMin[m] \in Int
      BY LimiterTypes DEF Limiter!TypeOK
    <3> QED
      BY <1>0, <3>1, LimiterTypes
  <2>9. \A m \in 1..Minutes: Cardinality(Limiter!Served(m)) \in Int /\ Cardinality(Limiter!Served(m)') \in Int
    BY <1>0, LimiterTypes
  <2>10. inHour' <= Cardinality(Judged') /\ Cardinality(Through') <= inHour'
    BY <2>4, <2>5, <2>7, <2>8
  <2>11. \A m \in 1..Minutes: inMin'[m] <= inHour' /\ Cardinality(Limiter!Served(m)') <= inMin'[m]
    <3> SUFFICES ASSUME NEW m \in 1..Minutes
                 PROVE  inMin'[m] <= inHour' /\ Cardinality(Limiter!Served(m)') <= inMin'[m]
      OBVIOUS
    <3>1. inMin[m] <= inHour /\ Cardinality(Limiter!Served(m)) <= inMin[m]
      OBVIOUS
    <3>2. inMin'[m] = inMin[m] + (IF req[r].bucket = m THEN 1 ELSE 0)
      BY <2>7
    <3> QED
      BY <3>1, <3>2, <2>6, <2>7, <2>8, <2>9
  <2>12. \A s \in Reqs: req'[s].pc # "new" => req'[s].bucket \in 1..Minutes
    BY <1>4, HitFacts DEF OneRequest
  <2> QED
    BY <2>10, <2>11, <2>12
<1> QED
  BY <1>1, <1>2, <1>3, <1>4 DEF Limiter!Next, Limiter!HydrateRead, Limiter!HydrateWrite, Limiter!PutHash,
     Limiter!PutTable, Limiter!NextMinute, Limiter!RedisToggle

LEMMA ReadAreNat ==
    ASSUME Limiter!LimiterAssumption, Limiter!TypeOK, NEW r \in Reqs, NEW w \in Limiter!Windows
    PROVE  req[r].lim[w] \in Nat /\ req[r].lim[w] <= Limiter!IntMax
<1>1. req[r].lim[w] \in Limits \cup {0}
  BY DEF Limiter!TypeOK, Limiter!Absent
<1>2. \A v \in Limits: v \in Nat /\ v <= Limiter!IntMax
  BY LimiterTypes DEF Limiter!LimiterAssumption
<1>3. 0 <= Limiter!IntMax
  BY LimiterTypes
<1> QED
  BY <1>1, <1>2, <1>3

LEMMA CapsStep ==
    ASSUME Limiter!LimiterAssumption, Limiter!TypeOK, CountersCount, CapsUnder, Limiter!Next
    PROVE  CapsUnder'
<1> USE DEF CapsUnder, Under
<1>1. ASSUME UNCHANGED req
      PROVE  CapsUnder'
  BY <1>1 DEF Through, Limiter!Served
<1>2. ASSUME NEW r \in Reqs, Limiter!Read(r) \/ Limiter!Hit(r) \/ Limiter!HitFails(r), req'[r].pc # "served"
      PROVE  CapsUnder'
  <2>1. req[r].pc # "served" /\ OneRequest(r)
    BY <1>2, ReadFacts, HitFacts
  <2>2. Through' = Through /\ \A s \in Through: req'[s] = req[s]
    BY <1>2, <2>1 DEF OneRequest, Through
  <2>3. \A m \in 1..Minutes: Limiter!Served(m)' = Limiter!Served(m) /\ \A s \in Limiter!Served(m): req'[s] = req[s]
    BY <1>2, <2>1 DEF OneRequest, Limiter!Served
  <2> QED
    BY <2>2, <2>3
<1>3. ASSUME NEW r \in Reqs, Limiter!Hit(r), req'[r].pc = "served"
      PROVE  CapsUnder'
  <2>1. ~(inMin'[req[r].bucket] > req[r].lim["min"]) /\ ~(inHour' > req[r].lim["hour"])
    <3>1. req'[r].pc = Limiter!Verdict(req[r].lim, inMin'[req[r].bucket], inHour')
      BY <1>3 DEF Limiter!Hit, Limiter!TypeOK
    <3> QED
      BY <1>3, <3>1, VerdictIs
  <2>2. CountersCount' /\ req[r].bucket \in 1..Minutes
    BY <1>3, CountersStep, HitFacts DEF CountersCount
  <2>3. /\ req[r].lim["min"] \in Nat /\ req[r].lim["hour"] \in Nat /\ req'[r].lim = req[r].lim
        /\ inHour' \in Nat /\ inMin'[req[r].bucket] \in Nat
    <3>3. inHour' \in Nat /\ inMin'[req[r].bucket] \in Nat
      BY <1>3, <2>2, LimiterTypes DEF Limiter!Hit, Limiter!TypeOK
    <3>4. req'[r].lim = req[r].lim
      BY <1>3, HitFacts
    <3>5. req[r].lim["min"] \in Nat /\ req[r].lim["hour"] \in Nat
      BY ReadAreNat DEF Limiter!Windows
    <3> QED
      BY <3>3, <3>4, <3>5
  <2>4. /\ Through' \in SUBSET Reqs /\ Cardinality(Through') \in Nat
        /\ \A m \in 1..Minutes: Limiter!Served(m)' \in SUBSET Reqs /\ Cardinality(Limiter!Served(m)') \in Nat
    BY LimiterTypes DEF Through, Limiter!Served
  <2>5. r \in Through' /\ Cardinality(Through') <= req'[r].lim["hour"]
    <3>1. Cardinality(Through') <= inHour'
      BY <2>2 DEF CountersCount
    <3> QED
      BY <1>3, <2>1, <2>3, <2>4, <3>1 DEF Through
  <2>6. ASSUME NEW m \in 1..Minutes
        PROVE  Under(Limiter!Served(m), "min")'
    <3>1. CASE m = req[r].bucket
      <4>1. r \in Limiter!Served(m)'
        BY <1>3, <3>1, HitFacts DEF Limiter!Served
      <4>2. Cardinality(Limiter!Served(m)') <= inMin'[m]
        BY <2>2 DEF CountersCount
      <4>3. Cardinality(Limiter!Served(m)') <= req'[r].lim["min"]
        BY <4>2, <2>1, <2>3, <2>4, <3>1
      <4> QED
        BY <4>1, <4>3, <2>4
    <3>2. CASE m # req[r].bucket
      <4>1. Limiter!Served(m)' = Limiter!Served(m) /\ \A s \in Limiter!Served(m): req'[s] = req[s]
        BY <1>3, <3>2, HitFacts DEF OneRequest, Limiter!Served
      <4> QED
        BY <4>1
    <3> QED
      BY <3>1, <3>2
  <2> QED
    BY <2>4, <2>5, <2>6
<1>4. ASSUME NEW r \in Reqs, Limiter!Read(r) \/ Limiter!HitFails(r)
      PROVE  req'[r].pc # "served"
  BY <1>4, ReadFacts DEF Limiter!HitFails, Limiter!TypeOK
<1> QED
  BY <1>1, <1>2, <1>3, <1>4 DEF Limiter!Next, Limiter!HydrateRead, Limiter!HydrateWrite, Limiter!PutHash,
     Limiter!PutTable, Limiter!NextMinute, Limiter!RedisToggle

Edited == [pc: {"new", "hset", "done"}, key: Limiter!Windows, val: Limits \cup {Limiter!Absent}]
Hydrated == [pc: {"off", "read", "up"}, rows: [Limiter!Windows -> Limits \cup {Limiter!Absent}]]
ConfigTyped ==
    /\ table \in [Limiter!Windows -> Limits] /\ hash \in [Limiter!Windows -> Limits \cup {Limiter!Absent}]
    /\ boot \in [Procs -> Hydrated] /\ put \in [Puts -> Edited]

LEMMA ConfigStep ==
    ASSUME ConfigTyped, Limiter!Next
    PROVE  ConfigTyped'
<1> USE DEF ConfigTyped
<1>1. ASSUME NEW p \in Procs, Limiter!HydrateRead(p)
      PROVE  ConfigTyped'
  <2>1. [pc |-> "read", rows |-> table] \in Hydrated
    BY DEF Hydrated
  <2> QED
    BY <1>1, <2>1 DEF Limiter!HydrateRead
<1>2. ASSUME NEW p \in Procs, Limiter!HydrateWrite(p)
      PROVE  ConfigTyped'
  <2>1. [pc |-> "up", rows |-> Limiter!NoLimits] \in Hydrated
    BY DEF Hydrated, Limiter!NoLimits
  <2>2. hash' \in [Limiter!Windows -> Limits \cup {Limiter!Absent}]
    BY <1>2 DEF Limiter!HydrateWrite, Hydrated
  <2> QED
    BY <1>2, <2>1, <2>2 DEF Limiter!HydrateWrite
<1>3. ASSUME NEW a \in Puts, Limiter!PutHash(a)
      PROVE  ConfigTyped'
  <2>1. hash' \in [Limiter!Windows -> Limits \cup {Limiter!Absent}]
    BY <1>3 DEF Limiter!PutHash, Edited
  <2>2. put' \in [Puts -> Edited]
    BY <1>3 DEF Limiter!PutHash, Edited
  <2> QED
    BY <1>3, <2>1, <2>2 DEF Limiter!PutHash
<1>4. ASSUME NEW a \in Puts, NEW w \in Limiter!Windows, NEW v \in Limits, Limiter!PutTable(a, w, v)
      PROVE  ConfigTyped'
  <2>1. [pc |-> "hset", key |-> w, val |-> v] \in Edited
    BY DEF Edited
  <2> QED
    BY <1>4, <2>1 DEF Limiter!PutTable
<1>5. ASSUME UNCHANGED Limiter!config
      PROVE  ConfigTyped'
  BY <1>5 DEF Limiter!config
<1> QED
  BY <1>1, <1>2, <1>3, <1>4, <1>5 DEF Limiter!Next, Limiter!Read, Limiter!Hit, Limiter!HitFails,
     Limiter!NextMinute, Limiter!RedisToggle

LEMMA LimiterTypeStep ==
    ASSUME Limiter!LimiterAssumption, Limiter!TypeOK, CountersCount, Limiter!Next
    PROVE  Limiter!TypeOK'
<1>1. CountersCount'
  BY CountersStep
<1>2. /\ limiterRedis' \in BOOLEAN /\ mixed' \in BOOLEAN /\ dark' \in BOOLEAN
  BY DEF Limiter!Next, Limiter!HydrateRead, Limiter!HydrateWrite, Limiter!PutHash, Limiter!PutTable,
     Limiter!Read, Limiter!Hit, Limiter!HitFails, Limiter!NextMinute, Limiter!RedisToggle, Limiter!config,
     Limiter!TypeOK
<1>3. ConfigTyped'
  BY ConfigStep DEF Limiter!TypeOK, ConfigTyped, Hydrated, Edited
<1>4. minute' \in 1..Minutes
  <2>1. CASE Limiter!NextMinute
    BY <2>1 DEF Limiter!NextMinute, Limiter!LimiterAssumption, Limiter!TypeOK
  <2>2. CASE UNCHANGED minute
    BY <2>2 DEF Limiter!TypeOK
  <2> QED
    BY <2>1, <2>2 DEF Limiter!Next, Limiter!HydrateRead, Limiter!HydrateWrite, Limiter!PutHash, Limiter!PutTable,
     Limiter!Read, Limiter!Hit, Limiter!HitFails, Limiter!RedisToggle
<1>5. req' \in [Reqs -> Request]
  BY ReadFacts, HitFacts
     DEF Limiter!Next, Limiter!HydrateRead, Limiter!HydrateWrite, Limiter!PutHash, Limiter!PutTable,
     Limiter!NextMinute, Limiter!RedisToggle, Limiter!TypeOK, OneRequest, Request
<1>6. inMin' \in [1..Minutes -> Nat] /\ inHour' \in Nat
  BY DEF Limiter!Next, Limiter!HydrateRead, Limiter!HydrateWrite, Limiter!PutHash, Limiter!PutTable,
     Limiter!Read, Limiter!Hit, Limiter!HitFails, Limiter!NextMinute, Limiter!RedisToggle,
     Limiter!TypeOK
<1>7. inMin' \in [1..Minutes -> 0..Limiter!Cardinality(Reqs)] /\ inHour' \in 0..Limiter!Cardinality(Reqs)
  <2>1. Judged' \in SUBSET Reqs
    BY DEF Judged
  <2>2. Cardinality(Judged') \in Nat /\ Cardinality(Judged') <= Cardinality(Reqs) /\ Cardinality(Reqs) \in Nat
    BY <2>1, LimiterTypes
  <2>3. inHour' <= Cardinality(Reqs)
    BY <1>1, <1>6, <2>2 DEF CountersCount
  <2>4. \A m \in 1..Minutes: inMin'[m] \in 0..Cardinality(Reqs)
    BY <1>1, <1>6, <2>2, <2>3 DEF CountersCount
  <2> QED
    BY <1>6, <2>2, <2>3, <2>4, LimiterTypes
<1> QED
  BY <1>2, <1>3, <1>4, <1>5, <1>7 DEF Limiter!TypeOK, ConfigTyped, Hydrated, Edited, Request

\* One writer at a time leaves the hash as the table is.
LEMMA OneWriterStep ==
    ASSUME Limiter!LimiterAssumption, Limiter!TypeOK, OneInserter, Limiter!Next
    PROVE  OneInserter'
<1> SUFFICES ASSUME ~mixed', ~dark'
             PROVE  OneInserter'
  BY DEF OneInserter
<1>0. ~mixed /\ ~dark
  BY DEF Limiter!Next, Limiter!HydrateRead, Limiter!HydrateWrite, Limiter!PutHash, Limiter!PutTable,
     Limiter!Read, Limiter!Hit, Limiter!HitFails, Limiter!NextMinute, Limiter!RedisToggle, Limiter!config,
     Limiter!TypeOK
<1>1. ASSUME NEW p \in Procs, Limiter!HydrateRead(p)
      PROVE  OneInserter'
  <2>1. ~Limiter!Writing
    BY <1>1 DEF Limiter!HydrateRead, Limiter!TypeOK
  <2>2. boot'[p] = [pc |-> "read", rows |-> table] /\ \A q \in Procs \ {p}: boot'[q] = boot[q]
    BY <1>1 DEF Limiter!HydrateRead, Limiter!TypeOK
  <2>3. Limiter!Writing'
    BY <2>2 DEF Limiter!Writing
  <2> QED
    BY <1>0, <1>1, <2>1, <2>2, <2>3 DEF Limiter!HydrateRead, Limiter!Writing, OneInserter
<1>2. ASSUME NEW p \in Procs, Limiter!HydrateWrite(p)
      PROVE  OneInserter'
  <2>1. boot'[p].pc = "up" /\ \A q \in Procs \ {p}: boot'[q] = boot[q]
    BY <1>2 DEF Limiter!HydrateWrite, Limiter!TypeOK
  <2>2. hash' = table /\ table' = table /\ put' = put /\ limiterRedis'
    BY <1>0, <1>2 DEF Limiter!HydrateWrite, OneInserter
  <2>3. ~Limiter!Writing'
    BY <1>0, <1>2, <2>1, <2>2 DEF Limiter!HydrateWrite, Limiter!Writing, OneInserter
  <2> QED
    BY <2>2, <2>3 DEF Limiter!Writing, OneInserter
<1>3. ASSUME NEW a \in Puts, NEW w \in Limiter!Windows, NEW v \in Limits, Limiter!PutTable(a, w, v)
      PROVE  OneInserter'
  <2>1. ~Limiter!Writing /\ Limiter!Serving
    BY <1>3 DEF Limiter!PutTable, Limiter!TypeOK
  <2>2. hash = table /\ limiterRedis
    BY <1>0, <2>1 DEF OneInserter
  <2>3. put'[a] = [pc |-> "hset", key |-> w, val |-> v] /\ \A b \in Puts \ {a}: put'[b] = put[b]
    BY <1>3 DEF Limiter!PutTable, Limiter!TypeOK
  <2>4. hash' = table /\ table' = [hash EXCEPT ![w] = v] /\ boot' = boot /\ limiterRedis'
    BY <1>3, <2>2 DEF Limiter!PutTable
  <2>5. Limiter!Writing'
    BY <2>3 DEF Limiter!Writing
  <2>6. /\ put'[a].pc = "hset" /\ put'[a].key = w /\ put'[a].val = v
        /\ \A b \in Puts: put'[b].pc = "hset" => b = a
    BY <2>1, <2>3 DEF Limiter!Writing
  <2>7. \A p \in Procs: boot'[p].pc # "read"
    BY <2>1, <2>4 DEF Limiter!Writing
  <2>8. table' = [hash' EXCEPT ![put'[a].key] = put'[a].val]
    BY <2>2, <2>4, <2>6
  <2> QED
    BY <2>4, <2>5, <2>6, <2>7, <2>8 DEF OneInserter
<1>4. ASSUME NEW a \in Puts, Limiter!PutHash(a)
      PROVE  OneInserter'
  <2>1. put'[a].pc = "done" /\ \A b \in Puts \ {a}: put'[b] = put[b]
    BY <1>4 DEF Limiter!PutHash, Limiter!TypeOK
  <2>2. hash' = table /\ table' = table /\ boot' = boot /\ limiterRedis'
    BY <1>0, <1>4 DEF Limiter!PutHash, OneInserter
  <2>3. ~Limiter!Writing'
    BY <1>0, <1>4, <2>1, <2>2 DEF Limiter!PutHash, Limiter!Writing, OneInserter
  <2> QED
    BY <2>2, <2>3 DEF Limiter!Writing, OneInserter
<1>5. ASSUME UNCHANGED <<Limiter!config, limiterRedis>>
      PROVE  OneInserter'
  BY <1>0, <1>5 DEF OneInserter, Limiter!config, Limiter!Writing, Limiter!Serving
<1>6. CASE Limiter!RedisToggle
  BY <1>6 DEF Limiter!RedisToggle
<1> QED
  BY <1>1, <1>2, <1>3, <1>4, <1>5, <1>6 DEF Limiter!Next, Limiter!Read, Limiter!Hit, Limiter!HitFails,
     Limiter!NextMinute

LEMMA LimiterInductive ==
    ASSUME Limiter!LimiterAssumption
    PROVE  Limiter!Spec => []LimiterInv
<1>1. Limiter!Init => LimiterInv
  <2> SUFFICES ASSUME Limiter!Init
               PROVE  LimiterInv
    OBVIOUS
  <2> USE DEF Limiter!Init, Limiter!NoLimits
  <2>1. Judged = {} /\ Through = {} /\ \A m \in 1..Minutes: Limiter!Served(m) = {}
    BY DEF Judged, Through, Limiter!Served, Limiter!Ends
  <2>2. CountersCount
    <3>1. Cardinality(Judged) = 0 /\ Cardinality(Through) = 0
      BY <2>1, FS_EmptySet
    <3>2. \A m \in 1..Minutes: Cardinality(Limiter!Served(m)) = 0
      BY <2>1, FS_EmptySet
    <3>3. \A m \in 1..Minutes: inMin[m] <= inHour /\ Cardinality(Limiter!Served(m)) <= inMin[m]
      BY <3>2
    <3> QED
      BY <3>1, <3>3 DEF CountersCount
  <2>3. CapsUnder
    BY <2>1 DEF CapsUnder, Under
  <2>4. OneInserter
    BY DEF OneInserter, Limiter!Serving
  <2>5. ConfigTyped
    BY DEF ConfigTyped, Hydrated, Edited, Limiter!LimiterAssumption, Limiter!Windows
  <2>6. req \in [Reqs -> Request] /\ minute \in 1..Minutes
    BY DEF Request, Limiter!LimiterAssumption
  <2>7. inMin \in [1..Minutes -> 0..Limiter!Cardinality(Reqs)] /\ inHour \in 0..Limiter!Cardinality(Reqs)
    BY LimiterTypes
  <2>8. limiterRedis \in BOOLEAN /\ mixed \in BOOLEAN /\ dark \in BOOLEAN
    OBVIOUS
  <2>9. Limiter!TypeOK
    BY <2>5, <2>6, <2>7, <2>8 DEF Limiter!TypeOK, ConfigTyped, Hydrated, Edited, Request
  <2> QED
    BY <2>2, <2>3, <2>4, <2>9 DEF LimiterInv
<1>2. LimiterInv /\ [Limiter!Next]_Limiter!vars => LimiterInv'
  <2>1. ASSUME LimiterInv, Limiter!Next
        PROVE  LimiterInv'
    BY <2>1, LimiterTypeStep, CountersStep, CapsStep, OneWriterStep DEF LimiterInv
  <2>2. ASSUME LimiterInv, UNCHANGED Limiter!vars
        PROVE  LimiterInv'
    <3>1. Limiter!TypeOK'
      BY <2>2 DEF LimiterInv, Limiter!vars, Limiter!TypeOK
    <3>2. CountersCount'
      BY <2>2 DEF LimiterInv, Limiter!vars, CountersCount, Judged, Through, Limiter!Served
    <3>3. CapsUnder'
      BY <2>2 DEF LimiterInv, Limiter!vars, CapsUnder, Under, Through, Limiter!Served
    <3>4. OneInserter'
      BY <2>2 DEF LimiterInv, Limiter!vars, OneInserter, Limiter!Serving, Limiter!Writing
    <3> QED
      BY <3>1, <3>2, <3>3, <3>4 DEF LimiterInv
  <2> QED
    BY <2>1, <2>2
<1> QED
  BY <1>1, <1>2, PTL DEF Limiter!Spec

\* Max of a set of naturals that has a bound.
LEMMA MaxIsUpper ==
    ASSUME NEW S, S \subseteq Nat, NEW n \in Nat, \A x \in S: x <= n, NEW y \in S
    PROVE  Limiter!Max(S) \in S /\ y <= Limiter!Max(S)
<1> DEFINE U == {k \in Nat: \A x \in S: x <= k}
<1>0. U \subseteq Nat /\ U # {}
  OBVIOUS
<1>1. PICK k \in U: \A u \in U: k <= u
  BY <1>0, LeastElement
<1>2. k \in S
  <2> SUFFICES ASSUME k \notin S
               PROVE  FALSE
    OBVIOUS
  <2>1. \A x \in S: x <= k - 1
    OBVIOUS
  <2>2. k - 1 \in Nat
    OBVIOUS
  <2>3. k - 1 \in U
    BY <2>1, <2>2
  <2> QED
    BY <1>1, <2>3
<1>3. \E x \in S: \A z \in S: x >= z
  BY <1>2
<1>4. Limiter!Max(S) \in S /\ \A z \in S: Limiter!Max(S) >= z
  BY <1>3 DEF Limiter!Max
<1> QED
  BY <1>4

\* rate_limiter.py: no minute and no hour lets more through than the highest limit a request
\* of it read, and limits written one after the other are in force.
LEMMA LimiterHolds ==
    ASSUME Limiter!LimiterAssumption
    PROVE  Limiter!Spec => []Limiter!LimitsHold
<1>1. ASSUME LimiterInv
      PROVE  Limiter!LimitsHold
  <2> USE <1>1
  <2>1. ASSUME NEW S, S \in SUBSET Through, NEW w \in Limiter!Windows, S # {}, Under(S, w)
        PROVE  Limiter!Cardinality(S) <= Limiter!Max({req[r].lim[w] : r \in S})
    <3>0. S \in SUBSET Reqs
      BY <2>1 DEF Through
    <3>1. PICK r \in S: Cardinality(S) <= req[r].lim[w]
      BY <2>1 DEF Under
    <3>2. \A s \in S: req[s].lim[w] \in Nat /\ req[s].lim[w] <= Limiter!IntMax
      BY <3>0, ReadAreNat DEF LimiterInv
    <3> DEFINE T == {req[s].lim[w] : s \in S}
    <3>3. T \subseteq Nat /\ \A x \in T: x <= Limiter!IntMax
      BY <3>2
    <3>4. req[r].lim[w] \in T
      OBVIOUS
    <3> HIDE DEF T
    <3>5. Limiter!Max(T) \in T /\ req[r].lim[w] <= Limiter!Max(T)
      BY <3>3, <3>4, LimiterTypes, MaxIsUpper
    <3>6. Cardinality(S) \in Nat /\ Limiter!Cardinality(S) = Cardinality(S)
      BY <3>0, LimiterTypes
    <3>7. Limiter!Max(T) \in Nat /\ req[r].lim[w] \in Nat
      BY <3>2, <3>3, <3>5
    <3>8. Limiter!Cardinality(S) <= Limiter!Max(T)
      BY <3>1, <3>5, <3>6, <3>7
    <3> QED
      BY <3>8 DEF T
  <2>2. Limiter!AllServed = Through
    BY DEF Limiter!AllServed, Limiter!Served, Through, LimiterInv, CountersCount
  <2>3. Under(Through, "hour") /\ \A m \in 1..Minutes: Under(Limiter!Served(m), "min")
    BY DEF LimiterInv, CapsUnder
  <2>4. \A m \in 1..Minutes: Limiter!Served(m) \in SUBSET Through
    BY DEF Limiter!Served, Through
  <2>5. "min" \in Limiter!Windows /\ "hour" \in Limiter!Windows
    BY DEF Limiter!Windows
  <2>6. Limiter!CapsHold
    BY <2>1, <2>2, <2>3, <2>4, <2>5 DEF Limiter!CapsHold
  <2>7. Limiter!LimitsFollowTable
    <3> SUFFICES ASSUME Limiter!Serving, ~Limiter!Writing, ~mixed, ~dark
                 PROVE  Limiter!Current = table
      BY DEF Limiter!LimitsFollowTable
    <3>1. limiterRedis /\ hash = table
      BY DEF LimiterInv, OneInserter
    <3>2. table["min"] # 0
      BY DEF LimiterInv, Limiter!TypeOK, Limiter!Windows, Limiter!LimiterAssumption
    <3>3. table # Limiter!NoLimits
      BY <3>2 DEF Limiter!NoLimits, Limiter!Absent, Limiter!Windows
    <3> QED
      BY <3>1, <3>3 DEF Limiter!Current
  <2> QED
    BY <2>6, <2>7 DEF Limiter!LimitsHold
<1> QED
  BY <1>1, LimiterInductive, PTL

-----------------------------------------------------------------------------
(* CostAlerts.                                                             *)

\* A process that goes for a bucket has taken it from the clock a short while ago.
Aimed ==
    \A p \in Procs: proc[p].pc = "set" =>
        /\ proc[p].bucket = proc[p].since \div Window[proc[p].alert]
        /\ proc[p].since <= now /\ now <= proc[p].since + Delay

\* What was told of a window, by whether its key is set: not since Redis last lost its
\* keys, or in time to outlive the window, or late enough to outlive the next one.
Ends(k) == (k[2] + 1) * Window[k[1]]
Lost == Restarts - restarts
Told(k) ==
    /\ keys[k] = 0 => fired[k] <= Lost + (IF k \in crossed THEN 1 ELSE 0)
    /\ fired[k] <= 1 + Lost + (IF k \in crossed THEN 1 ELSE 0)
    /\ keys[k] # 0 => Ends(k) <= keys[k]
    /\ k \in crossed => Ends(k) <= now /\ (keys[k] = 0 \/ Ends(k) + Window[k[1]] <= keys[k])

AlertInv == Spending!TypeOK /\ Aimed /\ \A k \in Spending!Alerts \X Spending!Buckets: Told(k)

LEMMA BucketBounds ==
    ASSUME NEW n \in Nat, NEW w \in Nat \ {0}
    PROVE  /\ n \div w \in Nat /\ n \div w <= n
           /\ (n \div w) * w <= n /\ n < (n \div w) * w + w
  OBVIOUS

\* Where the clock stands after a short call that began in a bucket: in it or in the next.
LEMMA InOrPast ==
    ASSUME NEW n \in Nat, NEW s \in Nat, NEW w \in Nat \ {0}, NEW d \in Nat,
           d < w, s <= n, n <= s + d, NEW b \in Nat, b = s \div w
    PROVE  /\ b * w + w \in Nat /\ n < b * w + w + w /\ b * w + w <= n + w
           /\ n \div w = b => n < b * w + w
           /\ n \div w # b => b * w + w <= n
<1>1. b * w <= s /\ s < b * w + w /\ b * w \in Nat
  BY BucketBounds
<1>2. n \div w \in Nat /\ (n \div w) * w <= n /\ n < (n \div w) * w + w
  BY BucketBounds
<1>3. ASSUME n \div w # b
      PROVE  b * w + w <= n
  <2>1. PICK c \in Nat: c = n \div w
    BY <1>2
  <2>2. c * w <= n /\ n < c * w + w /\ c # b
    BY <1>2, <1>3, <2>1
  <2>3. CASE b + 1 <= c
    <3>1. (b + 1) * w <= c * w /\ (b + 1) * w = b * w + w
      BY <2>3
    <3> QED
      BY <1>1, <2>2, <3>1
  <2>4. CASE c + 1 <= b
    <3>1. (c + 1) * w <= b * w /\ (c + 1) * w = c * w + w
      BY <2>4
    <3> QED
      BY <1>1, <2>2, <3>1
  <2> QED
    BY <2>1, <2>2, <2>3, <2>4
<1> QED
  BY <1>1, <1>2, <1>3

LEMMA EndsIs ==
    ASSUME Spending!AlertsAssumption, NEW k \in Spending!Alerts \X Spending!Buckets
    PROVE  /\ Window[k[1]] \in Nat \ {0} /\ Delay < Window[k[1]] /\ k[2] \in Nat
           /\ Ends(k) = k[2] * Window[k[1]] + Window[k[1]] /\ Ends(k) \in Nat
           /\ 0 < Ends(k)
<1>1. Window[k[1]] \in Nat /\ Delay < Window[k[1]] /\ Delay \in Nat /\ k[2] \in Nat
  BY DEF Spending!AlertsAssumption, Spending!Buckets
<1>2. PICK w \in Nat \ {0}: w = Window[k[1]]
  BY <1>1
<1>3. PICK b \in Nat: b = k[2]
  BY <1>1
<1>4. (b + 1) * w = b * w + w /\ b * w \in Nat
  BY <1>2, <1>3
<1> QED
  BY <1>1, <1>2, <1>3, <1>4 DEF Ends

Errand == [pc: {"sleep", "look", "set"}, alert: Spending!Alerts, bucket: Spending!Buckets,
           since: Spending!Buckets]
LEMMA OnwardIs ==
    ASSUME Spending!AlertsAssumption, proc \in [Procs -> Errand], NEW p \in Procs, Spending!Onward(p)
    PROVE  /\ proc' \in [Procs -> Errand] /\ proc'[p].pc # "set"
           /\ \A q \in Procs \ {p}: proc'[q] = proc[q]
<1>0. 0 \in Spending!Buckets
  BY DEF Spending!Buckets, Spending!AlertsAssumption
<1>1. Spending!First \in Spending!Alerts /\ Spending!Second \in Spending!Alerts
  BY DEF Spending!AlertsAssumption
<1>2. Spending!Asleep \in Errand /\ Spending!Asleep.pc = "sleep"
  BY <1>0, <1>1 DEF Spending!Asleep, Errand
<1> DEFINE next == IF proc[p].alert = Spending!First
                   THEN [Spending!Asleep EXCEPT !.pc = "look", !.alert = Spending!Second]
                   ELSE Spending!Asleep
<1>3. next \in Errand /\ next.pc # "set"
  BY <1>1, <1>2 DEF Errand
<1>4. proc' = [proc EXCEPT ![p] = next]
  BY DEF Spending!Onward
<1> HIDE DEF next
<1> QED
  BY <1>3, <1>4

\* The types, with what a process is taken out of TypeOK.
AlertTypes ==
    /\ now \in 0..MaxTime /\ restarts \in 0..Restarts
    /\ keys \in [Spending!Alerts \X Spending!Buckets -> Nat]
    /\ fired \in [Spending!Alerts \X Spending!Buckets -> Nat]
    /\ crossed \subseteq Spending!Alerts \X Spending!Buckets
    /\ proc \in [Procs -> Errand]
LEMMA AlertTypesAre == (Spending!TypeOK <=> AlertTypes) /\ (Spending!TypeOK' <=> AlertTypes')
  BY DEF Spending!TypeOK, AlertTypes, Errand

\* A step that leaves the ledger of alerts alone and does not turn the clock back.
LEMMA ToldStays ==
    ASSUME Spending!AlertsAssumption, AlertTypes, now' \in Nat, now <= now',
           UNCHANGED <<keys, fired, crossed, restarts>>,
           NEW k \in Spending!Alerts \X Spending!Buckets, Told(k)
    PROVE  Told(k)'
<1>1. Ends(k) \in Nat /\ Ends(k)' = Ends(k) /\ Lost' = Lost /\ now \in Nat
  BY EndsIs DEF Ends, Lost, AlertTypes
<1> QED
  BY <1>1 DEF Told

LEMMA SetStep ==
    ASSUME Spending!AlertsAssumption, AlertInv, NEW p \in Procs, Spending!Set(p)
    PROVE  AlertInv'
<1>1. AlertTypes /\ Aimed
  BY AlertTypesAre DEF AlertInv
<1>2. PICK k \in Spending!Alerts \X Spending!Buckets: k = <<proc[p].alert, proc[p].bucket>>
  BY <1>1 DEF AlertTypes, Errand
<1>3. proc[p].pc = "set" /\ Spending!Onward(p) /\ UNCHANGED <<now, restarts>>
  BY DEF Spending!Set
<1>4. /\ proc' \in [Procs -> Errand] /\ proc'[p].pc # "set"
      /\ \A q \in Procs \ {p}: proc'[q] = proc[q]
  BY <1>1, <1>3, OnwardIs DEF AlertTypes
<1>5. Aimed'
  BY <1>1, <1>3, <1>4 DEF Aimed
<1>6. CASE UNCHANGED <<keys, fired, crossed>>
  <2>1. AlertTypes'
    BY <1>1, <1>3, <1>4, <1>6 DEF AlertTypes
  <2>2. now \in Nat
    BY <1>1 DEF AlertTypes
  <2>3. \A j \in Spending!Alerts \X Spending!Buckets: Told(j)'
    BY <1>1, <1>3, <1>6, <2>2, ToldStays DEF AlertInv
  <2> QED
    BY <1>5, <2>1, <2>3, AlertTypesAre DEF AlertInv
<1>7. ASSUME keys[k] <= now, NEW told \in 0..1,
             keys' = [keys EXCEPT ![k] = now + Window[k[1]]],
             fired' = [fired EXCEPT ![k] = @ + told],
             crossed' = crossed \cup {x \in {k} : now \div Window[k[1]] # k[2]}
      PROVE  AlertInv'
  <2>1. PICK w \in Nat \ {0}: w = Window[k[1]] /\ Delay < w /\ Delay \in Nat
    BY EndsIs DEF Spending!AlertsAssumption
  <2>2. PICK b \in Nat: b = k[2]
    BY EndsIs
  <2>3. PICK n \in Nat: n = now
    BY <1>1 DEF AlertTypes
  <2>4. PICK s \in Nat: s = proc[p].since /\ s <= n /\ n <= s + Delay /\ b = s \div w
    BY <1>1, <1>2, <1>3, <2>1, <2>2, <2>3 DEF AlertTypes, Errand, Aimed, Spending!Buckets
  <2>5. PICK e \in Nat: e = b * w + w
    BY <2>1, <2>2, EndsIs
  <2>6. /\ n < e + w /\ e <= n + w /\ (n \div w = b => n < e) /\ (n \div w # b => e <= n)
    BY <2>1, <2>4, <2>5, InOrPast
  <2>7. Ends(k) = e /\ Ends(k)' = e /\ Lost' = Lost /\ 0 < e
    BY <1>3, <2>1, <2>2, <2>5, EndsIs DEF Ends, Lost
  <2>8. keys[k] \in Nat /\ fired[k] \in Nat /\ Lost \in Nat
    BY <1>1 DEF AlertTypes, Lost, Spending!AlertsAssumption
  <2>9. keys'[k] = n + w /\ fired'[k] = fired[k] + told /\ now' = n
    BY <1>1, <1>3, <1>7, <2>1, <2>3 DEF AlertTypes
  <2>10. k \in crossed' <=> (k \in crossed \/ n \div w # b)
    BY <1>7, <2>1, <2>2, <2>3
  <2>11. Told(k)
    BY DEF AlertInv
  <2>12. ASSUME k \in crossed
        PROVE  Told(k)'
    <3>1. e <= n /\ (keys[k] = 0 \/ e + w <= keys[k])
      BY <2>1, <2>3, <2>7, <2>11, <2>12 DEF Told
    <3>2. keys[k] = 0
      BY <1>7, <2>3, <2>6, <2>8, <3>1
    <3>3. fired[k] <= Lost + 1
      BY <2>11, <2>12, <3>2 DEF Told
    <3>4. fired'[k] <= 1 + Lost' + 1
      BY <2>7, <2>8, <2>9, <3>3
    <3>5. k \in crossed' /\ keys'[k] # 0 /\ e <= keys'[k] /\ e + w <= keys'[k] /\ e <= now'
      BY <2>9, <2>10, <2>12, <3>1
    <3> QED
      BY <2>1, <2>2, <2>5, <2>7, <2>8, <2>9, <3>4, <3>5 DEF Told
  <2>13. ASSUME k \notin crossed /\ n \div w = b
        PROVE  Told(k)'
    <3>1. k \notin crossed' /\ n < e
      BY <2>6, <2>10, <2>13
    <3>2. keys[k] = 0
      BY <1>7, <2>3, <2>7, <2>8, <2>11, <3>1 DEF Told
    <3>3. fired[k] <= Lost
      BY <2>8, <2>11, <2>13, <3>2 DEF Told
    <3>4. fired'[k] <= 1 + Lost' + 0
      BY <2>7, <2>8, <2>9, <3>3
    <3>5. keys'[k] # 0 /\ e <= keys'[k]
      BY <2>6, <2>9
    <3> QED
      BY <2>1, <2>2, <2>5, <2>7, <2>8, <2>9, <3>1, <3>4, <3>5 DEF Told
  <2>14. ASSUME k \notin crossed /\ n \div w # b
        PROVE  Told(k)'
    <3>1. k \in crossed' /\ e <= n
      BY <2>6, <2>10, <2>14
    <3>2. fired[k] <= 1 + Lost
      BY <2>8, <2>11, <2>14 DEF Told
    <3>3. fired'[k] <= 1 + Lost' + 1
      BY <2>7, <2>8, <2>9, <3>2
    <3>4. keys'[k] # 0 /\ e <= keys'[k] /\ e + w <= keys'[k] /\ e <= now'
      BY <2>9, <3>1
    <3> QED
      BY <2>1, <2>2, <2>5, <2>7, <2>8, <2>9, <3>1, <3>3, <3>4 DEF Told
  <2>15. Told(k)'
    BY <2>12, <2>13, <2>14
  <2>16. ASSUME NEW j \in Spending!Alerts \X Spending!Buckets, j # k
         PROVE  Told(j)'
    <3>1. keys'[j] = keys[j] /\ fired'[j] = fired[j] /\ (j \in crossed' <=> j \in crossed)
      BY <1>1, <1>7, <2>16 DEF AlertTypes
    <3>2. Told(j) /\ now' = now /\ restarts' = restarts
      BY <1>3 DEF AlertInv
    <3> QED
      BY <3>1, <3>2 DEF Told, Ends, Lost
  <2>17. AlertTypes'
    <3>1. keys' \in [Spending!Alerts \X Spending!Buckets -> Nat]
      BY <1>1, <1>7, <2>1, <2>3 DEF AlertTypes
    <3>2. fired' \in [Spending!Alerts \X Spending!Buckets -> Nat]
      BY <1>1, <1>7 DEF AlertTypes
    <3>3. crossed' \subseteq Spending!Alerts \X Spending!Buckets
      BY <1>1, <1>7 DEF AlertTypes
    <3> QED
      BY <1>1, <1>3, <1>4, <3>1, <3>2, <3>3 DEF AlertTypes
  <2> QED
    BY <1>5, <2>15, <2>16, <2>17, AlertTypesAre DEF AlertInv
<1>8. \/ UNCHANGED <<keys, fired, crossed>>
      \/ \E told \in 0..1 :
            /\ keys[k] <= now
            /\ keys' = [keys EXCEPT ![k] = now + Window[proc[p].alert]]
            /\ fired' = [fired EXCEPT ![k] = @ + told]
            /\ crossed' = crossed \cup {x \in {k} : now \div Window[k[1]] # k[2]}
  BY <1>2 DEF Spending!Set
<1>9. k[1] = proc[p].alert
  BY <1>2
<1> QED
  BY <1>6, <1>7, <1>8, <1>9

LEMMA AlertsInductive ==
    ASSUME Spending!AlertsAssumption
    PROVE  Spending!Spec => []AlertInv
<1>1. ASSUME Spending!Init
      PROVE  AlertInv
  <2>1. /\ 0 \in Spending!Buckets /\ Spending!First \in Spending!Alerts
        /\ now = 0 /\ restarts = Restarts /\ crossed = {}
        /\ keys = [k \in Spending!Alerts \X Spending!Buckets |-> 0]
        /\ fired = [k \in Spending!Alerts \X Spending!Buckets |-> 0]
        /\ proc = [p \in Procs |-> Spending!Asleep]
    BY <1>1 DEF Spending!Init, Spending!AlertsAssumption, Spending!Buckets
  <2>2. Spending!Asleep \in Errand /\ Spending!Asleep.pc # "set"
    BY <2>1 DEF Spending!Asleep, Errand
  <2>3. AlertTypes /\ Aimed
    BY <2>1, <2>2 DEF AlertTypes, Aimed, Spending!AlertsAssumption
  <2>4. ASSUME NEW k \in Spending!Alerts \X Spending!Buckets
        PROVE  Told(k)
    <3>1. Lost = 0 /\ keys[k] = 0 /\ fired[k] = 0
      BY <2>1 DEF Lost, Spending!AlertsAssumption
    <3> QED
      BY <2>1, <3>1 DEF Told
  <2> QED
    BY <2>3, <2>4, AlertTypesAre DEF AlertInv
<1>2. ASSUME AlertInv, [Spending!Next]_Spending!alertVars
      PROVE  AlertInv'
  <2> USE <1>2
  <2>0. AlertTypes /\ Aimed /\ now \in Nat
    BY AlertTypesAre DEF AlertInv, AlertTypes
  <2>1. CASE Spending!Tick
    <3>1. /\ now < MaxTime /\ now' = now + 1 /\ UNCHANGED <<keys, proc, fired, crossed, restarts>>
          /\ \A p \in Procs: proc[p].pc = "set" => now < proc[p].since + Delay
      BY <2>1 DEF Spending!Tick
    <3>2. AlertTypes'
      BY <2>0, <3>1 DEF AlertTypes, Spending!AlertsAssumption
    <3>3. Aimed'
      <4> SUFFICES ASSUME NEW p \in Procs, proc'[p].pc = "set"
                   PROVE  /\ proc'[p].bucket = proc'[p].since \div Window[proc'[p].alert]
                          /\ proc'[p].since <= now' /\ now' <= proc'[p].since + Delay
        BY DEF Aimed
      <4>1. proc[p].since \in Nat /\ Delay \in Nat
        BY <2>0 DEF AlertTypes, Errand, Spending!Buckets, Spending!AlertsAssumption
      <4> QED
        BY <2>0, <3>1, <4>1 DEF Aimed
    <3>4. \A k \in Spending!Alerts \X Spending!Buckets: Told(k)'
      BY <2>0, <3>1, ToldStays DEF AlertInv
    <3> QED
      BY <3>2, <3>3, <3>4, AlertTypesAre DEF AlertInv
  <2>2. CASE Spending!RedisRestarts
    <3>1. /\ restarts > 0 /\ restarts' = restarts - 1 /\ keys' = [k \in DOMAIN keys |-> 0]
          /\ UNCHANGED <<now, proc, fired, crossed>>
      BY <2>2 DEF Spending!RedisRestarts
    <3>2. AlertTypes' /\ Aimed'
      BY <2>0, <3>1 DEF AlertTypes, Aimed, Spending!AlertsAssumption
    <3>3. ASSUME NEW k \in Spending!Alerts \X Spending!Buckets
          PROVE  Told(k)'
      <4>1. keys'[k] = 0 /\ Lost' = Lost + 1 /\ Lost \in Nat /\ fired[k] \in Nat
        BY <2>0, <3>1 DEF AlertTypes, Lost, Spending!AlertsAssumption
      <4>2. Told(k)
        BY DEF AlertInv
      <4>3. fired'[k] <= Lost' + (IF k \in crossed' THEN 1 ELSE 0)
        BY <3>1, <4>1, <4>2 DEF Told
      <4>4. fired'[k] <= 1 + Lost' + (IF k \in crossed' THEN 1 ELSE 0)
        BY <3>1, <4>1, <4>3
      <4>5. k \in crossed' => Ends(k)' <= now'
        BY <3>1, <4>2 DEF Told, Ends
      <4> QED
        BY <4>1, <4>3, <4>4, <4>5 DEF Told
    <3> QED
      BY <3>2, <3>3, AlertTypesAre DEF AlertInv
  <2>3. ASSUME NEW p \in Procs, Spending!Wake(p)
        PROVE  AlertInv'
    <3>1. /\ proc' = [proc EXCEPT ![p].pc = "look"]
          /\ UNCHANGED <<now, keys, fired, crossed, restarts>>
      BY <2>3 DEF Spending!Wake
    <3>2. AlertTypes'
      BY <2>0, <3>1 DEF AlertTypes, Errand
    <3>3. Aimed'
      BY <2>0, <3>1 DEF AlertTypes, Errand, Aimed
    <3>4. \A k \in Spending!Alerts \X Spending!Buckets: Told(k)'
      BY <2>0, <3>1, ToldStays DEF AlertInv
    <3> QED
      BY <3>2, <3>3, <3>4, AlertTypesAre DEF AlertInv
  <2>4. ASSUME NEW p \in Procs, Spending!Look(p)
        PROVE  AlertInv'
    <3>1. UNCHANGED <<now, keys, fired, crossed, restarts>>
      BY <2>4 DEF Spending!Look
    <3>2. \A k \in Spending!Alerts \X Spending!Buckets: Told(k)'
      BY <2>0, <3>1, ToldStays DEF AlertInv
    <3>3. CASE Spending!Onward(p)
      <4>1. /\ proc' \in [Procs -> Errand] /\ proc'[p].pc # "set"
            /\ \A q \in Procs \ {p}: proc'[q] = proc[q]
        BY <2>0, <3>3, OnwardIs DEF AlertTypes
      <4>2. AlertTypes' /\ Aimed'
        BY <2>0, <3>1, <4>1 DEF AlertTypes, Aimed
      <4> QED
        BY <3>2, <4>2, AlertTypesAre DEF AlertInv
    <3>4. CASE proc' = [proc EXCEPT ![p] =
                 [@ EXCEPT !.pc = "set", !.bucket = now \div Window[proc[p].alert], !.since = now]]
      <4>1. proc[p].alert \in Spending!Alerts
        BY <2>0 DEF AlertTypes, Errand
      <4>2. PICK a \in Spending!Alerts: a = proc[p].alert
        BY <4>1
      <4>3. Window[a] \in Nat \ {0} /\ Delay \in Nat
        BY DEF Spending!AlertsAssumption
      <4>4. PICK b \in Spending!Buckets: b = now \div Window[a]
        BY <2>0, <4>3, BucketBounds DEF AlertTypes, Spending!Buckets, Spending!AlertsAssumption
      <4> DEFINE e == [proc[p] EXCEPT !.pc = "set", !.bucket = b, !.since = now]
      <4>5. proc[p] \in Errand /\ now \in Spending!Buckets
        BY <2>0 DEF AlertTypes, Spending!Buckets
      <4>7. e \in Errand /\ e.bucket = b /\ e.since = now /\ e.alert = a
        BY <4>2, <4>5 DEF Errand
      <4>6. proc' = [proc EXCEPT ![p] = e]
        BY <3>4, <4>2, <4>4
      <4> HIDE DEF e
      <4>8. AlertTypes'
        BY <2>0, <3>1, <4>6, <4>7 DEF AlertTypes
      <4>9. now <= now + Delay
        BY <2>0, <4>3
      <4>10. Aimed'
        BY <2>0, <3>1, <4>4, <4>6, <4>7, <4>9 DEF AlertTypes, Aimed
      <4> QED
        BY <3>2, <4>8, <4>10, AlertTypesAre DEF AlertInv
    <3> QED
      BY <2>4, <3>3, <3>4 DEF Spending!Look
  <2>5. CASE UNCHANGED Spending!alertVars
    BY <2>5 DEF Spending!alertVars, AlertInv, Spending!TypeOK, Aimed, Told, Ends, Lost
  <2> QED
    BY <2>1, <2>2, <2>3, <2>4, <2>5, SetStep DEF Spending!Next
<1> QED
  BY <1>1, <1>2, PTL DEF Spending!Spec

-----------------------------------------------------------------------------
(* Digest.                                                                 *)

MailRun == [pc: {"idle", "check", "send", "record", "trim", "done"}, sent: BOOLEAN]
DigestTypes ==
    /\ today \in 1..Days /\ runs \subseteq Mailing!Run
    /\ run \in [Mailing!Runners -> MailRun]
    /\ woke \in [Loops -> 0..Days] /\ mailed \in Nat
    /\ mails \in [1..Days -> Nat] /\ excused \subseteq 1..Days

\* The rows are in the order of their days, and the newest is always kept.
RowsInOrder ==
    /\ \A x \in runs: x.at <= mailed /\ x.date <= today
    /\ \A x, y \in runs: x.at <= y.at => x.date <= y.date
    /\ runs # {} => \E x \in runs: x.at = mailed

\* Unless today is excused one run at most is past its check, no mail goes out before it
\* sends, and one that went out is recorded or about to be.
OneUnder ==
    today \notin excused =>
        /\ \A q, r \in Mailing!Runners: Mailing!Under(q) /\ Mailing!Under(r) => q = r
        /\ \A r \in Mailing!Runners: run[r].pc = "send" => mails[today] = 0
        /\ mails[today] = 0 \/ Mailing!Recorded(today)
            \/ \E r \in Mailing!Runners: run[r].pc = "record"
NoneAhead == \A d \in 1..Days: today < d => mails[d] = 0

DigestInv == DigestTypes /\ RowsInOrder /\ OneUnder /\ NoneAhead /\ Mailing!OneMailADay

\* A step that changes the step of one run only.
OneRun(r, pc) ==
    /\ run' \in [Mailing!Runners -> MailRun] /\ run'[r].pc = pc
    /\ \A q \in Mailing!Runners \ {r}: run'[q] = run[q]

LEMMA GotoIs ==
    ASSUME DigestTypes, NEW r \in Mailing!Runners,
           NEW pc \in {"idle", "check", "send", "record", "trim", "done"}, Mailing!Goto(r, pc)
    PROVE  OneRun(r, pc)
  BY DEF DigestTypes, MailRun, Mailing!Goto, OneRun

LEMMA NewDayStep ==
    ASSUME Mailing!DigestAssumption, DigestInv, Mailing!NewDay
    PROVE  DigestInv'
<1>1. /\ today < Days /\ today' = today + 1 /\ UNCHANGED <<runs, run, woke, mailed, mails, excused>>
      /\ \A r \in Mailing!Runners: run[r].pc \in {"idle", "done"}
  BY DEF Mailing!NewDay
<1>2. today' \in 1..Days /\ today \in 1..Days
  BY <1>1 DEF DigestInv, DigestTypes, Mailing!DigestAssumption
<1>3. DigestTypes'
  BY <1>1, <1>2 DEF DigestInv, DigestTypes
<1>4. RowsInOrder'
  <2>1. \A x \in runs: x.date \in Nat
    BY DEF DigestInv, DigestTypes, Mailing!Run
  <2>2. RowsInOrder
    BY DEF DigestInv
  <2>3. \A x \in runs: x.date <= today'
    BY <1>1, <1>2, <2>1, <2>2 DEF RowsInOrder
  <2> QED
    BY <1>1, <2>2, <2>3 DEF RowsInOrder
<1>5. mails[today'] = 0
  BY <1>1, <1>2 DEF DigestInv, NoneAhead
<1>6. \A r \in Mailing!Runners: ~Mailing!Under(r)' /\ run'[r].pc # "send"
  BY <1>1 DEF Mailing!Under
<1>7. OneUnder'
  BY <1>1, <1>5, <1>6 DEF OneUnder
<1>8. NoneAhead'
  BY <1>1, <1>2 DEF DigestInv, NoneAhead
<1>9. Mailing!OneMailADay'
  BY <1>1 DEF DigestInv, Mailing!OneMailADay
<1> QED
  BY <1>3, <1>4, <1>7, <1>8, <1>9 DEF DigestInv

\* A run that goes past no check and sends nothing.
LEMMA IdleStep ==
    ASSUME DigestInv, NEW r \in Mailing!Runners, NEW pc \in {"idle", "check", "trim", "done"},
           OneRun(r, pc), run[r].pc \notin {"send", "record"},
           UNCHANGED <<today, runs, mailed, mails, excused>>, woke' \in [Loops -> 0..Days]
    PROVE  DigestInv'
<1>1. \A q \in Mailing!Runners: Mailing!Under(q)' <=> Mailing!Under(q)
  BY DEF OneRun, Mailing!Under
<1>2. \A q \in Mailing!Runners: /\ run'[q].pc = "send" <=> run[q].pc = "send"
                                /\ run'[q].pc = "record" <=> run[q].pc = "record"
  BY DEF OneRun
<1>3. OneUnder'
  BY <1>1, <1>2 DEF DigestInv, OneUnder, Mailing!Recorded
<1> QED
  BY <1>3 DEF DigestInv, DigestTypes, RowsInOrder, NoneAhead, Mailing!OneMailADay, OneRun

LEMMA SendStarts ==
    ASSUME DigestInv, NEW r \in Mailing!Runners, OneRun(r, "send"), run[r].pc \notin {"send", "record"},
           UNCHANGED <<today, runs, mailed, mails, woke>>, excused' \subseteq 1..Days,
           excused \subseteq excused',
           today \notin excused' =>
                ~Mailing!Recorded(today) /\ \A q \in Mailing!Runners \ {r}: ~Mailing!Under(q)
    PROVE  DigestInv'
<1>1. DigestTypes' /\ RowsInOrder' /\ NoneAhead' /\ Mailing!OneMailADay'
  BY DEF DigestInv, DigestTypes, RowsInOrder, NoneAhead, Mailing!OneMailADay, OneRun
<1>2. ASSUME today' \notin excused'
      PROVE  /\ \A q \in Mailing!Runners: Mailing!Under(q)' => q = r
             /\ mails'[today'] = 0
  <2>1. /\ ~Mailing!Recorded(today) /\ \A q \in Mailing!Runners \ {r}: ~Mailing!Under(q)
        /\ today \notin excused
    BY <1>2
  <2>2. \A q \in Mailing!Runners: run[q].pc # "record"
    BY <2>1 DEF Mailing!Under
  <2>3. mails[today] = 0
    BY <2>1, <2>2 DEF DigestInv, OneUnder
  <2> QED
    BY <2>1, <2>3 DEF OneRun, Mailing!Under
<1>3. OneUnder'
  BY <1>2 DEF OneUnder
<1> QED
  BY <1>1, <1>3 DEF DigestInv

LEMMA MailCheckStep ==
    ASSUME DigestInv, NEW l \in Loops, Mailing!Check(l)
    PROVE  DigestInv'
<1>1. /\ run[l].pc = "check" /\ UNCHANGED <<today, runs, woke, mailed, mails>>
      /\ Mailing!Goto(l, IF Mailing!Recorded(today) THEN "idle" ELSE "send")
      /\ excused' = excused \cup (IF Mailing!Recorded(today) THEN {} ELSE Mailing!Overlaps(l))
      /\ l \in Mailing!Runners
  BY DEF Mailing!Check, Mailing!Runners
<1>2. CASE Mailing!Recorded(today)
  BY <1>1, <1>2, GotoIs, IdleStep DEF DigestInv, DigestTypes
<1>3. CASE ~Mailing!Recorded(today)
  <2>1. OneRun(l, "send") /\ excused' = excused \cup Mailing!Overlaps(l)
    BY <1>1, <1>3, GotoIs DEF DigestInv
  <2>2. today \in 1..Days /\ excused \subseteq 1..Days
    BY DEF DigestInv, DigestTypes
  <2>3. ASSUME today \notin excused', NEW q \in Mailing!Runners \ {l}
        PROVE  ~Mailing!Under(q)
    BY <2>1, <2>2, <2>3 DEF Mailing!Overlaps
  <2>4. excused' \subseteq 1..Days
    BY <2>1, <2>2 DEF Mailing!Overlaps
  <2> QED
    BY <1>1, <1>3, <2>1, <2>3, <2>4, SendStarts
<1> QED
  BY <1>2, <1>3

LEMMA ForceStep ==
    ASSUME DigestInv, NEW f \in Forces, Mailing!Force(f)
    PROVE  DigestInv'
<1>1. /\ run[f].pc = "idle" /\ Mailing!Goto(f, "send") /\ excused' = excused \cup {today}
      /\ UNCHANGED <<today, runs, woke, mailed, mails>> /\ f \in Mailing!Runners
  BY DEF Mailing!Force, Mailing!Runners
<1>2. today \in 1..Days /\ excused \subseteq 1..Days
  BY DEF DigestInv, DigestTypes
<1> QED
  BY <1>1, <1>2, GotoIs, SendStarts DEF DigestInv

LEMMA SendStep ==
    ASSUME DigestInv, NEW r \in Mailing!Runners, Mailing!Send(r)
    PROVE  DigestInv'
<1>1. PICK ok \in BOOLEAN, num \in 0..1:
        /\ run[r].pc = "send"
        /\ run' = [run EXCEPT ![r] = [pc |-> "record", sent |-> ok]]
        /\ mails' = [mails EXCEPT ![today] = @ + num]
        /\ UNCHANGED <<today, runs, woke, mailed, excused>>
  BY DEF Mailing!Send
<1>2. PICK d \in 1..Days: d = today
  BY DEF DigestInv, DigestTypes
<1>3. [pc |-> "record", sent |-> ok] \in MailRun
  BY DEF MailRun
<1>4. OneRun(r, "record")
  BY <1>1, <1>3 DEF DigestInv, DigestTypes, OneRun
<1>5. /\ mails' \in [1..Days -> Nat] /\ mails'[d] = mails[d] + num /\ mails[d] \in Nat
      /\ \A c \in 1..Days \ {d}: mails'[c] = mails[c]
  BY <1>1, <1>2 DEF DigestInv, DigestTypes
<1>6. DigestTypes' /\ RowsInOrder'
  BY <1>1, <1>4, <1>5 DEF DigestInv, DigestTypes, RowsInOrder, OneRun
<1>7. NoneAhead'
  BY <1>1, <1>2, <1>5 DEF DigestInv, NoneAhead
<1>8. d \notin excused => mails[d] = 0
  BY <1>1, <1>2 DEF DigestInv, OneUnder
<1>9. Mailing!OneMailADay'
  BY <1>1, <1>5, <1>8 DEF DigestInv, Mailing!OneMailADay
<1>10. \A q \in Mailing!Runners: Mailing!Under(q)' <=> Mailing!Under(q)
  BY <1>1, <1>4 DEF OneRun, Mailing!Under
<1>11. ASSUME today' \notin excused'
       PROVE  /\ \A p, q \in Mailing!Runners: Mailing!Under(p)' /\ Mailing!Under(q)' => p = q
              /\ \A q \in Mailing!Runners: run'[q].pc # "send"
              /\ \E q \in Mailing!Runners: run'[q].pc = "record"
  <2>1. today \notin excused
    BY <1>1, <1>11
  <2>2. \A p, q \in Mailing!Runners: Mailing!Under(p) /\ Mailing!Under(q) => p = q
    BY <2>1 DEF DigestInv, OneUnder
  <2>3. \A q \in Mailing!Runners \ {r}: run'[q].pc # "send"
    BY <1>1, <1>4, <2>2 DEF Mailing!Under, OneRun
  <2> QED
    BY <1>4, <1>10, <2>2, <2>3 DEF OneRun
<1>12. OneUnder'
  BY <1>11 DEF OneUnder
<1> QED
  BY <1>6, <1>7, <1>9, <1>12 DEF DigestInv

LEMMA RestIs == \A r: Mailing!Rest(r) \in {"idle", "done"}
  BY DEF Mailing!Rest

LEMMA MailRecordStep ==
    ASSUME DigestInv, NEW r \in Mailing!Runners, Mailing!Record(r)
    PROVE  DigestInv'
<1>1. run[r].pc = "record" /\ UNCHANGED <<today, woke, mails>>
  BY DEF Mailing!Record
<1>2. PICK d \in 1..Days: d = today
  BY DEF DigestInv, DigestTypes
<1>3. NoneAhead'
  BY <1>1 DEF DigestInv, NoneAhead
<1>4. ASSUME NEW pc \in {"idle", "done", "trim"}, OneRun(r, pc), excused = excused'
      PROVE  today' \notin excused' =>
                /\ \A p, q \in Mailing!Runners: Mailing!Under(p)' /\ Mailing!Under(q)' => p = q
                /\ \A q \in Mailing!Runners: run'[q].pc # "send"
  <2> SUFFICES ASSUME today \notin excused
               PROVE  \A q \in Mailing!Runners: ~Mailing!Under(q)' /\ run'[q].pc # "send"
    BY <1>1, <1>4
  <2>1. \A q \in Mailing!Runners: Mailing!Under(q) => q = r
    BY <1>1 DEF DigestInv, OneUnder, Mailing!Under
  <2> QED
    BY <1>4, <2>1 DEF OneRun, Mailing!Under
<1>5. CASE /\ runs' = runs \cup {[at |-> mailed + 1, date |-> today, sent |-> run[r].sent]}
           /\ mailed' = mailed + 1 /\ Mailing!Goto(r, "trim") /\ UNCHANGED excused
  <2>1. OneRun(r, "trim")
    BY <1>5, GotoIs DEF DigestInv
  <2>2. PICK x: x = [at |-> mailed + 1, date |-> today, sent |-> run[r].sent]
    OBVIOUS
  <2>3. mailed \in Nat /\ run[r].sent \in BOOLEAN
    BY DEF DigestInv, DigestTypes, MailRun
  <2>4. x \in Mailing!Run /\ x.at = mailed + 1 /\ x.date = d
    BY <1>2, <2>2, <2>3 DEF Mailing!Run
  <2>5. runs' = runs \cup {x}
    BY <1>5, <2>2
  <2>6. DigestTypes'
    BY <1>1, <1>5, <2>1, <2>3, <2>4, <2>5 DEF DigestInv, DigestTypes, OneRun
  <2>7. \A y \in runs: y.at \in Nat /\ y.date \in Nat /\ y.at <= mailed /\ y.date <= d
    BY <1>2 DEF DigestInv, DigestTypes, RowsInOrder, Mailing!Run
  <2>8. RowsInOrder'
    BY <1>1, <1>2, <1>5, <2>3, <2>4, <2>5, <2>7 DEF DigestInv, RowsInOrder
  <2>9. Mailing!Recorded(d)'
    BY <2>4, <2>5 DEF Mailing!Recorded
  <2>10. OneUnder'
    BY <1>1, <1>2, <1>4, <1>5, <2>1, <2>9 DEF OneUnder
  <2>11. Mailing!OneMailADay'
    BY <1>1, <1>5 DEF DigestInv, Mailing!OneMailADay
  <2> QED
    BY <1>3, <2>6, <2>8, <2>10, <2>11 DEF DigestInv
<1>6. CASE /\ excused' = excused \cup {today} /\ Mailing!Goto(r, Mailing!Rest(r))
           /\ UNCHANGED <<runs, mailed>>
  <2>1. OneRun(r, Mailing!Rest(r))
    BY <1>6, RestIs, GotoIs DEF DigestInv
  <2>2. DigestTypes' /\ RowsInOrder' /\ Mailing!OneMailADay' /\ OneUnder'
    BY <1>1, <1>2, <1>6, <2>1
       DEF DigestInv, DigestTypes, RowsInOrder, Mailing!OneMailADay, OneUnder, OneRun
  <2> QED
    BY <1>3, <2>2 DEF DigestInv
<1> QED
  BY <1>5, <1>6 DEF Mailing!Record

\* The newest Keep rows stay: the newest of all is one of them, and no day comes after its.
LEMMA TrimStep ==
    ASSUME Mailing!DigestAssumption, DigestInv, NEW r \in Mailing!Runners, Mailing!Trim(r)
    PROVE  DigestInv'
<1>1. /\ run[r].pc = "trim" /\ Mailing!Goto(r, Mailing!Rest(r))
      /\ UNCHANGED <<today, woke, mailed, mails, excused>>
      /\ runs' = {x \in runs : Mailing!Cardinality(Mailing!Newer(x)) < Keep}
  BY DEF Mailing!Trim
<1>2. OneRun(r, Mailing!Rest(r))
  BY <1>1, RestIs, GotoIs DEF DigestInv
<1>3. \A x \in runs: x.at \in Nat /\ x.date \in Nat
  BY DEF DigestInv, DigestTypes, Mailing!Run
<1>4. RowsInOrder /\ mailed \in Nat /\ DigestTypes /\ today \in Nat
  BY DEF DigestInv, DigestTypes
<1>5. ASSUME NEW x \in runs, x.at = mailed
      PROVE  x \in runs'
  <2>1. Mailing!Newer(x) = {}
    BY <1>3, <1>4, <1>5 DEF Mailing!Newer, RowsInOrder
  <2>2. Mailing!Cardinality({}) = 0
    BY FS_EmptySet DEF Mailing!Cardinality, Cardinality
  <2> QED
    BY <1>1, <2>1, <2>2 DEF Mailing!DigestAssumption
<1>6. RowsInOrder'
  BY <1>1, <1>4, <1>5 DEF RowsInOrder
<1>7. ASSUME Mailing!Recorded(today)
      PROVE  Mailing!Recorded(today)'
  <2>1. PICK y \in runs: y.date = today
    BY <1>7 DEF Mailing!Recorded
  <2>2. PICK x \in runs: x.at = mailed
    BY <1>4, <2>1 DEF RowsInOrder
  <2>3. y.date <= x.date /\ x.date <= today
    BY <1>4, <2>2 DEF RowsInOrder
  <2>4. x.date = today
    BY <1>3, <1>4, <2>1, <2>2, <2>3
  <2> QED
    BY <1>1, <1>5, <2>2, <2>4 DEF Mailing!Recorded
<1>8. \A q \in Mailing!Runners: /\ Mailing!Under(q)' <=> Mailing!Under(q)
                                /\ run'[q].pc = "send" <=> run[q].pc = "send"
                                /\ run'[q].pc = "record" <=> run[q].pc = "record"
  BY <1>1, <1>2, RestIs DEF OneRun, Mailing!Under
<1>9. OneUnder'
  BY <1>1, <1>7, <1>8 DEF DigestInv, OneUnder
<1>10. DigestTypes' /\ NoneAhead' /\ Mailing!OneMailADay'
  BY <1>1, <1>2, <1>4 DEF DigestInv, DigestTypes, NoneAhead, Mailing!OneMailADay, OneRun
<1> QED
  BY <1>6, <1>9, <1>10 DEF DigestInv

LEMMA DigestInductive ==
    ASSUME Mailing!DigestAssumption
    PROVE  Mailing!Spec => []DigestInv
<1>1. ASSUME Mailing!Init
      PROVE  DigestInv
  <2>1. /\ today = 1 /\ runs = {} /\ mailed = 0 /\ excused = {}
        /\ run = [r \in Mailing!Runners |-> [pc |-> "idle", sent |-> FALSE]]
        /\ woke = [l \in Loops |-> 0] /\ mails = [d \in 1..Days |-> 0] /\ Days \in Nat \ {0}
    BY <1>1 DEF Mailing!Init, Mailing!DigestAssumption
  <2>2. [pc |-> "idle", sent |-> FALSE] \in MailRun
    BY DEF MailRun
  <2>3. DigestTypes
    BY <2>1, <2>2 DEF DigestTypes
  <2>4. \A r \in Mailing!Runners: run[r].pc = "idle"
    BY <2>1
  <2>5. 1 \in 1..Days
    BY <2>1
  <2> QED
    BY <2>1, <2>3, <2>4, <2>5
       DEF DigestInv, RowsInOrder, OneUnder, NoneAhead, Mailing!OneMailADay, Mailing!Under
<1>2. ASSUME DigestInv, [Mailing!Next]_Mailing!digestVars
      PROVE  DigestInv'
  <2> USE <1>2
  <2>1. ASSUME NEW l \in Loops, Mailing!Wake(l)
        PROVE  DigestInv'
    <3>1. /\ run[l].pc = "idle" /\ woke' = [woke EXCEPT ![l] = today] /\ Mailing!Goto(l, "check")
          /\ UNCHANGED <<today, runs, mailed, mails, excused>> /\ l \in Mailing!Runners
      BY <2>1 DEF Mailing!Wake, Mailing!Runners
    <3>2. woke' \in [Loops -> 0..Days]
      BY <3>1 DEF DigestInv, DigestTypes
    <3> QED
      BY <3>1, <3>2, GotoIs, IdleStep DEF DigestInv
  <2>2. CASE UNCHANGED Mailing!digestVars
    BY <2>2 DEF Mailing!digestVars, DigestInv, DigestTypes, RowsInOrder, OneUnder, NoneAhead,
                Mailing!OneMailADay, Mailing!Under, Mailing!Recorded
  <2> QED
    BY <2>1, <2>2, NewDayStep, MailCheckStep, ForceStep, SendStep, MailRecordStep, TrimStep DEF Mailing!Next
<1> QED
  BY <1>1, <1>2, PTL DEF Mailing!Spec

\* email_digest_runs: rows are numbered, and no more than Keep are left but for those of the
\* runs that have recorded and not yet trimmed.
Trimming == {r \in Mailing!Runners: run[r].pc = "trim"}
RowsAreFew ==
    /\ IsFiniteSet(runs) /\ \A x, y \in runs: x.at = y.at => x = y
    /\ Cardinality(runs) <= Keep + Cardinality(Trimming)

LEMMA TrimmingIsFinite ==
    ASSUME Mailing!DigestAssumption
    PROVE  /\ IsFiniteSet(Mailing!Runners) /\ Cardinality(Mailing!Runners) \in Nat
           /\ IsFiniteSet(Trimming) /\ Cardinality(Trimming) \in Nat
           /\ Cardinality(Trimming) <= Cardinality(Mailing!Runners) /\ Keep \in Nat \ {0}
<1>1. IsFiniteSet(Loops) /\ IsFiniteSet(Forces) /\ Keep \in Nat \ {0}
  BY DEF Mailing!DigestAssumption, Mailing!IsFiniteSet, IsFiniteSet
<1>2. IsFiniteSet(Mailing!Runners)
  BY <1>1, FS_Union DEF Mailing!Runners
<1>3. Trimming \subseteq Mailing!Runners
  BY DEF Trimming
<1> QED
  BY <1>1, <1>2, <1>3, FS_Subset, FS_CardinalityType

LEMMA TrimLeavesKeep ==
    ASSUME Mailing!DigestAssumption, DigestInv, RowsAreFew, NEW r \in Mailing!Runners, Mailing!Trim(r)
    PROVE  RowsAreFew'
<1> DEFINE kept == {x \in runs: Mailing!Cardinality(Mailing!Newer(x)) < Keep}
<1>1. runs' = kept /\ kept \subseteq runs
  BY DEF Mailing!Trim
<1>2. IsFiniteSet(kept) /\ Cardinality(kept) \in Nat /\ Keep \in Nat \ {0}
  BY <1>1, FS_Subset, FS_CardinalityType, TrimmingIsFinite DEF RowsAreFew
<1>3. Cardinality(kept) <= Keep
  <2>1. CASE kept = {}
    BY <1>2, <2>1, FS_EmptySet
  <2>2. CASE kept # {}
    <3> DEFINE ats == {x.at: x \in kept}
    <3>1. ats \subseteq Nat /\ ats # {}
      BY <1>1, <2>2 DEF DigestInv, DigestTypes, Mailing!Run
    <3>2. PICK n \in ats: \A m \in ats: n <= m
      BY <3>1, LeastElement
    <3>3. PICK x \in kept: x.at = n
      BY <3>2
    <3>4. kept \ {x} \subseteq Mailing!Newer(x) /\ Mailing!Newer(x) \subseteq runs
      <4> SUFFICES ASSUME NEW y \in kept, y # x
                   PROVE  y.at > x.at
        BY <1>1 DEF Mailing!Newer
      <4>1. y.at \in Nat /\ x.at \in Nat /\ y.at # x.at /\ y.at >= x.at
        BY <1>1, <3>1, <3>2, <3>3 DEF RowsAreFew
      <4> QED
        BY <4>1
    <3>5. IsFiniteSet(Mailing!Newer(x)) /\ Cardinality(kept \ {x}) <= Cardinality(Mailing!Newer(x))
          /\ Cardinality(Mailing!Newer(x)) \in Nat
      BY <3>4, FS_Subset, FS_CardinalityType DEF RowsAreFew
    <3>6. Cardinality(kept \ {x}) = Cardinality(kept) - 1
      BY <1>2, <3>3, FS_RemoveElement
    <3>7. Cardinality(Mailing!Newer(x)) < Keep
      BY <3>3 DEF Mailing!Cardinality, Cardinality
    <3> HIDE DEF kept
    <3> QED
      BY <1>2, <3>5, <3>6, <3>7
  <2> QED
    BY <2>1, <2>2
<1> HIDE DEF kept
<1>4. Cardinality(Trimming') \in Nat
  <2>1. Mailing!Runners' = Mailing!Runners /\ Trimming' \subseteq Mailing!Runners
    BY DEF Trimming, Mailing!Runners
  <2> QED
    BY <2>1, TrimmingIsFinite, FS_Subset, FS_CardinalityType
<1> QED
  BY <1>1, <1>2, <1>3, <1>4 DEF RowsAreFew

LEMMA RowAdded ==
    ASSUME Mailing!DigestAssumption, DigestInv, RowsAreFew, NEW r \in Mailing!Runners, Mailing!Record(r)
    PROVE  RowsAreFew'
<1>0. run[r].pc = "record" /\ mailed \in Nat /\ \A x \in runs: x.at \in Nat /\ x.at <= mailed
  BY DEF Mailing!Record, DigestInv, DigestTypes, RowsInOrder, Mailing!Run
<1>1. CASE Mailing!Goto(r, "trim") /\ runs' = runs \cup {[at |-> mailed + 1, date |-> today, sent |-> run[r].sent]}
  <2> DEFINE row == [at |-> mailed + 1, date |-> today, sent |-> run[r].sent]
  <2>1. row.at = mailed + 1 /\ row \notin runs /\ \A x \in runs: x.at # row.at
    BY <1>0
  <2> HIDE DEF row
  <2>2. OneRun(r, "trim")
    BY <1>1, GotoIs DEF DigestInv
  <2>3. Trimming' = Trimming \cup {r} /\ r \notin Trimming
    BY <1>0, <2>2 DEF Trimming, OneRun, Mailing!Runners
  <2>4. Cardinality(Trimming') = Cardinality(Trimming) + 1
    BY <2>3, TrimmingIsFinite, FS_AddElement
  <2>5. runs' = runs \cup {row}
    BY <1>1 DEF row
  <2>6. IsFiniteSet(runs') /\ Cardinality(runs') = Cardinality(runs) + 1 /\ Cardinality(runs) \in Nat
    BY <2>1, <2>5, FS_AddElement, FS_CardinalityType DEF RowsAreFew
  <2>7. \A x, y \in runs': x.at = y.at => x = y
    BY <2>1, <2>5 DEF RowsAreFew
  <2>8. Cardinality(runs) <= Keep + Cardinality(Trimming)
    BY DEF RowsAreFew
  <2> QED
    BY <2>4, <2>6, <2>7, <2>8, TrimmingIsFinite DEF RowsAreFew
<1>2. CASE Mailing!Goto(r, Mailing!Rest(r)) /\ runs' = runs
  <2>1. Mailing!Rest(r) \in {"idle", "done"}
    BY DEF Mailing!Rest
  <2>2. PICK step \in {"idle", "done"}: Mailing!Goto(r, step)
    BY <1>2, <2>1
  <2>3. OneRun(r, step)
    BY <2>2, GotoIs DEF DigestInv
  <2>4. Trimming' = Trimming
    BY <1>0, <2>2, <2>3 DEF Trimming, OneRun, Mailing!Runners
  <2> QED
    BY <1>2, <2>4 DEF RowsAreFew
<1> QED
  BY <1>1, <1>2 DEF Mailing!Record

LEMMA RowsStayFew ==
    ASSUME Mailing!DigestAssumption, DigestInv, RowsAreFew, [Mailing!Next]_(Mailing!digestVars)
    PROVE  RowsAreFew'
<1>1. ASSUME runs' = runs, Trimming' = Trimming
      PROVE  RowsAreFew'
  BY <1>1 DEF RowsAreFew
<1>2. CASE Mailing!NewDay \/ UNCHANGED Mailing!digestVars
  BY <1>1, <1>2 DEF Mailing!NewDay, Mailing!digestVars, Trimming, Mailing!Runners
<1>3. ASSUME NEW r \in Mailing!Runners, NEW step \in {"idle", "check", "send", "record", "done"},
             Mailing!Goto(r, step), run[r].pc # "trim", runs' = runs
      PROVE  RowsAreFew'
  <2>1. OneRun(r, step)
    BY <1>3, GotoIs DEF DigestInv
  <2>2. Trimming' = Trimming
    BY <1>3, <2>1 DEF Trimming, OneRun, Mailing!Runners
  <2> QED
    BY <1>1, <1>3, <2>2
<1>4. ASSUME NEW l \in Loops, Mailing!Wake(l)
      PROVE  RowsAreFew'
  BY <1>3, <1>4 DEF Mailing!Wake, Mailing!Runners
<1>5. ASSUME NEW l \in Loops, Mailing!Check(l)
      PROVE  RowsAreFew'
  BY <1>3, <1>5 DEF Mailing!Check, Mailing!Runners
<1>6. ASSUME NEW f \in Forces, Mailing!Force(f)
      PROVE  RowsAreFew'
  BY <1>3, <1>6 DEF Mailing!Force, Mailing!Runners
<1>7. ASSUME NEW r \in Mailing!Runners, Mailing!Send(r)
      PROVE  RowsAreFew'
  <2>1. PICK sent \in BOOLEAN: run' = [run EXCEPT ![r] = [pc |-> "record", sent |-> sent]]
    BY <1>7 DEF Mailing!Send
  <2>2. run[r].pc = "send" /\ runs' = runs /\ run \in [Mailing!Runners -> MailRun]
    BY <1>7 DEF Mailing!Send, DigestInv, DigestTypes
  <2>3. \A q \in Mailing!Runners: run'[q].pc = "trim" <=> run[q].pc = "trim"
    BY <2>1, <2>2
  <2>4. Trimming' = Trimming
    BY <2>3 DEF Trimming, Mailing!Runners
  <2> QED
    BY <1>1, <2>2, <2>4
<1> QED
  BY <1>2, <1>4, <1>5, <1>6, <1>7, TrimLeavesKeep, RowAdded DEF Mailing!Next

\* Every variable of Digest keeps its type, and the table its size.
LEMMA DigestTypeCorrect ==
    ASSUME Mailing!DigestAssumption
    PROVE  Mailing!Spec => []Mailing!TypeOK
<1>1. Mailing!Init => RowsAreFew
  <2> SUFFICES ASSUME Mailing!Init
               PROVE  RowsAreFew
    OBVIOUS
  <2>1. runs = {}
    BY DEF Mailing!Init
  <2>2. Cardinality(runs) = 0 /\ IsFiniteSet(runs)
    BY <2>1, FS_EmptySet
  <2> QED
    BY <2>1, <2>2, TrimmingIsFinite DEF RowsAreFew
<1>2. DigestInv /\ RowsAreFew /\ [Mailing!Next]_(Mailing!digestVars) => RowsAreFew'
  BY RowsStayFew
<1>3. DigestInv /\ RowsAreFew => Mailing!TypeOK
  <2> SUFFICES ASSUME DigestInv, RowsAreFew
               PROVE  Mailing!TypeOK
    OBVIOUS
  <2>1. Cardinality(runs) \in Nat /\ Cardinality(runs) <= Keep + Cardinality(Trimming)
    BY FS_CardinalityType DEF RowsAreFew
  <2>2. Cardinality(runs) <= Keep + Cardinality(Mailing!Runners)
    BY <2>1, TrimmingIsFinite
  <2> QED
    BY <2>2 DEF DigestInv, DigestTypes, MailRun, Mailing!TypeOK, Mailing!Cardinality, Cardinality
<1> QED
  BY <1>1, <1>2, <1>3, DigestInductive, PTL DEF Mailing!Spec

-----------------------------------------------------------------------------
\* email_digest.py:288 and cost_alerts.py:113: operators are told once.  A day gets one mail
\* unless two processes were past their check at once, one was forced or its record was
\* lost; a window of an alert tells Sentry once, and once more only for a Redis that lost its
\* keys and for a key set when the window had passed.
THEOREM OperatorsHearOnce ==
    ASSUME Mailing!DigestAssumption, Spending!AlertsAssumption
    PROVE  Mailing!Spec /\ Spending!Spec => []OperatorsToldOnce
<1>1. DigestInv => Mailing!OneMailADay
  BY DEF DigestInv
<1>2. AlertInv => Spending!OncePerWindow
  <2> SUFFICES ASSUME AlertInv, NEW k \in DOMAIN fired
               PROVE  fired[k] <= 1 + (Restarts - restarts) + (IF k \in crossed THEN 1 ELSE 0)
    BY DEF Spending!OncePerWindow
  <2>1. k \in Spending!Alerts \X Spending!Buckets
    BY DEF AlertInv, Spending!TypeOK
  <2>2. Told(k)
    BY <2>1 DEF AlertInv
  <2> QED
    BY <2>2 DEF Told, Lost
<1> QED
  BY <1>1, <1>2, DigestInductive, AlertsInductive, PTL DEF OperatorsToldOnce

-----------------------------------------------------------------------------
(* CostBreaker.                                                            *)

Config == [Breaker!Keys -> Breaker!Values]
Check == [pc: Breaker!CallState, cfg: Config, sum: Nat]
BreakerTypes ==
    /\ config \in Config /\ copy \in [Breaker!Keys -> Breaker!Values \cup {Breaker!Absent}]
    /\ ttl \in {Breaker!Persistent} \cup 0..ConfigTtl
    /\ hourly \in [val: Nat, ttl: 0..CostTtl]
    /\ age \in [LlmCalls -> {Breaker!Unbooked} \cup 0..Hour]
    /\ check \in [LlmCalls -> Check]
    /\ patch \in [Patches -> [pc: {"new", "hset", "expire", "done"}, key: Breaker!Keys,
                              val: Breaker!Values]]
    /\ redisUp \in BOOLEAN
    /\ still \in [Breaker!Keys -> 0..Breaker!MaxAge] /\ on \in [Breaker!Keys -> 0..Breaker!MaxAge]
    /\ over \in 0..Breaker!MaxAge /\ under \in 0..Breaker!MaxAge

\* The hash has keys; somebody changed the table in this tick.
Copied == \E k \in Breaker!Keys: copy[k] # Breaker!Absent
TableEdited == \E k \in Breaker!Keys: still[k] = 0

\* The life of the hash, set anew in this tick or running down since an edit.
Expiring ==
    (\E c \in LlmCalls: check[c].pc = "expire") \/ (\E h \in Patches: patch[h].pc = "expire")
Lives == ttl > 0 \/ (ttl = Breaker!Persistent /\ Expiring)
Within(n) == n = 0 \/ (ttl > 0 /\ n + ttl <= ConfigTtl)

\* What the hash says is what the table says, unless an edit is younger than the hash's
\* life; a switch it shows on was on within it, or an edit of the other renewed that life.
CopyIsYoung ==
    Copied => /\ Lives
              /\ Breaker!Merged = config \/ \E k \in Breaker!Keys: Within(still[k])
OnIsRecent ==
    /\ \A k \in Breaker!Keys: config[k] = "true" => on[k] = 0
    /\ \A k \in Breaker!Keys: copy[k] = "true" =>
          Within(on[k]) \/ \E j \in Breaker!Keys \ {k}: Within(still[j])

\* The cached sum: the hour was on the same side of its cap within the sum's life.
SumIsYoung ==
    /\ Breaker!HourSum >= HourCap => under = 0
    /\ over > 0 => Breaker!HourSum >= HourCap
    /\ hourly.ttl > 0 =>
          IF hourly.val >= HourCap THEN under + hourly.ttl <= CostTtl ELSE over + hourly.ttl <= CostTtl

\* What a check has read, and what a PATCH has written.
SeenOn(k) == on[k] < ConfigTtl \/ \E j \in Breaker!Keys \ {k}: still[j] < ConfigTtl
OnIsNow ==
    \A k \in Breaker!Keys: copy[k] = "true" => on[k] = 0 \/ \E j \in Breaker!Keys \ {k}: still[j] = 0
HasRows(c) ==
    check[c].pc = "hset" =>
        /\ check[c].cfg = config \/ TableEdited
        /\ \A k \in Breaker!Keys: check[c].cfg[k] = "true" => on[k] = 0
WroteRows(c) ==
    check[c].pc = "expire" => redisUp /\ Copied /\ OnIsNow /\ (Breaker!Merged = config \/ TableEdited)
HasConfig(c) ==
    check[c].pc \in {"hset", "expire", "hour", "sum", "store"} =>
        \A k \in Breaker!Keys: check[c].cfg[k] = "true" => SeenOn(k)
HasSum(c) ==
    check[c].pc = "store" => IF check[c].sum >= HourCap THEN under = 0 ELSE over = 0
WasEnabled(c) == check[c].pc \in {"sum", "store"} => Breaker!Enabled(c)
CheckKnows(c) == HasRows(c) /\ WroteRows(c) /\ HasConfig(c) /\ HasSum(c) /\ WasEnabled(c)
Patching(h) ==
    /\ patch[h].pc \in {"hset", "expire"} => still[patch[h].key] = 0
    /\ patch[h].pc = "hset" /\ patch[h].val = "true" => on[patch[h].key] = 0
    /\ patch[h].pc = "expire" => redisUp /\ OnIsNow

BreakerInv ==
    /\ BreakerTypes /\ CopyIsYoung /\ OnIsRecent /\ SumIsYoung
    /\ \A c \in LlmCalls: CheckKnows(c)
    /\ \A h \in Patches: Patching(h)

LEMMA BreakerConstants ==
    ASSUME Breaker!BreakerAssumption
    PROVE  /\ ConfigTtl \in Nat \ {0} /\ CostTtl \in Nat \ {0} /\ HourCap \in Nat \ {0} /\ Hour \in Nat \ {0}
           /\ Breaker!MaxAge \in Nat /\ ConfigTtl <= Breaker!MaxAge /\ CostTtl <= Breaker!MaxAge
           /\ \A c: ~Breaker!UserOver(c)
BY DEF Breaker!BreakerAssumption, Breaker!MaxAge, Breaker!UserOver, Breaker!UserId

LEMMA HourSumIs ==
    ASSUME Breaker!BreakerAssumption
    PROVE  /\ Breaker!HourSum \in Nat
           /\ (\A c \in LlmCalls: age[c] \in 0..(Hour - 1) => age'[c] \in 0..(Hour - 1))
                 => Breaker!HourSum' \in Nat /\ Breaker!HourSum <= Breaker!HourSum'
<1> DEFINE S == {c \in LlmCalls: age[c] \in 0..(Hour - 1)}
           T == {c \in LlmCalls: age'[c] \in 0..(Hour - 1)}
<1>1. IsFiniteSet(LlmCalls) /\ S \subseteq LlmCalls /\ T \subseteq LlmCalls
  BY DEF Breaker!BreakerAssumption, Breaker!IsFiniteSet, IsFiniteSet
<1>2. Breaker!HourSum = Cardinality(S) /\ Breaker!HourSum' = Cardinality(T)
  BY DEF Breaker!HourSum, Breaker!Cardinality, Cardinality
<1>3. (\A c \in LlmCalls: age[c] \in 0..(Hour - 1) => age'[c] \in 0..(Hour - 1)) => S \subseteq T
  OBVIOUS
<1> HIDE DEF S, T
<1>4. IsFiniteSet(S) /\ IsFiniteSet(T)
  BY <1>1, FS_Subset
<1>5. Cardinality(S) \in Nat /\ Cardinality(T) \in Nat /\ (S \subseteq T => Cardinality(S) <= Cardinality(T))
  BY <1>4, FS_CardinalityType, FS_Subset
<1> QED
  BY <1>2, <1>3, <1>5

\* A step of one check only.
OneCheck(c) == check' \in [LlmCalls -> Check] /\ \A d \in LlmCalls \ {c}: check'[d] = check[d]

LEMMA CallNames ==
    {"new", "rows", "hset", "expire", "hour", "sum", "store", "go", "blocked", "done"} = Breaker!CallState
BY DEF Breaker!CallState

LEMMA DecideIs ==
    ASSUME BreakerTypes, NEW c \in LlmCalls, NEW verdict \in {"go", "blocked"}, Breaker!Decide(c, verdict)
    PROVE  OneCheck(c) /\ check'[c].pc = verdict /\ CheckKnows(c)'
<1>1. Breaker!Call(verdict) \in Check /\ Breaker!Call(verdict).pc = verdict
  BY DEF Breaker!Call, Check, Config, Breaker!Defaults, Breaker!Values, Breaker!CallState
<1>2. check'[c] = Breaker!Call(verdict) /\ OneCheck(c)
  BY <1>1 DEF Breaker!Decide, BreakerTypes, OneCheck
<1> QED
  BY <1>1, <1>2 DEF CheckKnows, HasRows, WroteRows, HasConfig, HasSum, WasEnabled

LEMMA CheckGoesTo ==
    ASSUME BreakerTypes, NEW c \in LlmCalls, NEW step \in Breaker!CallState, Breaker!Goto(c, step)
    PROVE  OneCheck(c) /\ check'[c].pc = step /\ check'[c].cfg = check[c].cfg /\ check'[c].sum = check[c].sum
<1>1. check'[c] = [check[c] EXCEPT !.pc = step] /\ check[c] \in Check
  BY DEF Breaker!Goto, BreakerTypes
<1>2. check'[c] \in Check
  BY <1>1 DEF Check
<1> QED
  BY <1>1, <1>2 DEF Breaker!Goto, BreakerTypes, OneCheck, Check

\* A step that only reads: one check goes on, and knows what it read.
LEMMA ReadStep ==
    ASSUME Breaker!BreakerAssumption, BreakerInv, NEW c \in LlmCalls,
           \/ Breaker!Stream(c) \/ Breaker!ReadCache(c) \/ Breaker!ReadRows(c) \/ Breaker!RowsFail(c)
           \/ Breaker!ReadHour(c) \/ Breaker!SumHour(c) \/ Breaker!SumFails(c)
    PROVE  /\ UNCHANGED <<Breaker!configVars, Breaker!spendVars, patch, redisUp>>
           /\ OneCheck(c) /\ CheckKnows(c)' /\ check[c].pc # "expire"
<1> USE DEF BreakerInv
<1>0. UNCHANGED <<Breaker!configVars, Breaker!spendVars, patch, redisUp>> /\ check[c].pc # "expire"
  BY DEF Breaker!Stream, Breaker!ReadCache, Breaker!ReadRows, Breaker!RowsFail, Breaker!ReadHour, Breaker!SumHour,
         Breaker!SumFails, Breaker!Turn, Breaker!At
<1>0a. UNCHANGED <<config, copy, ttl, still, on, over, under>>
  BY <1>0 DEF Breaker!configVars, Breaker!spendVars
<1>1. CASE Breaker!Stream(c) \/ Breaker!RowsFail(c) \/ Breaker!SumFails(c)
  BY <1>0, <1>1, DecideIs DEF Breaker!Stream, Breaker!RowsFail, Breaker!SumFails
<1>2. CASE Breaker!ReadCache(c)
  <2>1. CASE Breaker!Cached
    <3>1. check' = [check EXCEPT ![c].pc = "hour", ![c].cfg = Breaker!Merged]
      BY <1>2, <2>1 DEF Breaker!ReadCache
    <3>2. Breaker!Merged \in Config /\ \A k \in Breaker!Keys: Breaker!Merged[k] = "true" => copy[k] = "true"
      BY DEF BreakerTypes, Breaker!Merged, Config, Breaker!Defaults, Breaker!Values, Breaker!Absent
    <3>3. check[c] \in Check
      BY DEF BreakerTypes
    <3>4. check'[c] = [check[c] EXCEPT !.pc = "hour", !.cfg = Breaker!Merged]
      BY <3>1 DEF BreakerTypes
    <3>5. check'[c] \in Check /\ check'[c].pc = "hour" /\ check'[c].cfg = Breaker!Merged
      BY <3>2, <3>3, <3>4, CallNames DEF Check
    <3>6. OneCheck(c)
      BY <3>1, <3>5 DEF BreakerTypes, OneCheck
    <3>7. ASSUME NEW k \in Breaker!Keys, copy[k] = "true"
          PROVE  SeenOn(k)
      BY <3>7, BreakerConstants DEF OnIsRecent, Within, SeenOn, BreakerTypes, Breaker!Persistent
    <3>8. CheckKnows(c)'
      BY <1>0a, <3>2, <3>5, <3>7 DEF CheckKnows, HasRows, WroteRows, HasConfig, HasSum, WasEnabled, SeenOn
    <3> QED
      BY <1>0, <3>6, <3>8
  <2>2. CASE ~Breaker!Cached
    <3>1. OneCheck(c) /\ check'[c].pc = "rows"
      BY <1>2, <2>2, CheckGoesTo, CallNames DEF Breaker!ReadCache
    <3> QED
      BY <1>0, <3>1 DEF CheckKnows, HasRows, WroteRows, HasConfig, HasSum, WasEnabled
  <2> QED
    BY <2>1, <2>2
<1>3. CASE Breaker!ReadRows(c)
  <2>1. check' = [check EXCEPT ![c].pc = "hset", ![c].cfg = config] /\ check[c] \in Check /\ config \in Config
    BY <1>3 DEF Breaker!ReadRows, BreakerTypes
  <2>2. check'[c] = [check[c] EXCEPT !.pc = "hset", !.cfg = config]
    BY <2>1 DEF BreakerTypes
  <2>3. check'[c] \in Check /\ check'[c].pc = "hset" /\ check'[c].cfg = config
    <3>1. check[c] \in Check /\ config \in Config
      BY <2>1
    <3> QED
      BY <2>2, <3>1, CallNames DEF Check
  <2>4. OneCheck(c)
    BY <2>1, <2>3 DEF BreakerTypes, OneCheck
  <2>5. \A k \in Breaker!Keys: config[k] = "true" => on[k] = 0 /\ SeenOn(k)
    BY BreakerConstants DEF OnIsRecent, SeenOn
  <2>6. CheckKnows(c)'
    BY <1>0a, <2>3, <2>5 DEF CheckKnows, HasRows, WroteRows, HasConfig, HasSum, WasEnabled, SeenOn
  <2> QED
    BY <1>0, <2>4, <2>6
<1>4. CASE Breaker!ReadHour(c)
  <2>1. CASE Breaker!Goto(c, "sum") /\ Breaker!Enabled(c)
    <3>1. OneCheck(c) /\ check'[c].pc = "sum" /\ check'[c].cfg = check[c].cfg
      BY <2>1, CheckGoesTo, CallNames
    <3>2. HasConfig(c) /\ check[c].pc = "hour"
      BY <1>4 DEF CheckKnows, Breaker!ReadHour, Breaker!At
    <3>2a. Breaker!Enabled(c)'
      BY <2>1, <3>1 DEF Breaker!Enabled
    <3>3. CheckKnows(c)'
      BY <1>0a, <3>1, <3>2, <3>2a DEF CheckKnows, HasRows, WroteRows, HasConfig, HasSum, WasEnabled, SeenOn
    <3> QED
      BY <1>0, <3>1, <3>3
  <2>2. CASE \E verdict \in {"go", "blocked"}: Breaker!Decide(c, verdict)
    BY <1>0, <2>2, DecideIs
  <2>3. (Breaker!Goto(c, "sum") /\ Breaker!Enabled(c)) \/ \E verdict \in {"go", "blocked"}: Breaker!Decide(c, verdict)
    BY <1>4 DEF Breaker!ReadHour, Breaker!Outcome, Breaker!Verdict
  <2> QED
    BY <2>1, <2>2, <2>3
<1>5. CASE Breaker!SumHour(c)
  <2>1. /\ check' = [check EXCEPT ![c].pc = "store", ![c].sum = Breaker!HourSum] /\ check[c] \in Check
        /\ check[c].pc = "sum" /\ Breaker!HourSum \in Nat
    BY <1>5, HourSumIs DEF Breaker!SumHour, BreakerTypes, Breaker!At
  <2>2. check'[c] = [check[c] EXCEPT !.pc = "store", !.sum = Breaker!HourSum]
    BY <2>1 DEF BreakerTypes
  <2>3. /\ check'[c] \in Check /\ check'[c].pc = "store" /\ check'[c].cfg = check[c].cfg
        /\ check'[c].sum = Breaker!HourSum
    <3>1. check[c] \in Check /\ Breaker!HourSum \in Nat
      BY <2>1
    <3> QED
      BY <2>2, <3>1, CallNames DEF Check
  <2>4. OneCheck(c)
    BY <2>1, <2>3 DEF BreakerTypes, OneCheck
  <2>5. HasConfig(c) /\ (IF Breaker!HourSum >= HourCap THEN under = 0 ELSE over = 0)
    BY <2>1, BreakerConstants DEF CheckKnows, SumIsYoung, BreakerTypes
  <2>5a. Breaker!Enabled(c)'
    BY <2>1, <2>3 DEF CheckKnows, WasEnabled, Breaker!Enabled
  <2>6. CheckKnows(c)'
    BY <1>0a, <2>1, <2>3, <2>5, <2>5a DEF CheckKnows, HasRows, WroteRows, HasConfig, HasSum, WasEnabled, SeenOn
  <2> QED
    BY <1>0, <2>4, <2>6
<1> QED
  BY <1>1, <1>2, <1>3, <1>4, <1>5

\* What a check knows stays true while time stands still.
LEMMA StillKnows ==
    ASSUME Breaker!BreakerAssumption, BreakerInv, NEW c \in LlmCalls, check'[c] = check[c],
           \A k \in Breaker!Keys: still'[k] = still[k] \/ still'[k] = 0,
           \A k \in Breaker!Keys: on'[k] = on[k] \/ on'[k] = 0,
           config' = config \/ TableEdited',
           check[c].pc = "expire" => /\ redisUp' /\ Copied' /\ OnIsNow'
                                     /\ Breaker!Merged' = Breaker!Merged \/ Breaker!Merged' = config' \/ TableEdited',
           under' = under \/ under' = 0, over' = over
    PROVE  CheckKnows(c)'
<1>0. CheckKnows(c) /\ (TableEdited => TableEdited')
  BY DEF BreakerInv, TableEdited
<1>1. HasRows(c)'
  BY <1>0 DEF CheckKnows, HasRows
<1>2. WroteRows(c)'
  BY <1>0 DEF CheckKnows, WroteRows
<1>3. \A k \in Breaker!Keys: SeenOn(k) => SeenOn(k)'
  <2>1. ASSUME NEW k \in Breaker!Keys
        PROVE  /\ on[k] < ConfigTtl => on'[k] < ConfigTtl
               /\ still[k] < ConfigTtl => still'[k] < ConfigTtl
    BY BreakerConstants DEF BreakerInv, BreakerTypes
  <2> QED
    BY <2>1 DEF SeenOn
<1>4. HasConfig(c)'
  BY <1>0, <1>3 DEF CheckKnows, HasConfig
<1>5. HasSum(c)'
  BY <1>0 DEF CheckKnows, HasSum
<1>6. WasEnabled(c)'
  BY <1>0 DEF CheckKnows, WasEnabled, Breaker!Enabled
<1> QED
  BY <1>1, <1>2, <1>4, <1>5, <1>6 DEF CheckKnows

\* The configuration is left alone.
LEMMA ConfigStays ==
    ASSUME BreakerInv, UNCHANGED <<Breaker!configVars, patch>>,
           \A c \in LlmCalls: check[c].pc = "expire" => check'[c].pc = "expire"
    PROVE  CopyIsYoung' /\ OnIsRecent' /\ OnIsNow' = OnIsNow /\ Copied' = Copied
           /\ Breaker!Merged' = Breaker!Merged /\ TableEdited' = TableEdited
<1>1. UNCHANGED <<config, copy, ttl, still, on, patch>>
  BY DEF Breaker!configVars
<1>2. Expiring => Expiring'
  BY <1>1 DEF Expiring
<1>3. Breaker!Merged' = Breaker!Merged
  BY <1>1 DEF Breaker!Merged
<1> QED
  BY <1>1, <1>2, <1>3 DEF BreakerInv, CopyIsYoung, OnIsRecent, OnIsNow, Copied, TableEdited, Lives, Within

\* A step of one check that leaves the configuration alone.
LEMMA CheckGoesOn ==
    ASSUME Breaker!BreakerAssumption, BreakerInv, NEW c \in LlmCalls, check[c].pc # "expire",
           OneCheck(c), CheckKnows(c)', UNCHANGED <<Breaker!configVars, patch, redisUp, over>>,
           under' = under \/ under' = 0, under' \in 0..Breaker!MaxAge, SumIsYoung',
           hourly' \in [val: Nat, ttl: 0..CostTtl], age' \in [LlmCalls -> {Breaker!Unbooked} \cup 0..Hour]
    PROVE  BreakerInv'
<1>1. UNCHANGED <<config, copy, ttl, still, on, patch, redisUp, over>>
  BY DEF Breaker!configVars
<1>2. \A d \in LlmCalls: check[d].pc = "expire" => check'[d] = check[d]
  BY DEF OneCheck
<1>3. CopyIsYoung' /\ OnIsRecent' /\ OnIsNow' = OnIsNow /\ Copied' = Copied
      /\ Breaker!Merged' = Breaker!Merged /\ TableEdited' = TableEdited
  BY <1>2, ConfigStays
<1>4. BreakerTypes'
  BY <1>1 DEF BreakerInv, BreakerTypes, OneCheck
<1>5. ASSUME NEW d \in LlmCalls, d # c
      PROVE  CheckKnows(d)'
  <2>1. check'[d] = check[d]
    BY <1>5 DEF OneCheck
  <2>2. check[d].pc = "expire" => redisUp /\ Copied /\ OnIsNow
    BY DEF BreakerInv, CheckKnows, WroteRows
  <2> QED
    BY <1>1, <1>3, <2>1, <2>2, StillKnows
<1>6. \A h \in Patches: Patching(h)'
  BY <1>1, <1>3 DEF BreakerInv, Patching
<1> QED
  BY <1>3, <1>4, <1>5, <1>6 DEF BreakerInv

LEMMA SumStays ==
    ASSUME BreakerInv, UNCHANGED <<hourly, age, over, under>>
    PROVE  SumIsYoung'
<1>1. Breaker!HourSum' = Breaker!HourSum
  BY DEF Breaker!HourSum
<1> QED
  BY <1>1 DEF BreakerInv, SumIsYoung

LEMMA StoreStep ==
    ASSUME Breaker!BreakerAssumption, BreakerInv, NEW c \in LlmCalls, Breaker!Store(c)
    PROVE  BreakerInv'
<1>1. /\ UNCHANGED <<Breaker!configVars, age, over, under, patch, redisUp>> /\ check[c].pc = "store"
      /\ hourly' = IF redisUp THEN [val |-> check[c].sum, ttl |-> CostTtl] ELSE hourly
  BY DEF Breaker!Store, Breaker!At
<1>2. OneCheck(c) /\ CheckKnows(c)'
  BY DecideIs DEF Breaker!Store, Breaker!Verdict, Breaker!Outcome, BreakerInv
<1>3. check[c].sum \in Nat /\ hourly \in [val: Nat, ttl: 0..CostTtl]
      /\ (IF check[c].sum >= HourCap THEN under = 0 ELSE over = 0)
  BY <1>1 DEF BreakerInv, BreakerTypes, Check, CheckKnows, HasSum
<1>4. hourly' \in [val: Nat, ttl: 0..CostTtl]
  BY <1>1, <1>3, BreakerConstants
<1>5. SumIsYoung'
  <2>1. Breaker!HourSum' = Breaker!HourSum
    BY <1>1 DEF Breaker!HourSum
  <2>2. CASE redisUp
    <3>1. hourly'.val = check[c].sum /\ hourly'.ttl = CostTtl
      BY <1>1, <2>2
    <3> QED
      BY <1>1, <1>3, <2>1, <3>1, BreakerConstants DEF BreakerInv, SumIsYoung
  <2>3. CASE ~redisUp
    BY <1>1, <2>1, <2>3 DEF BreakerInv, SumIsYoung
  <2> QED
    BY <2>2, <2>3
<1>6. under \in 0..Breaker!MaxAge /\ age \in [LlmCalls -> {Breaker!Unbooked} \cup 0..Hour]
  BY DEF BreakerInv, BreakerTypes
<1> QED
  BY <1>1, <1>2, <1>4, <1>5, <1>6, CheckGoesOn

LEMMA FinishStep ==
    ASSUME Breaker!BreakerAssumption, BreakerInv, NEW c \in LlmCalls,
           Breaker!Finish(c) \/ Breaker!FinishUnbooked(c)
    PROVE  BreakerInv'
<1>1. /\ UNCHANGED <<Breaker!configVars, hourly, over, patch, redisUp>> /\ check[c].pc = "go"
      /\ Breaker!Goto(c, "done")
  BY DEF Breaker!Finish, Breaker!FinishUnbooked, Breaker!At
<1>2. OneCheck(c) /\ check'[c].pc = "done"
  BY <1>1, CheckGoesTo, CallNames DEF BreakerInv
<1>3. CheckKnows(c)'
  BY <1>2 DEF CheckKnows, HasRows, WroteRows, HasConfig, HasSum, WasEnabled
<1>4. /\ under \in 0..Breaker!MaxAge /\ age \in [LlmCalls -> {Breaker!Unbooked} \cup 0..Hour]
      /\ hourly \in [val: Nat, ttl: 0..CostTtl] /\ over \in Nat
  BY DEF BreakerInv, BreakerTypes
<1>5. CASE Breaker!Finish(c)
  <2>1. age' = [age EXCEPT ![c] = 0] /\ under' = IF Breaker!HourSum' >= HourCap THEN 0 ELSE under
    BY <1>5 DEF Breaker!Finish
  <2>2. 0 \in 0..(Hour - 1) /\ 0 \in 0..Hour
    BY BreakerConstants
  <2>3. /\ age' \in [LlmCalls -> {Breaker!Unbooked} \cup 0..Hour]
        /\ \A d \in LlmCalls: age[d] \in 0..(Hour - 1) => age'[d] \in 0..(Hour - 1)
    BY <1>4, <2>1, <2>2
  <2>4. Breaker!HourSum \in Nat /\ Breaker!HourSum' \in Nat /\ Breaker!HourSum <= Breaker!HourSum'
    BY <2>3, HourSumIs
  <2>5. under' = under \/ under' = 0
    BY <2>1
  <2>6. under' \in 0..Breaker!MaxAge
    BY <1>4, <2>5, BreakerConstants
  <2>7. SumIsYoung'
    BY <1>1, <1>4, <2>1, <2>4, <2>5, BreakerConstants DEF BreakerInv, SumIsYoung
  <2> QED
    BY <1>1, <1>2, <1>3, <1>4, <2>3, <2>5, <2>6, <2>7, CheckGoesOn
<1>6. CASE Breaker!FinishUnbooked(c)
  <2>1. UNCHANGED <<age, under>>
    BY <1>6 DEF Breaker!FinishUnbooked
  <2>2. SumIsYoung'
    BY <1>1, <2>1, SumStays
  <2> QED
    BY <1>1, <1>2, <1>3, <1>4, <2>1, <2>2, CheckGoesOn
<1> QED
  BY <1>5, <1>6

LEMMA CopyTypes ==
    ASSUME BreakerInv
    PROVE  /\ copy \in [Breaker!Keys -> Breaker!Values \cup {Breaker!Absent}] /\ Breaker!Absent \notin Breaker!Values
           /\ config \in Config /\ "true" \in Breaker!Values /\ Breaker!Keys # {}
           /\ ttl \in {Breaker!Persistent} \cup 0..ConfigTtl /\ redisUp \in BOOLEAN
           /\ still \in [Breaker!Keys -> 0..Breaker!MaxAge] /\ on \in [Breaker!Keys -> 0..Breaker!MaxAge]
BY DEF BreakerInv, BreakerTypes, Breaker!Values, Breaker!Absent, Breaker!Keys

\* A check writes the rows it read into the hash.
LEMMA RefillStep ==
    ASSUME Breaker!BreakerAssumption, BreakerInv, NEW c \in LlmCalls, Breaker!Refill(c)
    PROVE  BreakerInv'
<1>0. UNCHANGED <<config, still, on, Breaker!spendVars, patch, redisUp>> /\ check[c].pc = "hset"
  BY DEF Breaker!Refill, Breaker!At
<1>0a. UNCHANGED <<hourly, age, over, under>> /\ SumIsYoung'
  BY <1>0, SumStays DEF Breaker!spendVars
<1>0b. /\ under \in 0..Breaker!MaxAge /\ age \in [LlmCalls -> {Breaker!Unbooked} \cup 0..Hour]
       /\ hourly \in [val: Nat, ttl: 0..CostTtl]
  BY DEF BreakerInv, BreakerTypes
<1>1. CASE ~redisUp
  <2>1. UNCHANGED Breaker!configVars /\ Breaker!Goto(c, "hour")
    BY <1>0, <1>1 DEF Breaker!Refill, Breaker!configVars
  <2>2. OneCheck(c) /\ check'[c].pc = "hour" /\ check'[c].cfg = check[c].cfg
    BY <2>1, CheckGoesTo, CallNames DEF BreakerInv
  <2>3. HasConfig(c)
    BY DEF BreakerInv, CheckKnows
  <2>4. CheckKnows(c)'
    BY <1>0, <2>2, <2>3 DEF CheckKnows, HasRows, WroteRows, HasConfig, HasSum, WasEnabled, SeenOn
  <2> QED
    BY <1>0, <1>0a, <1>0b, <2>1, <2>2, <2>4, CheckGoesOn
<1>2. CASE redisUp
  <2>1. copy' = check[c].cfg /\ ttl' = Breaker!HsetTtl /\ Breaker!Goto(c, "expire")
    BY <1>2 DEF Breaker!Refill
  <2>2. OneCheck(c) /\ check'[c].pc = "expire" /\ check'[c].cfg = check[c].cfg
    BY <2>1, CheckGoesTo, CallNames DEF BreakerInv
  <2>3. /\ check[c].cfg \in Config /\ (check[c].cfg = config \/ TableEdited)
        /\ \A k \in Breaker!Keys: check[c].cfg[k] = "true" => on[k] = 0
        /\ HasConfig(c)
    BY <1>0 DEF BreakerInv, BreakerTypes, Check, CheckKnows, HasRows
  <2>4. Breaker!Merged' = check[c].cfg /\ Copied' /\ copy' \in [Breaker!Keys -> Breaker!Values \cup {Breaker!Absent}]
    BY <2>1, <2>3, CopyTypes DEF Config, Breaker!Merged, Copied
  <2>5. OnIsNow' /\ Expiring' /\ (TableEdited => TableEdited')
    BY <1>0, <2>1, <2>2, <2>3 DEF OnIsNow, Expiring, TableEdited
  <2>6. Lives' /\ ttl' \in {Breaker!Persistent} \cup 0..ConfigTtl
    <3>1. Copied => Lives
      BY DEF BreakerInv, CopyIsYoung
    <3> QED
      BY <2>1, <2>5, <3>1, CopyTypes DEF Lives, Breaker!HsetTtl, Breaker!Cached, Copied
  <2>7. CopyIsYoung'
    BY <1>0, <2>3, <2>4, <2>6 DEF CopyIsYoung, TableEdited, Within
  <2>8. OnIsRecent'
    BY <1>0, <2>1, <2>3 DEF BreakerInv, OnIsRecent, Within
  <2>9. BreakerTypes'
    BY <1>0, <1>0a, <2>2, <2>4, <2>6 DEF BreakerInv, BreakerTypes, OneCheck
  <2>10. CheckKnows(c)'
    <3>1. HasConfig(c)'
      BY <1>0, <2>2, <2>3 DEF HasConfig, SeenOn
    <3> QED
      BY <1>0, <1>2, <2>2, <2>3, <2>4, <2>5, <3>1 DEF CheckKnows, HasRows, WroteRows, HasSum, WasEnabled
  <2>11. ASSUME NEW d \in LlmCalls, d # c
         PROVE  CheckKnows(d)'
    BY <1>0, <1>0a, <1>2, <2>2, <2>3, <2>4, <2>5, <2>11, StillKnows DEF OneCheck
  <2>12. \A h \in Patches: Patching(h)'
    BY <1>0, <2>5 DEF BreakerInv, Patching
  <2> QED
    BY <1>0a, <2>7, <2>8, <2>9, <2>10, <2>11, <2>12 DEF BreakerInv
<1> QED
  BY <1>1, <1>2

\* The hash gets its life from whoever wrote it in this tick.
LEMMA Renewed ==
    ASSUME Breaker!BreakerAssumption, BreakerInv, OnIsNow, Breaker!Merged = config \/ TableEdited,
           UNCHANGED <<config, copy, still, on>>, ttl' = ConfigTtl
    PROVE  /\ CopyIsYoung' /\ OnIsRecent' /\ OnIsNow' /\ Copied' = Copied
           /\ Breaker!Merged' = Breaker!Merged /\ TableEdited' = TableEdited
           /\ ttl' \in {Breaker!Persistent} \cup 0..ConfigTtl
<1>1. Breaker!Merged' = Breaker!Merged
  BY DEF Breaker!Merged
<1>2. Lives'
  BY BreakerConstants DEF Lives
<1>3. CopyIsYoung'
  BY <1>1, <1>2 DEF CopyIsYoung, Within, TableEdited
<1>4. OnIsRecent'
  BY DEF BreakerInv, OnIsRecent, OnIsNow, Within
<1> QED
  BY <1>1, <1>3, <1>4, BreakerConstants DEF OnIsNow, Copied, TableEdited

LEMMA ExpireStep ==
    ASSUME Breaker!BreakerAssumption, BreakerInv, NEW c \in LlmCalls, Breaker!Expire(c)
    PROVE  BreakerInv'
<1>1. /\ UNCHANGED <<config, copy, still, on, Breaker!spendVars, patch, redisUp>> /\ check[c].pc = "expire"
      /\ Breaker!Goto(c, "hour") /\ ttl' = IF redisUp THEN ConfigTtl ELSE ttl
  BY DEF Breaker!Expire, Breaker!At
<1>2. WroteRows(c) /\ HasConfig(c)
  BY DEF BreakerInv, CheckKnows
<1>3. redisUp /\ Copied /\ OnIsNow /\ (Breaker!Merged = config \/ TableEdited)
  BY <1>1, <1>2 DEF WroteRows
<1>4. ttl' = ConfigTtl
  BY <1>1, <1>3, CopyTypes
<1>5. /\ CopyIsYoung' /\ OnIsRecent' /\ OnIsNow' /\ Copied' = Copied
      /\ Breaker!Merged' = Breaker!Merged /\ TableEdited' = TableEdited
      /\ ttl' \in {Breaker!Persistent} \cup 0..ConfigTtl
  BY <1>1, <1>3, <1>4, Renewed
<1>6. UNCHANGED <<hourly, age, over, under>> /\ SumIsYoung'
  BY <1>1, SumStays DEF Breaker!spendVars
<1>7. OneCheck(c) /\ check'[c].pc = "hour" /\ check'[c].cfg = check[c].cfg
  BY <1>1, CheckGoesTo, CallNames DEF BreakerInv
<1>8. BreakerTypes'
  BY <1>1, <1>5, <1>6, <1>7 DEF BreakerInv, BreakerTypes, OneCheck
<1>9. CheckKnows(c)'
  BY <1>1, <1>2, <1>7 DEF CheckKnows, HasRows, WroteRows, HasConfig, HasSum, WasEnabled, SeenOn
<1>10. ASSUME NEW d \in LlmCalls, d # c
       PROVE  CheckKnows(d)'
  BY <1>1, <1>3, <1>5, <1>6, <1>7, <1>10, StillKnows DEF OneCheck
<1>11. \A h \in Patches: Patching(h)'
  BY <1>1, <1>3, <1>5 DEF BreakerInv, Patching
<1> QED
  BY <1>5, <1>6, <1>8, <1>9, <1>10, <1>11 DEF BreakerInv

\* A step of one PATCH only.
OnePatch(h) ==
    /\ patch' \in [Patches -> [pc: {"new", "hset", "expire", "done"}, key: Breaker!Keys, val: Breaker!Values]]
    /\ \A g \in Patches \ {h}: patch'[g] = patch[g]

\* An edit of the table.
LEMMA EditStep ==
    ASSUME Breaker!BreakerAssumption, BreakerInv, NEW h \in Patches, NEW k \in Breaker!Keys,
           NEW v \in Breaker!Values, Breaker!PatchTable(h, k, v) \/ Breaker!SqlEdit(h, k, v)
    PROVE  BreakerInv'
<1>1. /\ UNCHANGED <<copy, ttl, Breaker!spendVars, check, redisUp>> /\ Breaker!SetKey(k, v) /\ patch[h].pc = "new"
      /\ \/ patch' = [patch EXCEPT ![h] = [pc |-> "hset", key |-> k, val |-> v]]
         \/ patch' = [patch EXCEPT ![h].pc = "done"]
  BY DEF Breaker!PatchTable, Breaker!SqlEdit
<1>2. /\ config' = [config EXCEPT ![k] = v] /\ still' = [still EXCEPT ![k] = 0]
      /\ on' = IF "true" \in {config[k], v} THEN [on EXCEPT ![k] = 0] ELSE on
  BY <1>1 DEF Breaker!SetKey
<1>3. /\ still'[k] = 0 /\ still' \in [Breaker!Keys -> 0..Breaker!MaxAge]
      /\ \A j \in Breaker!Keys: still'[j] = still[j] \/ still'[j] = 0
      /\ \A j \in Breaker!Keys: on'[j] = on[j] \/ on'[j] = 0
      /\ on' \in [Breaker!Keys -> 0..Breaker!MaxAge]
      /\ v = "true" => on'[k] = 0
  BY <1>2, CopyTypes, BreakerConstants
<1>4. config' \in Config /\ TableEdited' /\ config'[k] = v /\ \A j \in Breaker!Keys \ {k}: config'[j] = config[j]
  BY <1>2, <1>3, CopyTypes DEF Config, TableEdited
<1>5. /\ patch' \in [Patches -> [pc: {"new", "hset", "expire", "done"}, key: Breaker!Keys, val: Breaker!Values]]
      /\ \A g \in Patches \ {h}: patch'[g] = patch[g]
      /\ \/ patch'[h].pc = "hset" /\ patch'[h].key = k /\ patch'[h].val = v
         \/ patch'[h].pc = "done"
  BY <1>1 DEF BreakerInv, BreakerTypes
<1>6. UNCHANGED <<hourly, age, over, under>> /\ SumIsYoung'
  BY <1>1, SumStays DEF Breaker!spendVars
<1>7. BreakerTypes'
  BY <1>1, <1>3, <1>4, <1>5, <1>6 DEF BreakerInv, BreakerTypes
<1>8. Breaker!Merged' = Breaker!Merged /\ Copied' = Copied /\ (Expiring => Expiring') /\ (OnIsNow => OnIsNow')
  <2>1. Expiring => Expiring'
    BY <1>1, <1>5 DEF Expiring
  <2>2. OnIsNow => OnIsNow'
    BY <1>1, <1>3 DEF OnIsNow
  <2> QED
    BY <1>1, <2>1, <2>2 DEF Breaker!Merged, Copied
<1>9. CopyIsYoung'
  BY <1>1, <1>3, <1>8 DEF BreakerInv, CopyIsYoung, Lives, Within
<1>10. OnIsRecent'
  <2>1. ASSUME NEW j \in Breaker!Keys, config'[j] = "true"
        PROVE  on'[j] = 0
    BY <1>3, <1>4, <2>1 DEF BreakerInv, OnIsRecent
  <2>2. ASSUME NEW j \in Breaker!Keys
        PROVE  (Within(on[j]) => Within(on[j])') /\ (Within(still[j]) => Within(still[j])')
    BY <1>1, <1>3 DEF Within
  <2> QED
    BY <1>1, <2>1, <2>2 DEF BreakerInv, OnIsRecent
<1>11. ASSUME NEW c \in LlmCalls
       PROVE  CheckKnows(c)'
  <2>1. check[c].pc = "expire" => redisUp /\ Copied /\ OnIsNow
    BY DEF BreakerInv, CheckKnows, WroteRows
  <2> QED
    BY <1>1, <1>3, <1>4, <1>6, <1>8, <2>1, StillKnows
<1>12. ASSUME NEW g \in Patches
       PROVE  Patching(g)'
  <2>1. CASE g = h
    BY <1>3, <1>5, <2>1 DEF Patching
  <2>2. CASE g # h
    <3>1. patch'[g] = patch[g] /\ Patching(g) /\ patch[g].key \in Breaker!Keys
      BY <1>5, <2>2 DEF BreakerInv, BreakerTypes
    <3>2. /\ still[patch[g].key] = 0 => still'[patch[g].key] = 0
          /\ on[patch[g].key] = 0 => on'[patch[g].key] = 0
      BY <1>3, <3>1
    <3> QED
      BY <1>1, <1>8, <3>1, <3>2 DEF Patching
  <2> QED
    BY <2>1, <2>2
<1> QED
  BY <1>6, <1>7, <1>9, <1>10, <1>11, <1>12 DEF BreakerInv

\* A PATCH goes on.
LEMMA PatchGoes ==
    ASSUME BreakerInv, NEW h \in Patches, NEW step \in {"new", "hset", "expire", "done"},
           patch' = [patch EXCEPT ![h].pc = step]
    PROVE  /\ OnePatch(h) /\ patch'[h].pc = step /\ patch'[h].key = patch[h].key
           /\ patch[h].key \in Breaker!Keys /\ patch[h].val \in Breaker!Values
<1>1. patch \in [Patches -> [pc: {"new", "hset", "expire", "done"}, key: Breaker!Keys, val: Breaker!Values]]
  BY DEF BreakerInv, BreakerTypes
<1>2. patch'[h] = [patch[h] EXCEPT !.pc = step]
  BY <1>1
<1> QED
  BY <1>1, <1>2 DEF OnePatch

LEMMA PatchHashStep ==
    ASSUME Breaker!BreakerAssumption, BreakerInv, NEW h \in Patches, Breaker!PatchHash(h)
    PROVE  BreakerInv'
<1> DEFINE key == patch[h].key
           val == patch[h].val
<1>1. UNCHANGED <<config, still, on, Breaker!spendVars, check, redisUp>> /\ patch[h].pc = "hset"
  BY DEF Breaker!PatchHash
<1>2. \E step \in {"expire", "done"}: patch' = [patch EXCEPT ![h].pc = step]
  BY DEF Breaker!PatchHash
<1>3. OnePatch(h) /\ patch'[h].key = key /\ key \in Breaker!Keys /\ val \in Breaker!Values
      /\ patch'[h].pc # "hset"
  BY <1>2, PatchGoes
<1>4. Patching(h) /\ still[key] = 0 /\ (val = "true" => on[key] = 0) /\ TableEdited
  BY <1>1, <1>3 DEF BreakerInv, Patching, TableEdited
<1>5. UNCHANGED <<hourly, age, over, under>> /\ SumIsYoung'
  BY <1>1, SumStays DEF Breaker!spendVars
<1>6. CASE redisUp
  <2>1. copy' = [copy EXCEPT ![key] = val] /\ ttl' = Breaker!HsetTtl /\ patch' = [patch EXCEPT ![h].pc = "expire"]
    BY <1>6 DEF Breaker!PatchHash
  <2>2. patch'[h].pc = "expire" /\ Expiring' /\ TableEdited'
    BY <1>1, <1>4, <2>1, PatchGoes DEF Expiring, TableEdited
  <2>3. /\ copy' \in [Breaker!Keys -> Breaker!Values \cup {Breaker!Absent}] /\ copy'[key] = val
        /\ \A k \in Breaker!Keys \ {key}: copy'[k] = copy[k]
    BY <1>3, <2>1, CopyTypes
  <2>4. Copied'
    BY <1>3, <2>3, CopyTypes DEF Copied
  <2>5. OnIsNow'
    BY <1>1, <1>3, <1>4, <2>3 DEF OnIsNow
  <2>6. Lives' /\ ttl' \in {Breaker!Persistent} \cup 0..ConfigTtl
    <3>1. Copied => Lives
      BY DEF BreakerInv, CopyIsYoung
    <3> QED
      BY <2>1, <2>2, <3>1, CopyTypes DEF Lives, Breaker!HsetTtl, Breaker!Cached, Copied
  <2>7. CopyIsYoung'
    BY <1>1, <1>3, <1>4, <2>6 DEF CopyIsYoung, Within
  <2>8. OnIsRecent'
    BY <1>1, <2>5 DEF BreakerInv, OnIsRecent, OnIsNow, Within
  <2>9. BreakerTypes'
    BY <1>1, <1>3, <1>5, <2>3, <2>6 DEF BreakerInv, BreakerTypes, OnePatch
  <2>10. ASSUME NEW c \in LlmCalls
         PROVE  CheckKnows(c)'
    BY <1>1, <1>5, <1>6, <2>2, <2>4, <2>5, StillKnows
  <2>11. ASSUME NEW g \in Patches
         PROVE  Patching(g)'
    <3>1. CASE g = h
      BY <1>1, <1>3, <1>4, <1>6, <2>2, <2>5, <3>1 DEF Patching
    <3>2. CASE g # h
      BY <1>1, <1>3, <2>5, <3>2 DEF BreakerInv, Patching, OnePatch
    <3> QED
      BY <3>1, <3>2
  <2> QED
    BY <1>5, <2>7, <2>8, <2>9, <2>10, <2>11 DEF BreakerInv
<1>7. CASE ~redisUp
  <2>1. UNCHANGED <<copy, ttl>> /\ patch' = [patch EXCEPT ![h].pc = "done"]
    BY <1>7 DEF Breaker!PatchHash
  <2>2. patch'[h].pc = "done"
    BY <2>1, PatchGoes
  <2>3. /\ (Expiring => Expiring') /\ TableEdited' = TableEdited /\ Copied' = Copied /\ Breaker!Merged' = Breaker!Merged
        /\ OnIsNow' = OnIsNow
    BY <1>1, <1>3, <2>1 DEF Expiring, OnePatch, TableEdited, Copied, Breaker!Merged, OnIsNow
  <2>4. CopyIsYoung' /\ OnIsRecent'
    BY <1>1, <2>1, <2>3 DEF BreakerInv, CopyIsYoung, OnIsRecent, Lives, Within
  <2>5. BreakerTypes'
    BY <1>1, <1>3, <1>5, <2>1 DEF BreakerInv, BreakerTypes, OnePatch
  <2>6. ASSUME NEW c \in LlmCalls
        PROVE  CheckKnows(c)'
    <3>1. check[c].pc # "expire"
      BY <1>7 DEF BreakerInv, CheckKnows, WroteRows
    <3> QED
      BY <1>1, <1>5, <3>1, StillKnows
  <2>7. ASSUME NEW g \in Patches
        PROVE  Patching(g)'
    <3>1. CASE g = h
      BY <2>2, <3>1 DEF Patching
    <3>2. CASE g # h
      BY <1>1, <1>3, <2>3, <3>2 DEF BreakerInv, Patching, OnePatch
    <3> QED
      BY <3>1, <3>2
  <2> QED
    BY <1>5, <2>4, <2>5, <2>6, <2>7 DEF BreakerInv
<1> QED
  BY <1>6, <1>7

LEMMA PatchExpireStep ==
    ASSUME Breaker!BreakerAssumption, BreakerInv, NEW h \in Patches, Breaker!PatchExpire(h)
    PROVE  BreakerInv'
<1>1. /\ UNCHANGED <<config, copy, still, on, Breaker!spendVars, check, redisUp>> /\ patch[h].pc = "expire"
      /\ patch' = [patch EXCEPT ![h].pc = "done"] /\ ttl' = IF redisUp THEN ConfigTtl ELSE ttl
  BY DEF Breaker!PatchExpire
<1>2. OnePatch(h) /\ patch'[h].pc = "done" /\ patch[h].key \in Breaker!Keys
  BY <1>1, PatchGoes
<1>3. redisUp /\ OnIsNow /\ TableEdited
  BY <1>1, <1>2 DEF BreakerInv, Patching, TableEdited
<1>4. ttl' = ConfigTtl
  BY <1>1, <1>3
<1>5. /\ CopyIsYoung' /\ OnIsRecent' /\ OnIsNow' /\ Copied' = Copied
      /\ Breaker!Merged' = Breaker!Merged /\ TableEdited' = TableEdited
      /\ ttl' \in {Breaker!Persistent} \cup 0..ConfigTtl
  BY <1>1, <1>3, <1>4, Renewed
<1>6. UNCHANGED <<hourly, age, over, under>> /\ SumIsYoung'
  BY <1>1, SumStays DEF Breaker!spendVars
<1>7. BreakerTypes'
  BY <1>1, <1>2, <1>5, <1>6 DEF BreakerInv, BreakerTypes, OnePatch
<1>8. ASSUME NEW c \in LlmCalls
      PROVE  CheckKnows(c)'
  <2>1. check[c].pc = "expire" => Copied
    BY DEF BreakerInv, CheckKnows, WroteRows
  <2> QED
    BY <1>1, <1>3, <1>5, <1>6, <2>1, StillKnows
<1>9. ASSUME NEW g \in Patches
      PROVE  Patching(g)'
  <2>1. CASE g = h
    BY <1>2, <2>1 DEF Patching
  <2>2. CASE g # h
    BY <1>1, <1>2, <1>5, <2>2 DEF BreakerInv, Patching, OnePatch
  <2> QED
    BY <2>1, <2>2
<1> QED
  BY <1>5, <1>6, <1>7, <1>8, <1>9 DEF BreakerInv

LEMMA ToggleStep ==
    ASSUME Breaker!BreakerAssumption, BreakerInv, Breaker!RedisToggle
    PROVE  BreakerInv'
<1>1. /\ UNCHANGED <<Breaker!configVars, Breaker!spendVars, check, patch>> /\ redisUp' = ~redisUp
      /\ \A c \in LlmCalls: check[c].pc # "expire"
      /\ \A h \in Patches: patch[h].pc # "expire"
  BY DEF Breaker!RedisToggle, Breaker!At
<1>2. UNCHANGED <<config, copy, ttl, still, on, hourly, age, over, under>> /\ SumIsYoung'
  BY <1>1, SumStays DEF Breaker!spendVars, Breaker!configVars
<1>3. CopyIsYoung' /\ OnIsRecent'
  BY <1>1, ConfigStays
<1>4. redisUp' \in BOOLEAN
  BY <1>1
<1>5. BreakerTypes'
  BY <1>1, <1>2, <1>4 DEF BreakerInv, BreakerTypes
<1>6. \A c \in LlmCalls: CheckKnows(c)'
  BY <1>1, <1>2, StillKnows
<1>7. \A h \in Patches: Patching(h)'
  BY <1>1, <1>2 DEF BreakerInv, Patching
<1> QED
  BY <1>2, <1>3, <1>5, <1>6, <1>7 DEF BreakerInv

LEMMA AgedIs ==
    ASSUME Breaker!BreakerAssumption, NEW n \in 0..Breaker!MaxAge
    PROVE  /\ Breaker!Aged(n) \in 0..Breaker!MaxAge /\ Breaker!Aged(n) <= n + 1
BY BreakerConstants DEF Breaker!Aged

\* Ten seconds pass: no check and no PATCH is under way.
LEMMA BreakerTick ==
    ASSUME Breaker!BreakerAssumption, BreakerInv, Breaker!Tick
    PROVE  BreakerInv'
<1>1. /\ UNCHANGED <<config, check, patch, redisUp>>
      /\ \A c \in LlmCalls: check[c].pc \notin {"hset", "expire", "hour", "sum", "store"}
      /\ \A h \in Patches: patch[h].pc \in {"new", "done"}
  BY DEF Breaker!Tick, Breaker!Prompt, Breaker!Checking
<1>2. /\ ttl' = IF ttl > 0 THEN ttl - 1 ELSE ttl
      /\ copy' = IF ttl = 1 THEN [k \in Breaker!Keys |-> Breaker!Absent] ELSE copy
      /\ hourly' = IF hourly.ttl <= 1 THEN Breaker!NoSum ELSE [hourly EXCEPT !.ttl = @ - 1]
      /\ age' = [c \in LlmCalls |-> IF age[c] \in 0..(Hour - 1) THEN age[c] + 1 ELSE age[c]]
      /\ still' = [k \in Breaker!Keys |-> Breaker!Aged(still[k])]
      /\ on' = [k \in Breaker!Keys |-> IF config[k] = "true" THEN 0 ELSE Breaker!Aged(on[k])]
      /\ over' = IF Breaker!HourSum' >= HourCap THEN Breaker!Aged(over) ELSE 0
      /\ under' = IF Breaker!HourSum' >= HourCap THEN 0 ELSE Breaker!Aged(under)
  BY DEF Breaker!Tick
<1>3. /\ over \in 0..Breaker!MaxAge /\ under \in 0..Breaker!MaxAge
      /\ hourly \in [val: Nat, ttl: 0..CostTtl] /\ age \in [LlmCalls -> {Breaker!Unbooked} \cup 0..Hour]
  BY DEF BreakerInv, BreakerTypes
<1>4. ~Expiring
  BY <1>1 DEF Expiring
<1>5. /\ still' \in [Breaker!Keys -> 0..Breaker!MaxAge] /\ on' \in [Breaker!Keys -> 0..Breaker!MaxAge]
      /\ over' \in 0..Breaker!MaxAge /\ over' <= over + 1
      /\ under' \in 0..Breaker!MaxAge /\ under' <= under + 1
  <2>1. 0 \in 0..Breaker!MaxAge
    BY BreakerConstants
  <2>2. /\ Breaker!Aged(over) \in 0..Breaker!MaxAge /\ Breaker!Aged(over) <= over + 1
        /\ Breaker!Aged(under) \in 0..Breaker!MaxAge /\ Breaker!Aged(under) <= under + 1
    BY <1>3, AgedIs
  <2>3. \A k \in Breaker!Keys: Breaker!Aged(still[k]) \in 0..Breaker!MaxAge /\ Breaker!Aged(on[k]) \in 0..Breaker!MaxAge
    BY CopyTypes, AgedIs
  <2>4. still' \in [Breaker!Keys -> 0..Breaker!MaxAge] /\ on' \in [Breaker!Keys -> 0..Breaker!MaxAge]
    BY <1>2, <2>1, <2>3
  <2> QED
    BY <1>2, <1>3, <2>1, <2>2, <2>4
<1>6. hourly' \in [val: Nat, ttl: 0..CostTtl]
      /\ (hourly'.ttl > 0 => hourly'.val = hourly.val /\ hourly'.ttl = hourly.ttl - 1)
  <2>1. CASE hourly.ttl <= 1
    <3>1. hourly' = [val |-> 0, ttl |-> 0]
      BY <1>2, <2>1 DEF Breaker!NoSum
    <3> QED
      BY <3>1, BreakerConstants
  <2>2. CASE ~(hourly.ttl <= 1)
    <3>1. hourly' = [hourly EXCEPT !.ttl = hourly.ttl - 1]
      BY <1>2, <2>2
    <3>2. hourly.ttl - 1 \in 0..CostTtl
      BY <1>3, <2>2, BreakerConstants
    <3> QED
      BY <1>3, <3>1, <3>2
  <2> QED
    BY <2>1, <2>2
<1>7. age' \in [LlmCalls -> {Breaker!Unbooked} \cup 0..Hour]
  <2>1. ASSUME NEW c \in LlmCalls, age[c] \in 0..(Hour - 1)
        PROVE  age[c] + 1 \in 0..Hour
    BY <2>1, BreakerConstants
  <2> QED
    BY <1>2, <1>3, <2>1
<1>8. /\ ttl' \in {Breaker!Persistent} \cup 0..ConfigTtl
      /\ copy' \in [Breaker!Keys -> Breaker!Values \cup {Breaker!Absent}]
  BY <1>2, CopyTypes, BreakerConstants DEF Breaker!Persistent
<1>9. BreakerTypes'
  BY <1>1, <1>5, <1>6, <1>7, <1>8 DEF BreakerInv, BreakerTypes
<1>10. ASSUME Copied'
       PROVE  ttl > 1 /\ ttl' = ttl - 1 /\ copy' = copy /\ Copied
  <2>1. ttl # 1 /\ copy' = copy
    BY <1>2, <1>10 DEF Copied
  <2>2. Copied
    BY <1>10, <2>1 DEF Copied
  <2>3. ttl > 0
    BY <1>4, <2>2 DEF BreakerInv, CopyIsYoung, Lives
  <2> QED
    BY <1>2, <2>1, <2>2, <2>3, CopyTypes DEF Breaker!Persistent
<1>11. ASSUME NEW n \in 0..Breaker!MaxAge, Within(n), ttl > 1, ttl' = ttl - 1
       PROVE  Within(Breaker!Aged(n))'
  <2>1. Breaker!Aged(n) <= n + 1 /\ Breaker!Aged(n) \in Nat /\ ttl \in Nat /\ n \in Nat /\ ttl <= ConfigTtl
    BY <1>11, AgedIs, BreakerConstants, CopyTypes DEF Breaker!Persistent
  <2>2. n + ttl <= ConfigTtl
    BY <1>11, <2>1, BreakerConstants DEF Within
  <2>3. Breaker!Aged(n) + ttl' <= ConfigTtl /\ ttl' > 0
    BY <1>11, <2>1, <2>2, BreakerConstants
  <2>4. Breaker!Aged(n)' = Breaker!Aged(n)
    BY DEF Breaker!Aged
  <2> QED
    BY <2>3 DEF Within
<1>12. CopyIsYoung'
  <2> SUFFICES ASSUME Copied'
               PROVE  Lives' /\ (Breaker!Merged' = config' \/ \E k \in Breaker!Keys: Within(still[k])')
    BY DEF CopyIsYoung
  <2>1. ttl > 1 /\ ttl' = ttl - 1 /\ copy' = copy /\ Copied
    BY <1>10
  <2>2. Lives' /\ Breaker!Merged' = Breaker!Merged
    BY <2>1, CopyTypes DEF Lives, Breaker!Merged, Breaker!Persistent
  <2>3. ASSUME NEW k \in Breaker!Keys, Within(still[k])
        PROVE  Within(still[k])'
    <3>1. still[k] \in 0..Breaker!MaxAge /\ still'[k] = Breaker!Aged(still[k])
      BY <1>2, CopyTypes
    <3>2. \A n \in 0..Breaker!MaxAge: Within(n) => Breaker!Aged(n) = 0 \/ (ttl' > 0 /\ Breaker!Aged(n) + ttl' <= ConfigTtl)
      BY <1>11, <2>1 DEF Within
    <3> QED
      BY <2>3, <3>1, <3>2 DEF Within
  <2> QED
    BY <1>1, <2>1, <2>2, <2>3 DEF BreakerInv, CopyIsYoung
<1>13. OnIsRecent'
  <2>1. \A k \in Breaker!Keys: config'[k] = "true" => on'[k] = 0
    BY <1>1, <1>2
  <2>2. ASSUME NEW k \in Breaker!Keys, copy'[k] = "true"
        PROVE  Within(on[k])' \/ \E j \in Breaker!Keys \ {k}: Within(still[j])'
    <3>1. Copied'
      BY <2>2 DEF Copied, Breaker!Absent
    <3>2. ttl > 1 /\ ttl' = ttl - 1 /\ copy' = copy
      BY <1>10, <3>1
    <3>3. \A n \in 0..Breaker!MaxAge: Within(n) => Breaker!Aged(n) = 0 \/ (ttl' > 0 /\ Breaker!Aged(n) + ttl' <= ConfigTtl)
      BY <1>11, <3>2 DEF Within
    <3>4. Within(on[k]) => Within(on[k])'
      <4>1. on[k] \in 0..Breaker!MaxAge /\ (on'[k] = 0 \/ on'[k] = Breaker!Aged(on[k]))
        BY <1>2, CopyTypes
      <4> QED
        BY <3>3, <4>1 DEF Within
    <3>5. ASSUME NEW j \in Breaker!Keys, Within(still[j])
          PROVE  Within(still[j])'
      <4>1. still[j] \in 0..Breaker!MaxAge /\ still'[j] = Breaker!Aged(still[j])
        BY <1>2, CopyTypes
      <4> QED
        BY <3>3, <3>5, <4>1 DEF Within
    <3> QED
      BY <2>2, <3>2, <3>4, <3>5 DEF BreakerInv, OnIsRecent
  <2> QED
    BY <2>1, <2>2 DEF OnIsRecent
<1>14. SumIsYoung'
  <2>1. Breaker!HourSum' >= HourCap => under' = 0
    BY <1>2
  <2>2. over' > 0 => Breaker!HourSum' >= HourCap
    BY <1>2
  <2>3. ASSUME hourly'.ttl > 0
        PROVE  IF hourly'.val >= HourCap THEN under' + hourly'.ttl <= CostTtl ELSE over' + hourly'.ttl <= CostTtl
    <3>1. hourly'.val = hourly.val /\ hourly'.ttl = hourly.ttl - 1 /\ hourly.ttl > 0 /\ hourly.ttl \in Nat
      BY <1>3, <1>6, <2>3, BreakerConstants
    <3>2. IF hourly.val >= HourCap THEN under + hourly.ttl <= CostTtl ELSE over + hourly.ttl <= CostTtl
      BY <3>1 DEF BreakerInv, SumIsYoung
    <3>3. under' \in Nat /\ over' \in Nat /\ under \in Nat /\ over \in Nat
      BY <1>3, <1>5, BreakerConstants
    <3> QED
      BY <1>5, <3>1, <3>2, <3>3, BreakerConstants
  <2> QED
    BY <2>1, <2>2, <2>3 DEF SumIsYoung
<1>15. \A c \in LlmCalls: CheckKnows(c)'
  BY <1>1 DEF CheckKnows, HasRows, WroteRows, HasConfig, HasSum, WasEnabled
<1>16. \A h \in Patches: Patching(h)'
  BY <1>1 DEF Patching
<1> QED
  BY <1>9, <1>12, <1>13, <1>14, <1>15, <1>16 DEF BreakerInv

LEMMA BreakerInit ==
    ASSUME Breaker!BreakerAssumption, Breaker!Init
    PROVE  BreakerInv
<1> USE DEF Breaker!Init
<1>1. Breaker!Call("new") \in Check /\ Breaker!Call("new").pc = "new"
  BY DEF Breaker!Call, Check, Config, Breaker!Defaults, Breaker!Values, Breaker!CallState
<1>2. check \in [LlmCalls -> Check] /\ \A c \in LlmCalls: check[c].pc = "new"
  BY <1>1
<1>3. patch \in [Patches -> [pc: {"new", "hset", "expire", "done"}, key: Breaker!Keys, val: Breaker!Values]]
      /\ \A h \in Patches: patch[h].pc = "new"
  BY DEF Breaker!Keys, Breaker!Values
<1>4. /\ config \in Config /\ copy \in [Breaker!Keys -> Breaker!Values \cup {Breaker!Absent}] /\ ~Copied
      /\ \A k \in Breaker!Keys: copy[k] # "true"
  BY DEF Config, Copied, Breaker!Absent
<1>5. /\ still \in [Breaker!Keys -> 0..Breaker!MaxAge] /\ on \in [Breaker!Keys -> 0..Breaker!MaxAge]
      /\ \A k \in Breaker!Keys: config[k] = "true" => on[k] = 0
  BY BreakerConstants
<1>6. /\ hourly = [val |-> 0, ttl |-> 0] /\ age \in [LlmCalls -> {Breaker!Unbooked} \cup 0..Hour]
      /\ over = 0 /\ under = Breaker!MaxAge /\ ttl = 0 /\ redisUp = TRUE
  BY DEF Breaker!NoSum
<1>7. BreakerTypes
  BY <1>2, <1>3, <1>4, <1>5, <1>6, BreakerConstants DEF BreakerTypes
<1>8. Breaker!HourSum = 0
  <2>1. {c \in LlmCalls: age[c] \in 0..(Hour - 1)} = {}
    BY BreakerConstants DEF Breaker!Unbooked
  <2> QED
    BY <2>1, FS_EmptySet DEF Breaker!HourSum, Breaker!Cardinality, Cardinality
<1>9. SumIsYoung
  BY <1>6, <1>8, BreakerConstants DEF SumIsYoung
<1> QED
  BY <1>2, <1>3, <1>4, <1>5, <1>7, <1>9
  DEF BreakerInv, CopyIsYoung, OnIsRecent, CheckKnows, HasRows, WroteRows, HasConfig, HasSum, WasEnabled, Patching

LEMMA BreakerInductive ==
    ASSUME Breaker!BreakerAssumption, BreakerInv, [Breaker!Next]_(Breaker!vars)
    PROVE  BreakerInv'
<1>1. CASE UNCHANGED Breaker!vars
  <2>1. UNCHANGED <<Breaker!configVars, check, patch, redisUp, hourly, age, over, under>>
        /\ UNCHANGED <<config, copy, ttl, still, on>>
    BY <1>1 DEF Breaker!vars, Breaker!configVars
  <2>2. CopyIsYoung' /\ OnIsRecent' /\ OnIsNow' = OnIsNow /\ Copied' = Copied /\ Breaker!Merged' = Breaker!Merged
    BY <2>1, ConfigStays
  <2>3. SumIsYoung' /\ BreakerTypes'
    BY <2>1, SumStays DEF BreakerInv, BreakerTypes
  <2>4. ASSUME NEW c \in LlmCalls
        PROVE  CheckKnows(c)'
    <3>1. check[c].pc = "expire" => redisUp /\ Copied /\ OnIsNow
      BY DEF BreakerInv, CheckKnows, WroteRows
    <3> QED
      BY <2>1, <2>2, <3>1, StillKnows
  <2>5. \A h \in Patches: Patching(h)'
    BY <2>1, <2>2 DEF BreakerInv, Patching
  <2> QED
    BY <2>2, <2>3, <2>4, <2>5 DEF BreakerInv
<1>2. ASSUME NEW c \in LlmCalls,
             \/ Breaker!Stream(c) \/ Breaker!ReadCache(c) \/ Breaker!ReadRows(c) \/ Breaker!RowsFail(c)
             \/ Breaker!ReadHour(c) \/ Breaker!SumHour(c) \/ Breaker!SumFails(c)
      PROVE  BreakerInv'
  <2>1. /\ UNCHANGED <<Breaker!configVars, Breaker!spendVars, patch, redisUp>>
        /\ OneCheck(c) /\ CheckKnows(c)' /\ check[c].pc # "expire"
    BY <1>2, ReadStep
  <2>2. UNCHANGED <<hourly, age, over, under>> /\ SumIsYoung'
    BY <2>1, SumStays DEF Breaker!spendVars
  <2>3. /\ under \in 0..Breaker!MaxAge /\ age \in [LlmCalls -> {Breaker!Unbooked} \cup 0..Hour]
        /\ hourly \in [val: Nat, ttl: 0..CostTtl]
    BY DEF BreakerInv, BreakerTypes
  <2> QED
    BY <2>1, <2>2, <2>3, CheckGoesOn
<1> QED
  BY <1>1, <1>2, RefillStep, ExpireStep, StoreStep, FinishStep, EditStep, PatchHashStep, PatchExpireStep,
     ToggleStep, BreakerTick
  DEF Breaker!Next, Breaker!CallStep, Breaker!PatchStep

\* The ledger: nobody is booked or charged more than there are calls that ended, and no sum
\* is more than there are calls.
Ended == {c \in LlmCalls: check[c].pc = "done"}
LedgerAddsUp ==
    /\ booked = [u \in Users |-> 0] /\ spent \in [Users -> Nat]
    /\ \A u \in Users: spent[u] <= Cardinality(Ended)
    /\ since \in [Users -> 0..Breaker!MaxAge]
    /\ hourly.val <= Cardinality(LlmCalls)
    /\ \A c \in LlmCalls: check[c].sum <= Cardinality(LlmCalls)

LEMMA CallsAreFinite ==
    ASSUME Breaker!BreakerAssumption
    PROVE  /\ IsFiniteSet(LlmCalls) /\ Cardinality(LlmCalls) \in Nat
           /\ IsFiniteSet(Ended) /\ Cardinality(Ended) \in Nat /\ Cardinality(Ended) <= Cardinality(LlmCalls)
           /\ Breaker!HourSum \in Nat /\ Breaker!HourSum <= Cardinality(LlmCalls)
           /\ \A c \in LlmCalls: UserOf[c] \in Users /\ Breaker!UserId(c) \notin Users
<1>1. IsFiniteSet(LlmCalls)
  BY DEF Breaker!BreakerAssumption, Breaker!IsFiniteSet, IsFiniteSet
<1>2. Ended \subseteq LlmCalls /\ {c \in LlmCalls: age[c] \in 0..(Hour - 1)} \subseteq LlmCalls
  BY DEF Ended
<1>3. Breaker!HourSum = Cardinality({c \in LlmCalls: age[c] \in 0..(Hour - 1)})
  BY DEF Breaker!HourSum, Breaker!Cardinality, Cardinality
<1>4. /\ Cardinality(LlmCalls) \in Nat
      /\ \A S \in SUBSET LlmCalls:
            IsFiniteSet(S) /\ Cardinality(S) \in Nat /\ Cardinality(S) <= Cardinality(LlmCalls)
  BY <1>1, FS_Subset, FS_CardinalityType
<1> QED
  BY <1>1, <1>2, <1>3, <1>4 DEF Breaker!BreakerAssumption, Breaker!UserId

\* A step of one check that ends no call and charges nobody.
LEMMA NobodyCharged ==
    ASSUME Breaker!BreakerAssumption, LedgerAddsUp, NEW c \in LlmCalls, OneCheck(c), check[c].pc # "done",
           UNCHANGED <<booked, spent, since>>,
           check'[c].sum <= Cardinality(LlmCalls), hourly'.val <= Cardinality(LlmCalls)
    PROVE  LedgerAddsUp'
<1>1. Ended \subseteq Ended' /\ Ended' \subseteq LlmCalls
  BY DEF Ended, OneCheck
<1>2. Cardinality(Ended) <= Cardinality(Ended') /\ Cardinality(Ended') \in Nat /\ Cardinality(Ended) \in Nat
  BY <1>1, CallsAreFinite, FS_Subset, FS_CardinalityType
<1>3. \A u \in Users: spent'[u] <= Cardinality(Ended')
  BY <1>2 DEF LedgerAddsUp
<1>4. \A d \in LlmCalls: check'[d].sum <= Cardinality(LlmCalls)
  BY DEF LedgerAddsUp, OneCheck
<1> QED
  BY <1>3, <1>4 DEF LedgerAddsUp, Breaker!MaxAge

\* The end of a call charges its user one unit.
LEMMA OneCharged ==
    ASSUME Breaker!BreakerAssumption, BreakerInv, LedgerAddsUp, NEW c \in LlmCalls,
           Breaker!Finish(c) \/ Breaker!FinishUnbooked(c)
    PROVE  LedgerAddsUp'
<1>1. /\ check[c].pc = "go" /\ Breaker!Goto(c, "done") /\ spent' = [spent EXCEPT ![UserOf[c]] = @ + 1]
      /\ booked' = booked /\ UNCHANGED <<hourly, since>>
  BY CallsAreFinite DEF Breaker!Finish, Breaker!FinishUnbooked, Breaker!At
<1>2. OneCheck(c) /\ check'[c].pc = "done" /\ check'[c].sum = check[c].sum
  BY <1>1, CheckGoesTo, CallNames DEF BreakerInv
<1>3. Ended' = Ended \cup {c} /\ c \notin Ended
  BY <1>1, <1>2 DEF Ended, OneCheck
<1>4. Cardinality(Ended') = Cardinality(Ended) + 1
  BY <1>3, CallsAreFinite, FS_AddElement
<1>5. spent' \in [Users -> Nat] /\ \A u \in Users: spent'[u] <= spent[u] + 1 /\ spent[u] \in Nat
  BY <1>1, CallsAreFinite DEF LedgerAddsUp
<1>6. \A u \in Users: spent'[u] <= Cardinality(Ended')
  BY <1>4, <1>5, CallsAreFinite DEF LedgerAddsUp
<1>7. \A d \in LlmCalls: check'[d].sum <= Cardinality(LlmCalls)
  BY <1>2 DEF LedgerAddsUp, OneCheck
<1> QED
  BY <1>1, <1>5, <1>6, <1>7 DEF LedgerAddsUp, Breaker!MaxAge

LEMMA LedgerStep ==
    ASSUME Breaker!BreakerAssumption, BreakerInv, LedgerAddsUp, [Breaker!Next]_(Breaker!vars)
    PROVE  LedgerAddsUp'
<1>0. /\ hourly.val <= Cardinality(LlmCalls) /\ 0 <= Cardinality(LlmCalls)
      /\ \A c \in LlmCalls: check[c].sum <= Cardinality(LlmCalls) /\ check[c] \in Check
  BY CallsAreFinite DEF LedgerAddsUp, BreakerInv, BreakerTypes
<1>1. ASSUME UNCHANGED <<check, booked, spent>>, hourly'.val <= Cardinality(LlmCalls),
             since' \in [Users -> 0..Breaker!MaxAge]
      PROVE  LedgerAddsUp'
  BY <1>1 DEF LedgerAddsUp, Ended, Breaker!MaxAge
<1>2. ASSUME NEW c \in LlmCalls, NEW verdict \in {"go", "blocked"}, Breaker!Decide(c, verdict), check[c].pc # "done",
             UNCHANGED <<booked, spent, since>>, hourly'.val <= Cardinality(LlmCalls)
      PROVE  LedgerAddsUp'
  <2>1. OneCheck(c)
    BY <1>2, DecideIs DEF BreakerInv
  <2>2. check'[c].sum = 0
    BY <1>2 DEF Breaker!Decide, Breaker!Call, BreakerInv, BreakerTypes
  <2> QED
    BY <1>0, <1>2, <2>1, <2>2, NobodyCharged
<1>3. ASSUME NEW c \in LlmCalls, NEW step \in Breaker!CallState, Breaker!Goto(c, step), check[c].pc # "done",
             UNCHANGED <<booked, spent, since, hourly>>
      PROVE  LedgerAddsUp'
  <2>1. OneCheck(c) /\ check'[c].sum = check[c].sum
    BY <1>3, CheckGoesTo DEF BreakerInv
  <2> QED
    BY <1>0, <1>3, <2>1, NobodyCharged
<1>4. \A c \in LlmCalls: \A sum: Breaker!Verdict(c, sum) \in {"go", "blocked"} /\ Breaker!Outcome(c, TRUE) \in {"go", "blocked"}
  BY DEF Breaker!Verdict, Breaker!Outcome
<1>5. ASSUME NEW c \in LlmCalls, Breaker!CallStep(c)
      PROVE  LedgerAddsUp'
  <2>1. CASE Breaker!Stream(c) \/ Breaker!RowsFail(c) \/ Breaker!SumFails(c)
    <3>1. Breaker!Decide(c, "go") /\ check[c].pc # "done" /\ UNCHANGED <<booked, spent, since, hourly>>
      BY <2>1 DEF Breaker!Stream, Breaker!RowsFail, Breaker!SumFails, Breaker!Turn, Breaker!At, Breaker!spendVars
    <3> QED
      BY <1>0, <1>2, <3>1
  <2>2. CASE Breaker!ReadCache(c)
    <3>1. check[c].pc = "new" /\ UNCHANGED <<booked, spent, since, hourly>>
      BY <2>2 DEF Breaker!ReadCache, Breaker!Turn, Breaker!At, Breaker!spendVars
    <3>2. /\ OneCheck(c)
          /\ check' = [check EXCEPT ![c].pc = "hour", ![c].cfg = Breaker!Merged] \/ Breaker!Goto(c, "rows")
      BY <2>2, ReadStep DEF Breaker!ReadCache
    <3>3. check'[c].sum = check[c].sum
      BY <1>0, <3>2 DEF Breaker!Goto, BreakerInv, BreakerTypes, Check
    <3> QED
      BY <1>0, <3>1, <3>2, <3>3, NobodyCharged
  <2>3. CASE Breaker!ReadRows(c)
    <3>1. /\ check[c].pc = "rows" /\ UNCHANGED <<booked, spent, since, hourly>>
          /\ check' = [check EXCEPT ![c].pc = "hset", ![c].cfg = config]
      BY <2>3 DEF Breaker!ReadRows, Breaker!At, Breaker!spendVars
    <3>2. OneCheck(c)
      BY <2>3, ReadStep
    <3>3. check'[c].sum = check[c].sum
      BY <1>0, <3>1 DEF BreakerInv, BreakerTypes, Check
    <3> QED
      BY <1>0, <3>1, <3>2, <3>3, NobodyCharged
  <2>4. CASE Breaker!Refill(c) \/ Breaker!Expire(c)
    <3>1. /\ check[c].pc # "done" /\ UNCHANGED <<booked, spent, since, hourly>>
          /\ Breaker!Goto(c, "expire") \/ Breaker!Goto(c, "hour")
      BY <2>4 DEF Breaker!Refill, Breaker!Expire, Breaker!At, Breaker!spendVars
    <3> QED
      BY <1>3, <3>1, CallNames
  <2>5. CASE Breaker!ReadHour(c)
    <3>1. check[c].pc # "done" /\ UNCHANGED <<booked, spent, since, hourly>>
      BY <2>5 DEF Breaker!ReadHour, Breaker!At, Breaker!spendVars
    <3>2. Breaker!Goto(c, "sum") \/ \E verdict \in {"go", "blocked"}: Breaker!Decide(c, verdict)
      BY <1>4, <2>5 DEF Breaker!ReadHour
    <3> QED
      BY <1>0, <1>2, <1>3, <3>1, <3>2, CallNames
  <2>6. CASE Breaker!SumHour(c)
    <3>1. /\ check[c].pc = "sum" /\ UNCHANGED <<booked, spent, since, hourly>>
          /\ check' = [check EXCEPT ![c].pc = "store", ![c].sum = Breaker!HourSum]
      BY <2>6 DEF Breaker!SumHour, Breaker!At, Breaker!spendVars
    <3>2. OneCheck(c)
      BY <2>6, ReadStep
    <3>3. check'[c].sum = Breaker!HourSum
      BY <1>0, <3>1 DEF BreakerInv, BreakerTypes, Check
    <3> QED
      BY <1>0, <3>1, <3>2, <3>3, CallsAreFinite, NobodyCharged
  <2>7. CASE Breaker!Store(c)
    <3>1. /\ check[c].pc = "store" /\ UNCHANGED <<booked, spent, since>>
          /\ hourly' = [val |-> check[c].sum, ttl |-> CostTtl] \/ hourly' = hourly
          /\ Breaker!Decide(c, Breaker!Verdict(c, check[c].sum))
      BY <2>7 DEF Breaker!Store, Breaker!At
    <3>2. hourly'.val <= Cardinality(LlmCalls)
      BY <1>0, <3>1
    <3>3. PICK verdict \in {"go", "blocked"}: verdict = Breaker!Verdict(c, check[c].sum)
      BY <1>4
    <3> QED
      BY <1>2, <3>1, <3>2, <3>3
  <2> QED
    BY <1>5, <2>1, <2>2, <2>3, <2>4, <2>5, <2>6, <2>7, OneCharged DEF Breaker!CallStep
<1>6. ASSUME NEW h \in Patches, Breaker!PatchStep(h)
      PROVE  LedgerAddsUp'
  <2>1. UNCHANGED <<check, booked, spent, since, hourly>>
    BY <1>6 DEF Breaker!PatchStep, Breaker!PatchHash, Breaker!PatchExpire, Breaker!PatchTable, Breaker!SqlEdit,
       Breaker!spendVars
  <2> QED
    BY <1>0, <1>1, <2>1 DEF LedgerAddsUp
<1>7. CASE Breaker!RedisToggle \/ UNCHANGED Breaker!vars
  <2>1. UNCHANGED <<check, booked, spent, since, hourly>>
    BY <1>7 DEF Breaker!RedisToggle, Breaker!spendVars, Breaker!vars
  <2> QED
    BY <1>0, <1>1, <2>1 DEF LedgerAddsUp
<1>8. CASE Breaker!Tick
  <2>1. /\ UNCHANGED <<check, booked, spent>>
        /\ hourly' = IF hourly.ttl <= 1 THEN Breaker!NoSum ELSE [hourly EXCEPT !.ttl = @ - 1]
        /\ since' = [u \in Users |-> IF spent[u] >= UserCap THEN Breaker!Aged(since[u]) ELSE 0]
    BY <1>8 DEF Breaker!Tick
  <2>2. hourly'.val <= Cardinality(LlmCalls)
    BY <1>0, <2>1 DEF Breaker!NoSum, BreakerInv, BreakerTypes
  <2>3. since' \in [Users -> 0..Breaker!MaxAge]
    <3>1. \A n \in 0..Breaker!MaxAge: Breaker!Aged(n) \in 0..Breaker!MaxAge
      BY BreakerConstants DEF Breaker!Aged
    <3>2. 0 \in 0..Breaker!MaxAge
      BY BreakerConstants
    <3> QED
      BY <2>1, <3>1, <3>2 DEF LedgerAddsUp
  <2> QED
    BY <1>1, <2>1, <2>2, <2>3
<1> QED
  BY <1>5, <1>6, <1>7, <1>8 DEF Breaker!Next

\* Every variable of CostBreaker keeps its type.
LEMMA BreakerTypeCorrect ==
    ASSUME Breaker!BreakerAssumption
    PROVE  Breaker!Spec => []Breaker!TypeOK
<1>1. Breaker!Init => BreakerInv /\ LedgerAddsUp
  <2> SUFFICES ASSUME Breaker!Init
               PROVE  LedgerAddsUp
    BY BreakerInit
  <2>1. /\ booked = [u \in Users |-> 0] /\ spent = [u \in Users |-> 0] /\ since = [u \in Users |-> 0]
        /\ hourly.val = 0 /\ \A c \in LlmCalls: check[c].sum = 0
    BY DEF Breaker!Init, Breaker!NoSum, Breaker!Call
  <2>2. 0 \in 0..Breaker!MaxAge
    BY BreakerConstants
  <2>3. spent \in [Users -> Nat] /\ since \in [Users -> 0..Breaker!MaxAge]
    BY <2>1, <2>2
  <2> QED
    BY <2>1, <2>3, CallsAreFinite DEF LedgerAddsUp
<1>2. BreakerInv /\ LedgerAddsUp /\ [Breaker!Next]_(Breaker!vars) => BreakerInv' /\ LedgerAddsUp'
  BY BreakerInductive, LedgerStep
<1>3. BreakerInv /\ LedgerAddsUp => Breaker!TypeOK
  <2> SUFFICES ASSUME BreakerInv, LedgerAddsUp
               PROVE  Breaker!TypeOK
    OBVIOUS
  <2> DEFINE N == Cardinality(LlmCalls)
  <2>0. N \in Nat /\ Breaker!Cardinality(LlmCalls) = N
    BY CallsAreFinite DEF Breaker!Cardinality, Cardinality
  <2>1. hourly \in [val: 0..N, ttl: 0..CostTtl]
    BY <2>0 DEF BreakerInv, BreakerTypes, LedgerAddsUp
  <2>2. booked \in [Users -> 0..N]
    BY <2>0 DEF LedgerAddsUp
  <2>3. spent \in [Users -> 0..N]
    <3>1. \A u \in Users: spent[u] \in 0..N
      BY <2>0, CallsAreFinite DEF LedgerAddsUp
    <3> QED
      BY <3>1 DEF LedgerAddsUp
  <2>4. check \in [LlmCalls -> [pc: Breaker!CallState, cfg: [Breaker!Keys -> Breaker!Values], sum: 0..N]]
    <3>1. \A c \in LlmCalls: check[c] \in [pc: Breaker!CallState, cfg: [Breaker!Keys -> Breaker!Values], sum: 0..N]
      BY <2>0 DEF LedgerAddsUp, BreakerInv, BreakerTypes, Check, Config
    <3> QED
      BY <3>1 DEF BreakerInv, BreakerTypes
  <2> HIDE DEF N
  <2> QED
    BY <2>0, <2>1, <2>2, <2>3, <2>4 DEF Breaker!TypeOK, BreakerInv, BreakerTypes, LedgerAddsUp, Config
<1> QED
  BY <1>1, <1>2, <1>3, PTL DEF Breaker!Spec

\* cost_breaker.py:19: when nobody has edited for the life of the hash every process acts on
\* the table, whatever readers and editors wrote to the hash meanwhile.
LEMMA ConfigComesRight ==
    ASSUME Breaker!BreakerAssumption
    PROVE  Breaker!Spec => []Breaker!ConfigSettles
<1>1. Breaker!Init => BreakerInv
  BY BreakerInit
<1>2. BreakerInv /\ [Breaker!Next]_(Breaker!vars) => BreakerInv'
  BY BreakerInductive
<1>3. BreakerInv => Breaker!ConfigSettles
  <2> SUFFICES ASSUME BreakerInv, \A k \in Breaker!Keys: still[k] >= ConfigTtl, Breaker!Cached
               PROVE  Breaker!Merged = config
    BY DEF Breaker!ConfigSettles, Breaker!Effective
  <2>1. Copied
    BY DEF Breaker!Cached, Copied
  <2>2. ASSUME NEW k \in Breaker!Keys
        PROVE  ~Within(still[k])
    BY CopyTypes, BreakerConstants DEF Within, Breaker!Persistent
  <2> QED
    BY <2>1, <2>2 DEF BreakerInv, CopyIsYoung
<1> QED
  BY <1>1, <1>2, <1>3, PTL DEF Breaker!Spec

\* What a check knows when it decides.
LEMMA DecidesBySpend ==
    ASSUME Breaker!BreakerAssumption, BreakerInv, [Breaker!Next]_(Breaker!vars), NEW c \in LlmCalls, Breaker!Decided(c)
    PROVE  /\ check'[c].pc = "go" /\ Breaker!Enabled(c) /\ Breaker!Enforcing(c) => over < CostTtl
           /\ check'[c].pc = "blocked"
               => /\ under < CostTtl
                  /\ \A k \in Breaker!Keys:
                       on[k] < ConfigTtl \/ \E j \in Breaker!Keys \ {k}: still[j] < ConfigTtl
<1>0. /\ check[c].pc \in {"hour", "store"} /\ check'[c].pc \in {"go", "blocked"}
      /\ CheckKnows(c) /\ check[c] \in Check
      /\ over \in 0..Breaker!MaxAge /\ under \in 0..Breaker!MaxAge /\ hourly \in [val: Nat, ttl: 0..CostTtl]
  BY DEF Breaker!Decided, BreakerInv, BreakerTypes
<1>1. Breaker!ReadHour(c) \/ Breaker!Store(c)
  <2>1. check' # check
    BY <1>0
  <2>2. PICK d \in LlmCalls: Breaker!CallStep(d)
    BY <2>1 DEF Breaker!Next, Breaker!vars, Breaker!PatchStep, Breaker!PatchHash, Breaker!PatchExpire,
                Breaker!PatchTable, Breaker!SqlEdit, Breaker!RedisToggle, Breaker!Tick
  <2>3. d = c
    <3>1. ASSUME d # c
          PROVE  check'[c] = check[c]
      BY <2>2, <3>1 DEF Breaker!CallStep, Breaker!Stream, Breaker!ReadCache, Breaker!ReadRows, Breaker!RowsFail,
         Breaker!Refill, Breaker!Expire, Breaker!ReadHour, Breaker!SumHour, Breaker!SumFails, Breaker!Store,
         Breaker!Finish, Breaker!FinishUnbooked, Breaker!Goto, Breaker!Decide, BreakerInv, BreakerTypes
    <3> QED
      BY <1>0, <3>1
  <2> QED
    BY <1>0, <2>2, <2>3 DEF Breaker!CallStep, Breaker!Stream, Breaker!ReadCache, Breaker!ReadRows, Breaker!RowsFail,
         Breaker!Refill, Breaker!Expire, Breaker!SumHour, Breaker!SumFails, Breaker!Turn,
         Breaker!Finish, Breaker!FinishUnbooked, Breaker!At
<1>2. Breaker!Enabled(c) /\ Breaker!Enforcing(c) => \A k \in Breaker!Keys: check[c].cfg[k] = "true"
  BY DEF Breaker!Enabled, Breaker!Enforcing, Breaker!Keys
<1>3. Breaker!Enabled(c) /\ Breaker!Enforcing(c) => \A k \in Breaker!Keys: SeenOn(k)
  BY <1>0, <1>2 DEF CheckKnows, HasConfig
<1>4. ASSUME NEW sum \in Nat, Breaker!Decide(c, Breaker!Verdict(c, sum)), Breaker!Enabled(c),
             sum < HourCap => over < CostTtl, sum >= HourCap => under < CostTtl
      PROVE  /\ check'[c].pc = "go" /\ Breaker!Enabled(c) /\ Breaker!Enforcing(c) => over < CostTtl
             /\ check'[c].pc = "blocked" => under < CostTtl /\ \A k \in Breaker!Keys: SeenOn(k)
  <2>1. Breaker!Verdict(c, sum) = IF sum >= HourCap /\ Breaker!Enforcing(c) THEN "blocked" ELSE "go"
    BY DEF Breaker!Verdict, Breaker!Outcome
  <2>2. check'[c].pc = Breaker!Verdict(c, sum)
    BY <1>4, <2>1, DecideIs DEF BreakerInv
  <2> QED
    BY <1>3, <1>4, <2>1, <2>2, BreakerConstants
<1>5. CASE Breaker!ReadHour(c)
  <2>1. ~Breaker!UserOver(c)
    BY BreakerConstants
  <2>2. CASE ~Breaker!Enabled(c)
    <3>1. Breaker!Decide(c, "go")
      BY <1>5, <2>2 DEF Breaker!ReadHour
    <3>2. check'[c].pc = "go"
      BY <3>1, DecideIs DEF BreakerInv
    <3> QED
      BY <2>2, <3>2
  <2>3. CASE Breaker!Enabled(c) /\ ~Breaker!SumCached
    <3>1. Breaker!Goto(c, "sum")
      BY <1>5, <2>1, <2>3 DEF Breaker!ReadHour
    <3>2. check'[c].pc = "sum"
      BY <3>1, CheckGoesTo, CallNames DEF BreakerInv
    <3> QED
      BY <1>0, <3>2
  <2>4. CASE Breaker!Enabled(c) /\ Breaker!SumCached
    <3>1. Breaker!Decide(c, Breaker!Verdict(c, hourly.val))
      BY <1>5, <2>1, <2>4 DEF Breaker!ReadHour
    <3>2. hourly.ttl > 0 /\ hourly.ttl \in Nat /\ hourly.val \in Nat /\ over \in Nat /\ under \in Nat
      BY <1>0, <2>4, BreakerConstants DEF Breaker!SumCached
    <3>3. /\ hourly.val < HourCap => over < CostTtl
          /\ hourly.val >= HourCap => under < CostTtl
      BY <3>2, BreakerConstants DEF BreakerInv, SumIsYoung
    <3> QED
      BY <1>4, <2>4, <3>1, <3>2, <3>3 DEF SeenOn
  <2> QED
    BY <2>2, <2>3, <2>4
<1>6. CASE Breaker!Store(c)
  <2>1. Breaker!Decide(c, Breaker!Verdict(c, check[c].sum)) /\ check[c].pc = "store" /\ check[c].sum \in Nat
    BY <1>0, <1>6 DEF Breaker!Store, Breaker!At, Check
  <2>2. IF check[c].sum >= HourCap THEN under = 0 ELSE over = 0
    BY <1>0, <2>1 DEF CheckKnows, HasSum
  <2>3. /\ check[c].sum < HourCap => over < CostTtl
        /\ check[c].sum >= HourCap => under < CostTtl
    BY <2>1, <2>2, BreakerConstants
  <2>4. Breaker!Enabled(c)
    BY <1>0, <2>1 DEF CheckKnows, WasEnabled
  <2> QED
    BY <1>4, <2>1, <2>3, <2>4 DEF SeenOn
<1> QED
  BY <1>1, <1>5, <1>6

\* cost_breaker.py: a call is let through or blocked as the hour and the operator would have
\* it, within the lives of the two caches, for any number of calls, edits and outages.
THEOREM VerdictsFollowSpend ==
    ASSUME Breaker!BreakerAssumption
    PROVE  Breaker!Spec => VerdictMatchesSpend
<1>1. Breaker!Init => BreakerInv
  BY BreakerInit
<1>2. BreakerInv /\ [Breaker!Next]_(Breaker!vars) => BreakerInv'
  BY BreakerInductive
<1>3. BreakerInv /\ [Breaker!Next]_(Breaker!vars) =>
        \A c \in LlmCalls: Breaker!Decided(c) =>
            /\ check'[c].pc = "go" /\ Breaker!Enabled(c) /\ Breaker!Enforcing(c) => over < CostTtl
            /\ check'[c].pc = "blocked"
                => /\ under < CostTtl
                   /\ \A k \in Breaker!Keys:
                        on[k] < ConfigTtl \/ \E j \in Breaker!Keys \ {k}: still[j] < ConfigTtl
  BY DecidesBySpend
<1> QED
  BY <1>1, <1>2, <1>3, PTL DEF Breaker!Spec, Breaker!VerdictMatchesSpend, VerdictMatchesSpend

\* rate_limiter.py: however the requests of several processes, the start of others and the
\* edits of admins interleave and Redis comes and goes, no minute and no hour lets more
\* through than the highest limit one of them read, and limits written one after the other
\* are in force.  cost_breaker.py: when nobody has edited for the life of the cached hash
\* every process acts on the table.
THEOREM LimitsAreKept ==
    ASSUME Limiter!LimiterAssumption, Breaker!BreakerAssumption
    PROVE  Limiter!Spec /\ Breaker!Spec => []LimitsHold
BY LimiterHolds, ConfigComesRight, PTL DEF LimitsHold

-----------------------------------------------------------------------------
(* The composition.                                                        *)

\* A behaviour that TLC explores is a behaviour of every part: the one that runs takes its
\* own steps and the others rest.  So what is proved of a part, here and in CreatorProofs,
\* holds of EditSpec.
THEOREM EditsRunTheirParts ==
    EditSpec =>
        /\ Editing!Spec /\ Limiter!Spec /\ Creation!Spec /\ Registry!Spec
        /\ Sorting!Spec /\ Popular!Spec /\ Mailing!Spec /\ Spending!Spec
        /\ Prompts!Spec /\ Breaker!Spec
<1> DEFINE A == Editing!Next
           B == Limiter!Next
           C == Creation!Next
           D == Registry!Next
           E == Sorting!Next
           F == Popular!Next
           G == Mailing!Next
           H == Spending!Next
           I == Prompts!Next
           J == Breaker!Next
<1>1. EditInit =>
        /\ Editing!Init /\ Limiter!Init /\ Creation!Init /\ Registry!Init
        /\ Sorting!Init /\ Popular!Init /\ Mailing!Init /\ Spending!Init
        /\ Prompts!Init /\ Breaker!Init
  BY DEF EditInit
<1>2. ASSUME [EditNext]_editVars
      PROVE  /\ [A]_(Editing!vars) /\ [B]_(Limiter!vars) /\ [C]_(Creation!wizardVars)
             /\ [D]_(Registry!catalogueVars) /\ [E]_(Sorting!labelVars) /\ [F]_(Popular!trendingVars)
             /\ [G]_(Mailing!digestVars) /\ [H]_(Spending!alertVars)
             /\ [I]_(Prompts!ideaVars) /\ [J]_(Breaker!vars)
  <2> HIDE DEF A, B, C, D, E, F, G, H, I, J
  <2>1. CASE InSoul
    BY <2>1 DEF
       InSoul, A, limiterVars, wizardVars, catalogueVars, labelVars, trendingVars, digestVars, alertVars,
       ideaVars, breakerVars, Limiter!vars, Creation!wizardVars, Registry!catalogueVars, Sorting!labelVars,
       Popular!trendingVars, Mailing!digestVars, Spending!alertVars, Prompts!ideaVars, Breaker!vars
  <2>2. CASE InLimiter
    BY <2>2 DEF
       InLimiter, B, soulVars, wizardVars, catalogueVars, labelVars, trendingVars, digestVars, alertVars,
       ideaVars, breakerVars, Editing!vars, Creation!wizardVars, Registry!catalogueVars, Sorting!labelVars,
       Popular!trendingVars, Mailing!digestVars, Spending!alertVars, Prompts!ideaVars, Breaker!vars
  <2>3. CASE InWizard
    BY <2>3 DEF
       InWizard, C, soulVars, limiterVars, catalogueVars, labelVars, trendingVars, digestVars, alertVars,
       ideaVars, breakerVars, Editing!vars, Limiter!vars, Registry!catalogueVars, Sorting!labelVars,
       Popular!trendingVars, Mailing!digestVars, Spending!alertVars, Prompts!ideaVars, Breaker!vars
  <2>4. CASE InCatalogue
    BY <2>4 DEF
       InCatalogue, D, soulVars, limiterVars, wizardVars, labelVars, trendingVars, digestVars, alertVars,
       ideaVars, breakerVars, Editing!vars, Limiter!vars, Creation!wizardVars, Sorting!labelVars,
       Popular!trendingVars, Mailing!digestVars, Spending!alertVars, Prompts!ideaVars, Breaker!vars
  <2>5. CASE InLabels
    BY <2>5 DEF
       InLabels, E, soulVars, limiterVars, wizardVars, catalogueVars, trendingVars, digestVars, alertVars,
       ideaVars, breakerVars, Editing!vars, Limiter!vars, Creation!wizardVars, Registry!catalogueVars,
       Popular!trendingVars, Mailing!digestVars, Spending!alertVars, Prompts!ideaVars, Breaker!vars
  <2>6. CASE InTrending
    BY <2>6 DEF
       InTrending, F, soulVars, limiterVars, wizardVars, catalogueVars, labelVars, digestVars, alertVars,
       ideaVars, breakerVars, Editing!vars, Limiter!vars, Creation!wizardVars, Registry!catalogueVars,
       Sorting!labelVars, Mailing!digestVars, Spending!alertVars, Prompts!ideaVars, Breaker!vars
  <2>7. CASE InDigest
    BY <2>7 DEF
       InDigest, G, soulVars, limiterVars, wizardVars, catalogueVars, labelVars, trendingVars, alertVars,
       ideaVars, breakerVars, Editing!vars, Limiter!vars, Creation!wizardVars, Registry!catalogueVars,
       Sorting!labelVars, Popular!trendingVars, Spending!alertVars, Prompts!ideaVars, Breaker!vars
  <2>8. CASE InAlerts
    BY <2>8 DEF
       InAlerts, H, soulVars, limiterVars, wizardVars, catalogueVars, labelVars, trendingVars, digestVars,
       ideaVars, breakerVars, Editing!vars, Limiter!vars, Creation!wizardVars, Registry!catalogueVars,
       Sorting!labelVars, Popular!trendingVars, Mailing!digestVars, Prompts!ideaVars, Breaker!vars
  <2>9. CASE InIdeas
    BY <2>9 DEF
       InIdeas, I, soulVars, limiterVars, wizardVars, catalogueVars, labelVars, trendingVars, digestVars,
       alertVars, breakerVars, Editing!vars, Limiter!vars, Creation!wizardVars, Registry!catalogueVars,
       Sorting!labelVars, Popular!trendingVars, Mailing!digestVars, Spending!alertVars, Breaker!vars
  <2>10. CASE InBreaker
    BY <2>10 DEF
       InBreaker, J, soulVars, limiterVars, wizardVars, catalogueVars, labelVars, trendingVars, digestVars,
       alertVars, ideaVars, Editing!vars, Limiter!vars, Creation!wizardVars, Registry!catalogueVars,
       Sorting!labelVars, Popular!trendingVars, Mailing!digestVars, Spending!alertVars, Prompts!ideaVars
  <2>11. CASE UNCHANGED editVars
    BY <2>11 DEF
       editVars, soulVars, limiterVars, wizardVars, catalogueVars, labelVars, trendingVars, digestVars,
       alertVars, ideaVars, breakerVars, Editing!vars, Limiter!vars, Creation!wizardVars,
       Registry!catalogueVars, Sorting!labelVars, Popular!trendingVars, Mailing!digestVars,
       Spending!alertVars, Prompts!ideaVars, Breaker!vars
  <2> QED
    BY <1>2, <2>1, <2>2, <2>3, <2>4, <2>5, <2>6, <2>7, <2>8, <2>9, <2>10, <2>11 DEF EditNext
<1> QED
  BY <1>1, <1>2, PTL DEF EditSpec,
     Editing!Spec, Limiter!Spec, Creation!Spec, Registry!Spec, Sorting!Spec, Popular!Spec, Mailing!Spec,
     Spending!Spec, Prompts!Spec, Breaker!Spec

PartIsKnown == part \in AllParts

\* The variables of the part that runs keep their types.  In Digest that the table of mails
\* is trimmed, in CostBreaker that nobody is charged more than there are calls.
THEOREM EditTypeCorrect ==
    ASSUME Parts \subseteq AllParts,
           Editing!SoulFileAssumption, Limiter!LimiterAssumption, Creation!WizardAssumption,
           Registry!CatalogueAssumption, Sorting!LabelsAssumption, Popular!TrendingAssumption,
           Mailing!DigestAssumption, Spending!AlertsAssumption, Prompts!IdeasAssumption, Breaker!BreakerAssumption
    PROVE  EditSpec => []EditTypeOK
<1>1. /\ LimiterInv => Limiter!TypeOK
      /\ WizardInv => Creation!TypeOK
      /\ CatalogueInv => Registry!TypeOK
      /\ LabelsInv => Sorting!TypeOK
      /\ TrendingInv => Popular!TypeOK
      /\ AlertInv => Spending!TypeOK
      /\ IdeasInv => Prompts!TypeOK
  BY DEF LimiterInv, WizardInv, CatalogueInv, LabelsInv, TrendingInv, AlertInv, IdeasInv
<1>2. ASSUME PartIsKnown, Editing!TypeOK, Limiter!TypeOK, Creation!TypeOK, Registry!TypeOK, Sorting!TypeOK,
             Popular!TypeOK, Mailing!TypeOK, Spending!TypeOK, Prompts!TypeOK, Breaker!TypeOK
      PROVE  EditTypeOK
  BY <1>2 DEF EditTypeOK, PartIsKnown, AllParts
<1>3. EditSpec => []PartIsKnown
  <2>1. EditInit => PartIsKnown
    BY DEF EditInit, PartIsKnown
  <2>2. PartIsKnown /\ [EditNext]_editVars => PartIsKnown'
    BY DEF PartIsKnown, AllParts, EditNext, editVars, InSoul, InLimiter, InWizard, InCatalogue, InLabels, InTrending,
       InDigest, InAlerts, InIdeas, InBreaker
  <2> QED
    BY <2>1, <2>2, PTL DEF EditSpec
<1> QED
  BY <1>1, <1>2, <1>3, EditsRunTheirParts, SoulFileTypeCorrect, LimiterInductive, WizardInductive,
     CatalogueInductive, LabelsInductive, TrendingInductive, DigestTypeCorrect, AlertsInductive, IdeasInductive,
     BreakerTypeCorrect, PTL
=============================================================================
