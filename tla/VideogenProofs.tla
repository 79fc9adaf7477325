--------------------------- MODULE VideogenProofs ---------------------------
(***************************************************************************)
(* Proofs about Videogen, for any number of videos and poll loops, any     *)
(* lease, stale window and batch, and any set of faults.                   *)
(***************************************************************************)
EXTENDS Videogen, TLAPS

\* The UPDATE statements keep the shape of a row.
LEMMA RowUpdates ==
    ASSUME NEW r \in Row
    PROVE  /\ Completed(r) \in Row /\ Failed(r) \in Row
           /\ r.status # "pending" => Completed(r) = r /\ Failed(r) = r
           /\ r.status = "pending" =>
                 /\ Completed(r).status = "complete" /\ Failed(r).status = "failed"
                 /\ Completed(r).token = FALSE /\ Failed(r).token = FALSE
           /\ Completed(r).claimed = r.claimed /\ Failed(r).claimed = r.claimed
BY DEF Row, Statuses, Completed, Failed

\* Every step of a handler keeps the types.
LEMMA HandlerType ==
    ASSUME TypeOK, NEW v \in Videos, Handler(v)
    PROVE  TypeOK'
<1> USE VideogenAssumption DEF TypeOK, workerVars, handlerVars
<1>1. CASE Reject(v)
  BY <1>1 DEF Reject, Requests
<1>2. CASE CreatePending(v)
  BY <1>2 DEF CreatePending, Requests, Row, Statuses
<1>3. CASE NeverArrived(v)
  BY <1>3 DEF NeverArrived, AnotherAttempt, Requests
<1>4. CASE Refuses(v)
  BY <1>4 DEF Refuses, Requests
<1>5. CASE Upload(v)
  BY <1>5 DEF Upload, Requests
<1>6. CASE Submit(v)
  BY <1>6 DEF Submit, AfterSubmit, Requests, Jobs
<1>7. CASE Attach(v)
  BY <1>7 DEF Attach, Requests, Row
<1>8. CASE GiveUp(v)
  BY <1>8, RowUpdates DEF GiveUp, Requests
<1>9. CASE HandlerDies(v)
  BY <1>9 DEF HandlerDies, Requests
<1>10. CASE Publish(v)
  BY <1>10 DEF Publish, Posts
<1> QED
  BY <1>1, <1>2, <1>3, <1>4, <1>5, <1>6, <1>7, <1>8, <1>9, <1>10 DEF Handler

\* Every step of a poll loop keeps the types, given that the loop works on a
\* video whenever it is at a step that needs one.
LEMMA WorkerType ==
    ASSUME TypeOK, NEW w \in Workers, WorkerStep(w) \/ Crash(w),
           pc[w] \in FinishSteps \cup {"claim"} => cur[w] \in Videos
    PROVE  TypeOK'
<1> USE VideogenAssumption DEF TypeOK, externals, handlerVars, Goto, WorkerSteps, FinishSteps
<1>1. CASE Sweep(w)
  BY <1>1, RowUpdates DEF Sweep
<1>2. CASE List(w)
  BY <1>2 DEF List
<1>3. CASE EndTick(w)
  BY <1>3 DEF EndTick
<1>4. CASE Poll(w)
  <2>1. PICK v \in todo[w]:
          /\ todo' = [todo EXCEPT ![w] = @ \ {v}]
          /\ row' = row \/ row' = [row EXCEPT ![v] = Failed(@)]
          /\ pc' = pc \/ Goto(w, "claim")
          /\ cur' = cur \/ cur' = [cur EXCEPT ![w] = v]
    BY <1>4 DEF Poll
  <2>2. row' \in [Videos -> Row]
    <3>1. v \in Videos /\ row[v] \in Row
      BY <2>1
    <3>2. Failed(row[v]) \in Row
      BY <3>1, RowUpdates
    <3> QED
      BY <2>1, <3>1, <3>2
  <2>3. todo' \in [Workers -> SUBSET Videos] /\ cur' \in [Workers -> Videos \cup {"none"}]
    BY <2>1
  <2>4. pc' \in [Workers -> WorkerSteps]
    BY <2>1
  <2> QED
    BY <1>4, <2>2, <2>3, <2>4 DEF Poll
<1>5. CASE Claim(w)
  <2> DEFINE claimed == [row EXCEPT ![cur[w]].claimed = now]
  <2>1. cur[w] \in Videos
    BY <1>5 DEF Claim
  <2>2. claimed \in [Videos -> Row]
    BY <2>1 DEF Row
  <2>3. row' = row \/ row' = claimed
    BY <1>5 DEF Claim
  <2>4. pc' \in [Workers -> WorkerSteps] /\ cur' \in [Workers -> Videos \cup {"none"}]
    BY <1>5 DEF Claim
  <2>5. since' \in [Workers -> Nat \cup {Unclaimed}]
    BY <1>5 DEF Claim
  <2> QED
    BY <1>5, <2>2, <2>3, <2>4, <2>5 DEF Claim
<1>6. CASE Fetch(w)
  BY <1>6 DEF Fetch
<1>7. CASE Store(w)
  BY <1>7 DEF Store, Put, Objects
<1>8. CASE AddDraftPost(w)
  BY <1>8 DEF AddDraftPost, Posts
<1>9. ASSUME NEW step \in {"close", "fail"}, NEW new \in Row, NEW next \in {"fail", "next"},
             Conclude(w, step, new, next)
      PROVE  TypeOK'
  <2>1. row' \in [Videos -> Row]
    BY <1>9 DEF Conclude
  <2>2. pc' \in [Workers -> WorkerSteps] /\ cur' \in [Workers -> Videos \cup {"none"}]
    BY <1>9 DEF Conclude
  <2> QED
    BY <1>9, <2>1, <2>2 DEF Conclude
<1>10. CASE CloseRow(w) \/ FailRow(w)
  <2>1. cur[w] \in Videos
    BY <1>10 DEF CloseRow, FailRow, Conclude
  <2>2. row[cur[w]] \in Row
    BY <2>1
  <2>3. Completed(row[cur[w]]) \in Row /\ Failed(row[cur[w]]) \in Row
    BY <2>2, RowUpdates
  <2> QED
    BY <1>9, <1>10, <2>3 DEF CloseRow, FailRow
<1>11. CASE Crash(w)
  BY <1>11 DEF Crash
<1> QED
  BY <1>1, <1>2, <1>3, <1>4, <1>5, <1>6, <1>7, <1>8, <1>9, <1>10, <1>11 DEF WorkerStep

-----------------------------------------------------------------------------
(* What no step ever takes back.                                           *)

Grows ==
    /\ now <= now'
    /\ \A u \in Videos:
          /\ row[u].status # "absent" =>
                row'[u].status # "absent" /\ row[u].claimed <= row'[u].claimed
          /\ post[u] # "none" => post'[u] # "none"
          /\ stored[u] \subseteq stored'[u]

\* The conclusion of the two lemmas below, for a row that a step rewrites.
RowGrows(u) ==
    /\ row[u].status # "absent" =>
          row'[u].status # "absent" /\ row[u].claimed <= row'[u].claimed
    /\ row'[u].claimed <= now

LEMMA RowFacts ==
    ASSUME IndInv, NEW u \in Videos
    PROVE  /\ row[u] \in Row /\ row[u].claimed \in Int /\ now \in Nat
           /\ row[u].claimed <= now
           /\ Failed(row[u]).claimed = row[u].claimed
           /\ Completed(row[u]).claimed = row[u].claimed
           /\ row[u].status = "absent" <=> Failed(row[u]).status = "absent"
           /\ row[u].status = "absent" <=> Completed(row[u]).status = "absent"
<1>1. row[u] \in Row /\ now \in Nat /\ row[u].claimed <= now
  BY DEF IndInv, TypeOK, LeaseInv
<1>2. row[u].claimed \in Int
  BY <1>1 DEF Row, Unclaimed
<1> QED
  BY <1>1, <1>2, RowUpdates

LEMMA HandlerGrows ==
    ASSUME IndInv, NEW v \in Videos, Handler(v)
    PROVE  /\ Grows /\ UNCHANGED <<workerVars, now, stored>>
           /\ \A u \in Videos: row'[u].claimed <= now'
<1>1. UNCHANGED <<workerVars, now, stored>>
  BY DEF Handler, Reject, CreatePending, NeverArrived, Refuses, Upload, Submit, Attach,
         GiveUp, HandlerDies, Publish
<1>2. \A u \in Videos: post[u] # "none" => post'[u] # "none"
  BY DEF Handler, Reject, CreatePending, NeverArrived, Refuses, Upload, Submit, Attach,
         GiveUp, HandlerDies, Publish, IndInv, TypeOK
<1>3. ASSUME NEW u \in Videos PROVE RowGrows(u)
  <2>1. row[u] \in Row /\ row \in [Videos -> Row]
    BY RowFacts DEF IndInv, TypeOK
  <2>2. CASE row' = row
    BY <2>2, RowFacts DEF RowGrows
  <2>3. CASE CreatePending(v)
    BY <2>1, <2>3, RowFacts DEF CreatePending, IndInv, HandlerInv, RowGrows, Unclaimed
  <2>4. CASE Attach(v)
    BY <2>1, <2>4, RowFacts DEF Attach, RowGrows
  <2>5. CASE GiveUp(v)
    BY <2>1, <2>5, RowFacts DEF GiveUp, RowGrows
  <2> QED
    BY <2>2, <2>3, <2>4, <2>5
    DEF Handler, Reject, NeverArrived, Refuses, Upload, Submit, HandlerDies, Publish
<1>4. now \in Nat
  BY DEF IndInv, TypeOK
<1> QED
  BY <1>1, <1>2, <1>3, <1>4 DEF Grows, RowGrows

\* How a step of a poll loop may change the table: not at all, the sweep, or
\* one row through one of the other UPDATE statements.
LEMMA WorkerRows ==
    ASSUME IndInv, NEW w \in Workers, WorkerStep(w) \/ Crash(w)
    PROVE  \/ row' = row
           \/ Sweep(w)
           \/ \E v \in Videos:
                 \/ row' = [row EXCEPT ![v] = Failed(@)]
                 \/ row' = [row EXCEPT ![v] = Completed(@)] /\ CloseRow(w) /\ v = cur[w]
                 \/ row' = [row EXCEPT ![v].claimed = now] /\ Claim(w)
<1> USE DEF IndInv, TypeOK, WorkerInv, WorkerAt, FinishSteps
<1>1. CASE Poll(w)
  BY <1>1 DEF Poll
<1>2. CASE Claim(w)
  BY <1>2 DEF Claim
<1>3. CASE CloseRow(w)
  BY <1>3 DEF CloseRow, Conclude
<1>4. CASE FailRow(w)
  BY <1>4 DEF FailRow, Conclude
<1> QED
  BY <1>1, <1>2, <1>3, <1>4
  DEF WorkerStep, List, EndTick, Fetch, Store, Put, AddDraftPost, Crash

LEMMA WorkerRow ==
    ASSUME IndInv, NEW w \in Workers, WorkerStep(w) \/ Crash(w), NEW u \in Videos
    PROVE  \/ row'[u] = row[u]
           \/ row'[u] = Failed(row[u])
           \/ row'[u] = Completed(row[u]) /\ CloseRow(w) /\ u = cur[w]
           \/ row'[u] = [row[u] EXCEPT !.claimed = now]
<1>1. row \in [Videos -> Row]
  BY DEF IndInv, TypeOK
<1>2. CASE Sweep(w)
  BY <1>2 DEF Sweep
<1>3. CASE ~Sweep(w)
  BY <1>1, <1>3, WorkerRows
<1> QED
  BY <1>2, <1>3

LEMMA WorkerGrows ==
    ASSUME IndInv, NEW w \in Workers, WorkerStep(w) \/ Crash(w)
    PROVE  /\ Grows /\ UNCHANGED <<req, runs, now>>
           /\ \A u \in Videos: row'[u].claimed <= now'
           /\ \A u \in Videos: row[u].status = "absent" <=> row'[u].status = "absent"
<1>1. UNCHANGED <<req, runs, now>>
  BY DEF WorkerStep, Sweep, List, EndTick, Poll, Claim, Fetch, Store, Put, AddDraftPost,
         CloseRow, FailRow, Conclude, Crash, externals, handlerVars
<1>2. \A u \in Videos: (post[u] # "none" => post'[u] # "none") /\ stored[u] \subseteq stored'[u]
  BY DEF WorkerStep, Sweep, List, EndTick, Poll, Claim, Fetch, Store, Put, AddDraftPost,
         CloseRow, FailRow, Conclude, Crash, IndInv, TypeOK
<1>3. ASSUME NEW u \in Videos
      PROVE  RowGrows(u) /\ (row[u].status = "absent" <=> row'[u].status = "absent")
  <2>1. row[u] \in Row /\ row \in [Videos -> Row]
    BY RowFacts DEF IndInv, TypeOK
  <2>2. CASE row' = row
    BY <2>2, RowFacts DEF RowGrows
  <2>3. CASE Sweep(w)
    BY <2>1, <2>3, RowFacts DEF Sweep, RowGrows
  <2>4. ASSUME NEW v \in Videos,
               row' = [row EXCEPT ![v] = Failed(@)] \/ row' = [row EXCEPT ![v] = Completed(@)]
        PROVE  RowGrows(u) /\ (row[u].status = "absent" <=> row'[u].status = "absent")
    BY <2>1, <2>4, RowFacts DEF RowGrows
  <2>5. ASSUME NEW v \in Videos, row' = [row EXCEPT ![v].claimed = now]
        PROVE  RowGrows(u) /\ (row[u].status = "absent" <=> row'[u].status = "absent")
    BY <2>1, <2>5, RowFacts DEF RowGrows, Row
  <2> QED
    BY <2>2, <2>3, <2>4, <2>5, WorkerRows
<1>4. now \in Nat
  BY DEF IndInv, TypeOK
<1> QED
  BY <1>1, <1>2, <1>3, <1>4 DEF Grows, RowGrows

-----------------------------------------------------------------------------
(* The invariant, one step at a time.                                      *)

\* A worker that does not move keeps its part of the invariant.
LEMMA StillWorker ==
    ASSUME IndInv, Grows, NEW w \in Workers,
           pc'[w] = pc[w], cur'[w] = cur[w], todo'[w] = todo[w], since'[w] = since[w],
           TypeOK'
    PROVE  WorkerAt(w)' /\ LeaseAt(w)'
<1>1. WorkerAt(w) /\ LeaseAt(w) /\ todo[w] \subseteq Videos
  BY DEF IndInv, WorkerInv, LeaseInv, TypeOK
<1>2. WorkerAt(w)'
  <2>1. \A v \in Videos: stored'[v] \subseteq Objects
    BY DEF TypeOK
  <2>2. \A v \in Videos: stored[v] = Objects => stored'[v] = Objects
    BY <2>1 DEF Grows
  <2> QED
    BY <1>1, <2>2 DEF WorkerAt, Grows, FinishSteps
<1>3. LeaseAt(w)'
  <2>1. SUFFICES ASSUME pc[w] \in FinishSteps
                 PROVE  since[w] <= row'[cur[w]].claimed
    BY <1>1 DEF LeaseAt
  <2>2. /\ cur[w] \in Videos /\ row[cur[w]].status # "absent"
        /\ since[w] \in Nat /\ since[w] <= row[cur[w]].claimed
    BY <1>1, <2>1 DEF WorkerAt, LeaseAt
  <2>3. row[cur[w]].claimed <= row'[cur[w]].claimed
    BY <2>2 DEF Grows
  <2>4. row[cur[w]].claimed \in Int /\ row'[cur[w]].claimed \in Int
    BY <2>2 DEF IndInv, TypeOK, Row, Unclaimed
  <2> QED
    BY <2>2, <2>3, <2>4
<1> QED
  BY <1>2, <1>3

LEMMA HandlerStep ==
    ASSUME IndInv, NEW v \in Videos, Handler(v)
    PROVE  IndInv'
<1> USE HandlerGrows
<1>1. TypeOK'
  BY HandlerType DEF IndInv
<1>2. \A w \in Workers: WorkerAt(w)' /\ LeaseAt(w)'
  <2> SUFFICES ASSUME NEW w \in Workers PROVE WorkerAt(w)' /\ LeaseAt(w)'
    OBVIOUS
  <2>1. Grows /\ UNCHANGED <<pc, cur, todo, since>>
    BY DEF workerVars
  <2> QED
    BY <1>1, <2>1, StillWorker
<1>3. FinishExclusive'
  BY DEF IndInv, FinishExclusive, Finishing, workerVars
<1>4. HandlerInv'
  <2> USE DEF HandlerInv, IndInv, TypeOK
  <2>1. CASE Reject(v) \/ NeverArrived(v) \/ Refuses(v) \/ Upload(v) \/ HandlerDies(v)
    BY <2>1 DEF Reject, NeverArrived, Refuses, Upload, HandlerDies
  <2>2. CASE CreatePending(v)
    BY <2>2 DEF CreatePending
  <2>3. CASE Submit(v)
    BY <2>3 DEF Submit, AfterSubmit
  <2>4. CASE Attach(v)
    BY <2>4 DEF Attach, Row
  <2>5. CASE GiveUp(v)
    BY <2>5, RowFacts DEF GiveUp
  <2>6. CASE Publish(v)
    BY <2>6 DEF Publish, handlerVars
  <2> QED
    BY <2>1, <2>2, <2>3, <2>4, <2>5, <2>6 DEF Handler
<1>5. PostedMeansStored' /\ CompleteMeansPosted' /\ TokenOnlyInFlight'
  <2> USE DEF IndInv, TypeOK, PostedMeansStored, CompleteMeansPosted, TokenOnlyInFlight, Pending
  <2>1. CASE row' = row /\ post' = post
    BY <2>1
  <2>2. CASE CreatePending(v)
    BY <2>2 DEF CreatePending
  <2>3. CASE Attach(v)
    BY <2>3 DEF Attach, Row
  <2>4. CASE GiveUp(v)
    <3>1. row[v] \in Row /\ (row[v].token <=> row[v].status = "pending")
      OBVIOUS
    <3>2. /\ Failed(row[v]).token <=> Failed(row[v]).status = "pending"
          /\ Failed(row[v]).status = "complete" => row[v].status = "complete"
      BY <3>1, RowUpdates
    <3> QED
      BY <2>4, <3>2 DEF GiveUp
  <2>5. CASE Publish(v)
    BY <2>5 DEF Publish
  <2> QED
    BY <2>1, <2>2, <2>3, <2>4, <2>5
    DEF Handler, Reject, NeverArrived, Refuses, Upload, Submit, HandlerDies
<1> QED
  BY <1>1, <1>2, <1>3, <1>4, <1>5 DEF IndInv, WorkerInv, LeaseInv

\* Apart from the claim itself, a step leaves a worker inside a finish only
\* when it was inside the same finish before.
LEMMA StaysInFinish ==
    ASSUME TypeOK, NEW w \in Workers, WorkerStep(w) \/ Crash(w), ~Claim(w)
    PROVE  /\ since' = since
           /\ pc'[w] \in FinishSteps => pc[w] \in FinishSteps /\ cur'[w] = cur[w]
           /\ pc'[w] = "claim" => Poll(w)
<1> USE DEF TypeOK, Goto, FinishSteps
<1>1. CASE Sweep(w) \/ List(w) \/ EndTick(w) \/ Crash(w)
  BY <1>1 DEF Sweep, List, EndTick, Crash
<1>2. CASE Poll(w)
  BY <1>2 DEF Poll
<1>3. CASE Fetch(w) \/ AddDraftPost(w)
  BY <1>3 DEF Fetch, AddDraftPost
<1>4. CASE Store(w)
  BY <1>4 DEF Store, Put
<1>5. CASE CloseRow(w) \/ FailRow(w)
  BY <1>5 DEF CloseRow, FailRow, Conclude
<1> QED
  BY <1>1, <1>2, <1>3, <1>4, <1>5 DEF WorkerStep

\* The worker that moves re-establishes its part of the invariant.
LEMMA MovedWorker ==
    ASSUME IndInv, TypeOK', NEW w \in Workers, WorkerStep(w) \/ Crash(w)
    PROVE  WorkerAt(w)' /\ LeaseAt(w)'
<1> USE DEF FinishSteps
<1>1. Grows /\ TypeOK /\ WorkerAt(w) /\ LeaseAt(w)
  BY WorkerGrows DEF IndInv, WorkerInv, LeaseInv
<1>2. ASSUME NEW v \in todo'[w]
      PROVE  row'[v].status # "absent"
  <2>1. v \in Videos
    BY DEF TypeOK
  <2>2. CASE List(w)
    BY <1>1, <2>1, <2>2 DEF List, OldestPending, Pending, TypeOK, Grows
  <2>3. CASE ~List(w)
    <3>1. todo' = todo \/ todo' = [todo EXCEPT ![w] = {}] \/ Poll(w)
      BY <2>3 DEF WorkerStep, Sweep, EndTick, Claim, Fetch, Store, Put,
         AddDraftPost, CloseRow, FailRow, Conclude, Crash
    <3>2. Poll(w) => \E u \in todo[w]: todo' = [todo EXCEPT ![w] = @ \ {u}]
      BY DEF Poll
    <3>3. v \in todo[w]
      <4>1. CASE todo' = todo \/ todo' = [todo EXCEPT ![w] = {}]
        BY <1>1, <1>2, <4>1 DEF TypeOK
      <4>2. CASE Poll(w)
        <5>1. PICK u \in todo[w]: todo' = [todo EXCEPT ![w] = @ \ {u}]
          BY <3>2, <4>2
        <5> QED
          BY <1>1, <1>2, <5>1 DEF TypeOK
      <4> QED
        BY <3>1, <4>1, <4>2
    <3> QED
      BY <1>1, <2>1, <3>3 DEF WorkerAt, Grows
  <2> QED
    BY <2>2, <2>3
<1>3. ASSUME pc'[w] \in FinishSteps \cup {"claim"}
      PROVE  cur'[w] \in Videos /\ row'[cur'[w]].status # "absent"
  <2>1. CASE Poll(w) /\ pc'[w] = "claim"
    BY <1>1, <2>1 DEF Poll, TypeOK, WorkerAt, Grows, Goto
  <2>2. CASE Claim(w)
    BY <1>1, <1>3, <2>2 DEF Claim, TypeOK, WorkerAt, Grows, Goto
  <2>3. CASE ~Claim(w) /\ ~(Poll(w) /\ pc'[w] = "claim")
    BY <1>1, <1>3, <2>3, StaysInFinish DEF WorkerAt, Grows
  <2> QED
    BY <2>1, <2>2, <2>3
<1>4. /\ pc'[w] = "video" => "thumb" \in stored'[cur'[w]]
      /\ pc'[w] = "post" => stored'[cur'[w]] = Objects
      /\ pc'[w] = "close" => post'[cur'[w]] # "none"
  <2> USE DEF TypeOK, Goto
  <2>1. CASE Store(w)
    BY <1>1, <2>1 DEF Store, Put, WorkerAt, Objects
  <2>2. CASE AddDraftPost(w)
    BY <1>1, <2>2 DEF AddDraftPost, WorkerAt
  <2>3. CASE Sweep(w) \/ List(w) \/ EndTick(w) \/ Fetch(w) \/ Crash(w)
    BY <1>1, <2>3 DEF Sweep, List, EndTick, Fetch, Crash
  <2>4. CASE Claim(w) \/ CloseRow(w) \/ FailRow(w)
    BY <1>1, <2>4 DEF Claim, CloseRow, FailRow, Conclude
  <2>5. CASE Poll(w)
    BY <1>1, <2>5 DEF Poll
  <2> QED
    BY <2>1, <2>2, <2>3, <2>4, <2>5 DEF WorkerStep
<1>5. LeaseAt(w)'
  <2>1. CASE Claim(w)
    BY <1>1, <2>1 DEF Claim, TypeOK, LeaseAt, Goto, WorkerAt, Row
  <2>2. CASE ~Claim(w)
    <3>1. SUFFICES ASSUME pc'[w] \in FinishSteps
                   PROVE  since'[w] \in Nat /\ since'[w] <= row'[cur'[w]].claimed
      BY DEF LeaseAt
    <3>2. /\ pc[w] \in FinishSteps /\ cur'[w] = cur[w] /\ since' = since
          /\ cur[w] \in Videos /\ row[cur[w]].status # "absent"
      BY <1>1, <2>2, <3>1, StaysInFinish DEF WorkerAt
    <3>3. since[w] \in Nat /\ since[w] <= row[cur[w]].claimed
      BY <1>1, <3>2 DEF LeaseAt
    <3>4. row[cur[w]].claimed <= row'[cur[w]].claimed
      BY <1>1, <3>2 DEF Grows
    <3>5. row[cur[w]].claimed \in Int /\ row'[cur[w]].claimed \in Int
      BY <1>1, <3>2 DEF TypeOK, Row, Unclaimed
    <3> QED
      BY <3>2, <3>3, <3>4, <3>5
  <2> QED
    BY <2>1, <2>2
<1> QED
  BY <1>2, <1>3, <1>4, <1>5 DEF WorkerAt

\* A worker step changes nothing of the other workers.
LEMMA OthersStill ==
    ASSUME TypeOK, NEW w \in Workers, WorkerStep(w) \/ Crash(w), NEW o \in Workers \ {w}
    PROVE  pc'[o] = pc[o] /\ cur'[o] = cur[o] /\ todo'[o] = todo[o] /\ since'[o] = since[o]
BY DEF TypeOK, WorkerStep, Sweep, List, EndTick, Poll, Claim, Fetch, Store, Put,
       AddDraftPost, CloseRow, FailRow, Conclude, Crash, Goto

\* The winner of a claim finds every other worker of the same video with a
\* lease that ran out.
LEMMA ClaimExcludes ==
    ASSUME IndInv, NEW w \in Workers, Claim(w), NEW o \in Workers \ {w}, NEW v \in Videos,
           Finishing(w, v)', Finishing(o, v)
    PROVE  since'[o] + Lease < since'[w]
<1>1. /\ pc[w] = "claim" /\ cur[w] = v /\ Claimable(row[v]) /\ since'[w] = now
  BY DEF Claim, Finishing, FinishSteps, Goto, IndInv, TypeOK
<1>2. since[o] \in Nat /\ since[o] <= row[v].claimed
  BY DEF IndInv, LeaseInv, LeaseAt, Finishing
<1>3. row[v].claimed + Lease < now
  BY <1>1, <1>2 DEF Claimable, Unclaimed
<1>4. since'[o] = since[o]
  BY OthersStill DEF IndInv, WorkerStep
<1> QED
  BY <1>1, <1>2, <1>3, <1>4, RowFacts, VideogenAssumption

LEMMA WorkerStepKeeps ==
    ASSUME IndInv, NEW w \in Workers, WorkerStep(w) \/ Crash(w)
    PROVE  IndInv'
<1> USE WorkerGrows
<1>1. TypeOK'
  BY WorkerType DEF IndInv, WorkerInv, WorkerAt
<1>2. \A o \in Workers: WorkerAt(o)' /\ LeaseAt(o)'
  BY <1>1, MovedWorker, StillWorker, OthersStill DEF IndInv
<1>3. FinishExclusive'
  <2>1. SUFFICES ASSUME NEW o1 \in Workers, NEW o2 \in Workers, NEW v \in Videos, o1 # o2,
                        Finishing(o1, v)', Finishing(o2, v)'
                 PROVE  since'[o1] + Lease < since'[o2] \/ since'[o2] + Lease < since'[o1]
    BY DEF FinishExclusive
  <2>2. CASE Claim(w) /\ w \in {o1, o2}
    BY <2>1, <2>2, ClaimExcludes, OthersStill DEF Finishing, IndInv
  <2>3. CASE ~(Claim(w) /\ w \in {o1, o2})
    <3>1. /\ Finishing(o1, v) /\ Finishing(o2, v)
          /\ since'[o1] = since[o1] /\ since'[o2] = since[o2]
      BY <2>1, <2>3, StaysInFinish, OthersStill DEF Finishing, IndInv
    <3> QED
      BY <2>1, <3>1 DEF FinishExclusive, IndInv
  <2> QED
    BY <2>2, <2>3
<1>4. HandlerInv'
  BY DEF HandlerInv, IndInv
<1>5. PostedMeansStored'
  <2>1. CASE AddDraftPost(w)
    BY <2>1 DEF AddDraftPost, PostedMeansStored, IndInv, TypeOK, WorkerInv, WorkerAt
  <2>2. CASE post' = post
    BY <1>1, <2>2 DEF PostedMeansStored, IndInv, Grows, TypeOK
  <2> QED
    BY <2>1, <2>2 DEF WorkerStep, Sweep, List, EndTick, Poll, Claim, Fetch, Store, Put,
       CloseRow, FailRow, Conclude, Crash
<1>6. CompleteMeansPosted'
  <2>1. SUFFICES ASSUME NEW v \in Videos, row'[v].status = "complete"
                 PROVE  post'[v] # "none"
    BY <1>5 DEF CompleteMeansPosted, PostedMeansStored
  <2>2. row[v] \in Row /\ row \in [Videos -> Row]
    BY DEF IndInv, TypeOK
  <2>3. CASE row[v].status = "complete"
    BY <2>3 DEF IndInv, CompleteMeansPosted, Grows
  <2>4. CASE row[v].status # "complete"
    <3>1. CloseRow(w) /\ v = cur[w]
      <4>1. Failed(row[v]).status # "complete"
        BY <2>2, <2>4, RowUpdates
      <4>2. row'[v] # [row[v] EXCEPT !.claimed = now]
        BY <2>1, <2>2, <2>4 DEF Row
      <4> QED
        BY <2>1, <2>4, <4>1, <4>2, WorkerRow
    <3> QED
      BY <3>1 DEF CloseRow, Conclude, IndInv, WorkerInv, WorkerAt
  <2> QED
    BY <2>3, <2>4
<1>7. TokenOnlyInFlight'
  <2>1. SUFFICES ASSUME NEW v \in Videos PROVE row'[v].token <=> row'[v].status = "pending"
    BY DEF TokenOnlyInFlight, Pending
  <2>2. row[v] \in Row /\ row \in [Videos -> Row] /\ (row[v].token <=> row[v].status = "pending")
    BY DEF IndInv, TypeOK, TokenOnlyInFlight, Pending
  <2>3. /\ Failed(row[v]).token <=> Failed(row[v]).status = "pending"
        /\ Completed(row[v]).token <=> Completed(row[v]).status = "pending"
    BY <2>2 DEF Failed, Completed, Row
  <2>4. row'[v].token <=> row'[v].status = "pending"
    <3>1. [row[v] EXCEPT !.claimed = now].token = row[v].token
          /\ [row[v] EXCEPT !.claimed = now].status = row[v].status
      BY <2>2 DEF Row
    <3>2. \/ row'[v] = row[v] \/ row'[v] = Failed(row[v]) \/ row'[v] = Completed(row[v])
          \/ row'[v] = [row[v] EXCEPT !.claimed = now]
      BY WorkerRow
    <3> QED
      BY <2>2, <2>3, <3>1, <3>2
  <2> QED
    BY <2>4
<1> QED
  BY <1>1, <1>2, <1>3, <1>4, <1>5, <1>6, <1>7 DEF IndInv, WorkerInv, LeaseInv

\* The invariant holds initially and survives every step.
LEMMA Inductive == Spec => []IndInv
<1>1. Init => IndInv
  BY VideogenAssumption DEF Init, IndInv, TypeOK, Row, Statuses, Requests, Jobs, Posts, WorkerSteps,
     HandlerInv, WorkerInv, WorkerAt, LeaseInv, LeaseAt, FinishSteps, PostedMeansStored,
     CompleteMeansPosted, TokenOnlyInFlight, Pending, FinishExclusive, Finishing, Unclaimed
<1>2. ASSUME IndInv, [Next]_vars
      PROVE  IndInv'
  <2>1. ASSUME NEW v \in Videos, Handler(v)
        PROVE  IndInv'
    BY <1>2, <2>1, HandlerStep
  <2>2. ASSUME NEW w \in Workers, WorkerStep(w) \/ Crash(w)
        PROVE  IndInv'
    BY <1>2, <2>2, WorkerStepKeeps
  <2>3. ASSUME UNCHANGED <<row, req, runs, stored, post, workerVars>>,
               tries' = tries, job' \in [Videos -> Jobs], now' \in Nat, now <= now'
        PROVE  IndInv'
    <3>1. \A v \in Videos: row'[v].claimed <= now'
      BY <1>2, <2>3, RowFacts
    <3> QED
      BY <1>2, <2>3, <3>1 DEF IndInv, TypeOK, HandlerInv, WorkerInv, WorkerAt, LeaseInv, LeaseAt,
         PostedMeansStored, CompleteMeansPosted, TokenOnlyInFlight, Pending, FinishExclusive,
         Finishing, workerVars
  <2>4. ASSUME NEW v \in Videos, JobEnds(v) \/ JobLost(v)
        PROVE  IndInv'
    <3>1. job' \in [Videos -> Jobs] /\ now \in Nat
      BY <1>2, <2>4 DEF JobEnds, JobLost, IndInv, TypeOK, Jobs
    <3> QED
      BY <2>3, <2>4, <3>1 DEF JobEnds, JobLost, handlerVars
  <2>5. CASE Tick
    BY <1>2, <2>3, <2>5 DEF Tick, IndInv, TypeOK, handlerVars
  <2>6. CASE UNCHANGED vars
    BY <1>2, <2>3, <2>6 DEF vars, IndInv, TypeOK, workerVars
  <2> QED
    BY <1>2, <2>1, <2>2, <2>4, <2>5, <2>6 DEF Next
<1> QED
  BY <1>1, <1>2, PTL DEF Spec

-----------------------------------------------------------------------------
(* The results.                                                            *)

\* Every variable keeps its type.
THEOREM TypeCorrect == Spec => []TypeOK
BY Inductive, PTL DEF IndInv

\* A complete row has its post, its thumbnail and its video; a post has both
\* objects; the token lives as long as the row is in flight.
THEOREM CompletionIsHonest == Spec => []HonestCompletion
BY Inductive, PTL DEF IndInv, HonestCompletion

\* Two workers are inside one finish only across a lapsed lease.
THEOREM LeaseExcludes == Spec => []FinishExclusive
BY Inductive, PTL DEF IndInv

\* Retries never make ComfyUI run a request twice, nor one without a row.
THEOREM OneJobPerRow == Spec => []AtMostOneJob
<1>1. IndInv => AtMostOneJob
  BY DEF IndInv, HandlerInv, AtMostOneJob, TypeOK
<1> QED
  BY <1>1, Inductive, PTL

\* What one step may do to the status and the token of a row.
LEMMA RowTransitions ==
    ASSUME IndInv, [Next]_vars, NEW v \in Videos
    PROVE  \/ row'[v].status = row[v].status /\ row'[v].token = row[v].token
           \/ row[v].status = "absent" /\ CreatePending(v)
           \/ /\ row[v].status = "pending"
              /\ row'[v].status = "failed" \/ (row'[v].status = "complete" /\ post[v] # "none")
<1>1. row[v] \in Row /\ row \in [Videos -> Row]
  BY DEF IndInv, TypeOK
<1>2. /\ row[v].status # "pending" => Completed(row[v]) = row[v] /\ Failed(row[v]) = row[v]
      /\ row[v].status = "pending" =>
            Completed(row[v]).status = "complete" /\ Failed(row[v]).status = "failed"
  BY <1>1, RowUpdates
<1>3. ASSUME NEW u \in Videos, Handler(u)
      PROVE  \/ row'[v] = row[v] \/ row'[v] = Failed(row[v])
             \/ row'[v] = [row[v] EXCEPT !.comfy = TRUE]
             \/ row[v].status = "absent" /\ CreatePending(v)
  <2>1. CASE CreatePending(u)
    BY <1>1, <2>1 DEF CreatePending, IndInv, HandlerInv
  <2>2. CASE Attach(u) \/ GiveUp(u)
    BY <1>1, <2>2 DEF Attach, GiveUp
  <2> QED
    BY <1>3, <2>1, <2>2 DEF Handler, Reject, NeverArrived, Refuses, Upload, Submit, HandlerDies, Publish
<1>4. ASSUME NEW w \in Workers, WorkerStep(w) \/ Crash(w), row'[v] = Completed(row[v]),
             CloseRow(w), v = cur[w]
      PROVE  post[v] # "none"
  BY <1>4 DEF CloseRow, Conclude, IndInv, WorkerInv, WorkerAt
<1>5. \/ row'[v] = row[v] \/ row'[v] = Failed(row[v])
      \/ row'[v] = Completed(row[v]) /\ post[v] # "none"
      \/ row'[v] = [row[v] EXCEPT !.claimed = now] \/ row'[v] = [row[v] EXCEPT !.comfy = TRUE]
      \/ row[v].status = "absent" /\ CreatePending(v)
  BY <1>3, <1>4, WorkerRow DEF Next, vars, JobEnds, JobLost, Tick
<1>6. /\ [row[v] EXCEPT !.claimed = now].status = row[v].status
      /\ [row[v] EXCEPT !.claimed = now].token = row[v].token
      /\ [row[v] EXCEPT !.comfy = TRUE].status = row[v].status
      /\ [row[v] EXCEPT !.comfy = TRUE].token = row[v].token
  BY <1>1 DEF Row
<1> QED
  BY <1>2, <1>5, <1>6

\* Abbreviations for the refinement mapping.
Status == [v \in Videos |-> row[v].status]
Visible == {v \in Videos: post[v] # "none"}

LEMMA HandlerImplements ==
    ASSUME IndInv, NEW v \in Videos, Handler(v)
    PROVE  [Contract!Next]_<<Status, Visible>>
<1> USE DEF IndInv, TypeOK, Status, Visible
<1>1. row[v] \in Row
  OBVIOUS
<1>2. CASE CreatePending(v)
  <2>1. Contract!Request(v)
    BY <1>2 DEF CreatePending, HandlerInv, Contract!Request
  <2> QED
    BY <2>1 DEF Contract!Next
<1>3. CASE GiveUp(v)
  <2>1. CASE row[v].status = "pending"
    <3>1. Contract!Abandon({v})
      BY <1>1, <1>3, <2>1, RowUpdates DEF GiveUp, Contract!Abandon
    <3> QED
      BY <3>1 DEF Contract!Next
  <2>2. CASE row[v].status # "pending"
    <3>1. Failed(row[v]) = row[v]
      BY <1>1, <2>2, RowUpdates
    <3>2. row' = row /\ post' = post
      BY <1>3, <3>1 DEF GiveUp
    <3> QED
      BY <3>2
  <2> QED
    BY <2>1, <2>2
<1>4. CASE Attach(v)
  BY <1>4 DEF Attach, Row
<1>5. CASE Publish(v)
  BY <1>5 DEF Publish
<1> QED
  BY <1>2, <1>3, <1>4, <1>5 DEF Handler, Reject, NeverArrived, Refuses, Upload, Submit, HandlerDies

\* The visible change of a worker step: a new draft, a row closed, or some
\* pending rows failed.
LEMMA WorkerImplements ==
    ASSUME IndInv, NEW w \in Workers, WorkerStep(w) \/ Crash(w)
    PROVE  [Contract!Next]_<<Status, Visible>>
<1> DEFINE Gone == {v \in Videos: row[v].status = "pending" /\ row'[v].status = "failed"}
<1>1. row \in [Videos -> Row] /\ post \in [Videos -> Posts]
  BY DEF IndInv, TypeOK
<1>2. ASSUME post' = post, \A v \in Videos: row'[v].status # row[v].status => v \in Gone
      PROVE  [Contract!Next]_<<Status, Visible>>
  <2>1. Visible' = Visible /\ Status' = [v \in Videos |-> IF v \in Gone THEN "failed" ELSE Status[v]]
    BY <1>2 DEF Visible, Status
  <2>2. CASE Gone = {}
    <3>1. Status' = Status
      BY <2>1, <2>2 DEF Status
    <3> QED
      BY <2>1, <3>1
  <2>3. CASE Gone # {}
    <3>1. PICK S \in SUBSET Videos: S = Gone
      OBVIOUS
    <3>2. \A v \in S: Status[v] = "pending"
      BY <3>1 DEF Status
    <3>3. Contract!Abandon(S)
      BY <2>1, <2>3, <3>1, <3>2 DEF Contract!Abandon, Status, Visible
    <3> QED
      BY <3>3 DEF Contract!Next
  <2> QED
    BY <2>2, <2>3
<1>3. ASSUME NEW v \in Videos, row'[v].status # row[v].status, v \notin Gone
      PROVE  CloseRow(w) /\ v = cur[w] /\ row[v].status = "pending" /\ row'[v].status = "complete"
  <2>1. row[v] \in Row /\ [row[v] EXCEPT !.claimed = now].status = row[v].status
    BY <1>1 DEF Row
  <2>2. Failed(row[v]).status = row[v].status
          \/ (row[v].status = "pending" /\ Failed(row[v]).status = "failed")
    BY <2>1, RowUpdates
  <2>3. row'[v] = Completed(row[v]) /\ CloseRow(w) /\ v = cur[w]
    BY <1>3, <2>1, <2>2, WorkerRow
  <2> QED
    <3>1. row[v].status # "pending" => Completed(row[v]) = row[v]
      BY <2>1, RowUpdates
    <3>2. row[v].status = "pending" => Completed(row[v]).status = "complete"
      BY <2>1, RowUpdates
    <3> QED
      BY <1>3, <2>3, <3>1, <3>2
<1>4. CASE AddDraftPost(w)
  <2>1. row' = row /\ cur[w] \in Videos /\ row[cur[w]].status # "absent"
    BY <1>4 DEF AddDraftPost, IndInv, WorkerInv, WorkerAt, FinishSteps
  <2>2. CASE post' = post
    BY <2>1, <2>2 DEF Status, Visible
  <2>3. CASE post[cur[w]] = "none" /\ post' = [post EXCEPT ![cur[w]] = "draft"]
    <3>1. PICK v \in Videos: v = cur[w]
      BY <2>1
    <3>2. Contract!Show(v)
      BY <1>1, <2>1, <2>3, <3>1 DEF Contract!Show, Status, Visible
    <3> QED
      BY <3>2 DEF Contract!Next
  <2> QED
    BY <1>4, <2>2, <2>3 DEF AddDraftPost
<1>5. CASE ~AddDraftPost(w)
  <2>1. post' = post
    BY <1>5 DEF WorkerStep, Sweep, List, EndTick, Poll, Claim, Fetch, Store, Put, CloseRow,
       FailRow, Conclude, Crash
  <2>2. CASE \E v \in Videos: row'[v].status # row[v].status /\ v \notin Gone
    <3>1. PICK v \in Videos: row'[v].status # row[v].status /\ v \notin Gone
      BY <2>2
    <3>2. CloseRow(w) /\ v = cur[w] /\ row[v].status = "pending" /\ row'[v].status = "complete"
      BY <1>3, <3>1
    <3>3. post[v] # "none"
      BY <3>2 DEF CloseRow, Conclude, IndInv, WorkerInv, WorkerAt
    <3>4. \A u \in Videos \ {v}: row'[u] = row[u]
      BY <1>1, <3>2 DEF CloseRow, Conclude
    <3>5. Contract!Complete(v)
      BY <1>1, <2>1, <3>2, <3>3, <3>4 DEF Contract!Complete, Status, Visible
    <3> QED
      BY <3>5 DEF Contract!Next
  <2> QED
    BY <1>2, <2>1, <2>2
<1> QED
  BY <1>4, <1>5

\* The design implements the contract.
THEOREM Refinement == Spec => ImplementsContract
<1>1. Init => Contract!Init
  BY DEF Init, Contract!Init
<1>2. ASSUME IndInv, [Next]_vars
      PROVE  [Contract!Next]_<<Status, Visible>>
  <2>1. CASE UNCHANGED <<row, post>>
    BY <2>1 DEF Status, Visible
  <2>2. ASSUME NEW v \in Videos, Handler(v)
        PROVE  [Contract!Next]_<<Status, Visible>>
    BY <1>2, <2>2, HandlerImplements
  <2>3. ASSUME NEW w \in Workers, WorkerStep(w) \/ Crash(w)
        PROVE  [Contract!Next]_<<Status, Visible>>
    BY <1>2, <2>3, WorkerImplements
  <2> QED
    BY <1>2, <2>1, <2>2, <2>3 DEF Next, vars, JobEnds, JobLost, Tick
<1>3. [Contract!Next]_<<Status, Visible>> =
      [Contract!Next]_<<[v \in Videos |-> row[v].status], {v \in Videos: post[v] # "none"}>>
  BY DEF Status, Visible
<1> QED
  BY <1>1, <1>2, <1>3, Inductive, PTL DEF Spec, ImplementsContract, Contract!Spec, Status, Visible

\* A terminal row stays as it is.
THEOREM TerminalStays == Spec => TerminalIsFinal
<1>1. IndInv /\ [Next]_vars =>
        [\A v \in Videos: row[v].status \in Terminal =>
            row'[v].status = row[v].status /\ row'[v].token = row[v].token]_vars
  BY RowTransitions DEF Terminal
<1> QED
  BY <1>1, Inductive, PTL DEF Spec, TerminalIsFinal
=============================================================================
