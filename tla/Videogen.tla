------------------------------ MODULE Videogen ------------------------------
(***************************************************************************)
(* Video generation (app/videogen).  A request handler writes a `pending`  *)
(* row, submits a job to ComfyUI and records the job's id.  Several copies *)
(* of the poll loop watch every pending row; the one that wins the finish  *)
(* claim fetches the video, stores it, registers a draft post in           *)
(* SpacetimeDB and closes the row.  A sweep fails rows that grew stale.    *)
(*                                                                         *)
(* One TLA+ step is one call that another process can observe: one SQL     *)
(* statement, one ComfyUI request, one upload, one reducer call.           *)
(***************************************************************************)
EXTENDS Integers, FiniteSets

CONSTANTS
    Videos,      \* generation requests; video_id is the row's key
    Workers,     \* copies of the poll loop: 2 replicas x 4 uvicorn workers
    Lease,       \* VIDEOGEN_CLAIM_LEASE_SECONDS, in clock ticks
    Stale,       \* VIDEOGEN_STALE_AFTER_SECONDS, in clock ticks
    Attempts,    \* COMFYUI_ATTEMPTS, at least one
    Batch,       \* the LIMIT of list_pending
    LastArrival, \* bound: no request is created after this time
    MaxTime,     \* bound: the clock stops here
    Faults       \* which faults the environment may inject

FaultKinds == {"crash", "network", "comfy", "storage", "spacetime", "database"}

ASSUME VideogenAssumption ==
    /\ Lease \in Nat /\ Stale \in Nat
    /\ Attempts \in Nat \ {0} /\ Batch \in Nat \ {0}
    /\ LastArrival \in Nat /\ MaxTime \in Nat
    /\ Faults \subseteq FaultKinds
    /\ "none" \notin Videos

VARIABLES
    row,     \* videogen_requests, one row per video
    req,     \* where the request handler of a video is
    tries,   \* POST attempts the handler has made for this call
    job,     \* the ComfyUI job of a video
    runs,    \* how many times ComfyUI was made to queue this video
    stored,  \* which of its two objects are in the bucket
    post,    \* its SpacetimeDB post
    pc, cur, todo, since,  \* per worker: step, video, snapshot, claim time
    now      \* the database clock

vars == <<row, req, tries, job, runs, stored, post, pc, cur, todo, since, now>>
handlerVars == <<req, tries>>
workerVars == <<pc, cur, todo, since>>

Unclaimed == -1
Statuses == {"absent", "pending", "complete", "failed"}
Terminal == {"complete", "failed"}
Row == [status: Statuses, comfy: BOOLEAN, token: BOOLEAN,
        created: Nat, claimed: Nat \cup {Unclaimed}]
Requests == {"new", "rejected", "upload", "submit", "attach", "giveup",
             "accepted", "refused", "dead"}
Jobs == {"none", "queued", "done", "error", "lost"}
Objects == {"thumb", "video"}
Posts == {"none", "draft", "published"}
FinishSteps == {"fetch", "thumb", "video", "post", "close", "fail"}
WorkerSteps == {"sleep", "list", "next", "claim"} \cup FinishSteps

Pending(v) == row[v].status = "pending"
May(fault) == fault \in Faults

TypeOK ==
    /\ row \in [Videos -> Row]
    /\ req \in [Videos -> Requests]
    /\ tries \in [Videos -> 0..(Attempts - 1)]
    /\ job \in [Videos -> Jobs]
    /\ runs \in [Videos -> Nat]
    /\ stored \in [Videos -> SUBSET Objects]
    /\ post \in [Videos -> Posts]
    /\ pc \in [Workers -> WorkerSteps]
    /\ cur \in [Workers -> Videos \cup {"none"}]
    /\ todo \in [Workers -> SUBSET Videos]
    /\ since \in [Workers -> Nat \cup {Unclaimed}]
    /\ now \in Nat

Init ==
    /\ row = [v \in Videos |-> [status |-> "absent", comfy |-> FALSE, token |-> FALSE,
                                created |-> 0, claimed |-> Unclaimed]]
    /\ req = [v \in Videos |-> "new"]
    /\ tries = [v \in Videos |-> 0]
    /\ job = [v \in Videos |-> "none"]
    /\ runs = [v \in Videos |-> 0]
    /\ stored = [v \in Videos |-> {}]
    /\ post = [v \in Videos |-> "none"]
    /\ pc = [w \in Workers |-> "sleep"]
    /\ cur = [w \in Workers |-> "none"]
    /\ todo = [w \in Workers |-> {}]
    /\ since = [w \in Workers |-> Unclaimed]
    /\ now = 0

-----------------------------------------------------------------------------
(* The UPDATE statements of repository.py, as functions of the row.        *)

\* mark_complete: only a pending row is closed; the token goes with it.
Completed(r) ==
    IF r.status = "pending" THEN [r EXCEPT !.status = "complete", !.token = FALSE] ELSE r

\* mark_failed, and what fail_stale does to each row it selects.
FailedUnguarded(r) == [r EXCEPT !.status = "failed", !.token = FALSE]
Failed(r) ==
    IF r.status = "pending" THEN [r EXCEPT !.status = "failed", !.token = FALSE] ELSE r

\* The row conditions of claim_for_finish and of fail_stale.
ClaimableAtLapse(r) ==
    r.status = "pending" /\ (r.claimed = Unclaimed \/ r.claimed + Lease <= now)
Claimable(r) ==
    r.status = "pending" /\ (r.claimed = Unclaimed \/ r.claimed + Lease < now)
GrownStaleUnclaimed(r) == r.claimed = Unclaimed /\ r.created + Stale < now
GrownStale(r) == r.created + Stale < now

-----------------------------------------------------------------------------
(* The request handler, generate_video.                                    *)

\* Every refusal before the row exists: empty prompt, unknown model, bad or
\* oversized image, a bot the caller does not own, a prompt check that did not
\* answer SAFE.
Reject(v) ==
    /\ req[v] = "new"
    /\ req' = [req EXCEPT ![v] = "rejected"]
    /\ UNCHANGED <<row, tries, job, runs, stored, post, workerVars, now>>

\* create_pending, then on to the image upload or straight to the submit.
CreatePending(v) ==
    /\ req[v] = "new" /\ now <= LastArrival
    /\ row' = [row EXCEPT ![v] = [status |-> "pending", comfy |-> FALSE, token |-> TRUE,
                                  created |-> now, claimed |-> Unclaimed]]
    /\ \E step \in {"upload", "submit"}: req' = [req EXCEPT ![v] = step]
    /\ UNCHANGED <<tries, job, runs, stored, post, workerVars, now>>

\* Whether _post, having made n earlier attempts, may make another.
AnotherAttemptInclusive(n) == n < Attempts
AnotherAttempt(n) == n + 1 < Attempts

\* One attempt of _post that never reached ComfyUI: tried again while attempts
\* are left, otherwise ComfyUnavailable.
NeverArrived(v) ==
    /\ May("network") /\ req[v] \in {"upload", "submit"}
    /\ IF AnotherAttempt(tries[v])
       THEN tries' = [tries EXCEPT ![v] = @ + 1] /\ UNCHANGED req
       ELSE req' = [req EXCEPT ![v] = "giveup"] /\ tries' = [tries EXCEPT ![v] = 0]
    /\ UNCHANGED <<row, job, runs, stored, post, workerVars, now>>

\* An HTTP error, or an upload whose reply was lost: raised at once.
Refuses(v) ==
    /\ May("network") /\ req[v] \in {"upload", "submit"}
    /\ req' = [req EXCEPT ![v] = "giveup"] /\ tries' = [tries EXCEPT ![v] = 0]
    /\ UNCHANGED <<row, job, runs, stored, post, workerVars, now>>

Upload(v) ==
    /\ req[v] = "upload"
    /\ req' = [req EXCEPT ![v] = "submit"]
    /\ tries' = [tries EXCEPT ![v] = 0]
    /\ UNCHANGED <<row, job, runs, stored, post, workerVars, now>>

\* Where a submit that reached ComfyUI leaves the handler: with the prompt id,
\* or, when the reply is lost, giving up without a second attempt.
AfterSubmitRetrying(lost) == IF lost THEN "submit" ELSE "attach"
AfterSubmit(lost) == IF lost THEN "giveup" ELSE "attach"

Submit(v) ==
    /\ req[v] = "submit"
    /\ job' = [job EXCEPT ![v] = "queued"]
    /\ runs' = [runs EXCEPT ![v] = @ + 1]
    /\ \E lost \in {FALSE} \cup {b \in {TRUE}: May("network")}:
          req' = [req EXCEPT ![v] = AfterSubmit(lost)]
    /\ tries' = [tries EXCEPT ![v] = 0]
    /\ UNCHANGED <<row, stored, post, workerVars, now>>

\* attach_comfy_id carries no guard on the status.
Attach(v) ==
    /\ req[v] = "attach"
    /\ row' = [row EXCEPT ![v].comfy = TRUE]
    /\ req' = [req EXCEPT ![v] = "accepted"]
    /\ UNCHANGED <<tries, job, runs, stored, post, workerVars, now>>

\* except ComfyUnavailable: mark_failed and answer 502.
GiveUp(v) ==
    /\ req[v] = "giveup"
    /\ row' = [row EXCEPT ![v] = Failed(@)]
    /\ req' = [req EXCEPT ![v] = "refused"]
    /\ UNCHANGED <<tries, job, runs, stored, post, workerVars, now>>

\* The process dies, or one of the handler's own calls raises: the row stays.
HandlerDies(v) ==
    /\ May("crash") /\ req[v] \in {"upload", "submit", "attach", "giveup"}
    /\ req' = [req EXCEPT ![v] = "dead"] /\ tries' = [tries EXCEPT ![v] = 0]
    /\ UNCHANGED <<row, job, runs, stored, post, workerVars, now>>

\* mark_post_as_published: the Publish button, once the draft is there.
Publish(v) ==
    /\ post[v] = "draft"
    /\ post' = [post EXCEPT ![v] = "published"]
    /\ UNCHANGED <<row, handlerVars, job, runs, stored, workerVars, now>>

-----------------------------------------------------------------------------
(* One tick of a poll loop.                                                *)

Goto(w, step) == pc' = [pc EXCEPT ![w] = step]
externals == <<handlerVars, job, runs, now>>

\* fail_stale: one UPDATE over the whole table.
Sweep(w) ==
    /\ pc[w] = "sleep"
    /\ row' = [v \in Videos |-> IF GrownStale(row[v]) THEN Failed(row[v]) ELSE row[v]]
    /\ Goto(w, "list")
    /\ UNCHANGED <<externals, stored, post, cur, todo, since>>

\* The oldest pending rows, at most Batch of them.
OldestPending(S) ==
    LET pending == {v \in Videos: Pending(v)} IN
    /\ S \subseteq pending
    /\ Cardinality(S) <= Batch
    /\ S # pending => Cardinality(S) = Batch
    /\ \A u \in S, v \in pending \ S: row[u].created <= row[v].created

\* list_pending.  Rows without a comfy_id are skipped by _advance_one.
List(w) ==
    /\ pc[w] = "list"
    /\ \E S \in SUBSET Videos:
          /\ OldestPending(S)
          /\ todo' = [todo EXCEPT ![w] = {v \in S: row[v].comfy}]
    /\ Goto(w, "next")
    /\ UNCHANGED <<externals, row, stored, post, cur, since>>

EndTick(w) ==
    /\ pc[w] = "next" /\ todo[w] = {}
    /\ Goto(w, "sleep")
    /\ UNCHANGED <<externals, row, stored, post, cur, todo, since>>

\* comfyui.poll of the oldest row left in the snapshot.  Unreachable, still
\* queued or forgotten jobs read as pending; an error fails the row.
Poll(w) ==
    /\ pc[w] = "next"
    /\ \E v \in todo[w]:
          /\ \A u \in todo[w]: row[v].created <= row[u].created
          /\ todo' = [todo EXCEPT ![w] = @ \ {v}]
          /\ \/ /\ job[v] \in {"queued", "lost"} \/ May("network")
                /\ UNCHANGED <<row, pc, cur>>
             \/ /\ job[v] = "error"
                /\ row' = [row EXCEPT ![v] = Failed(@)]
                /\ UNCHANGED <<pc, cur>>
             \/ /\ job[v] = "done"
                /\ Goto(w, "claim")
                /\ cur' = [cur EXCEPT ![w] = v]
                /\ UNCHANGED row
    /\ UNCHANGED <<externals, stored, post, since>>

\* claim_for_finish: one conditional UPDATE.  When it raises, it may have
\* taken effect, and the tick moves on to the next row.
Claim(w) ==
    LET v == cur[w]
        claimed == [row EXCEPT ![v].claimed = now] IN
    /\ pc[w] = "claim"
    /\ \/ /\ Claimable(row[v])
          /\ row' = claimed
          /\ since' = [since EXCEPT ![w] = now]
          /\ Goto(w, "fetch") /\ UNCHANGED cur
       \/ /\ ~Claimable(row[v])
          /\ Goto(w, "next") /\ cur' = [cur EXCEPT ![w] = "none"]
          /\ UNCHANGED <<row, since>>
       \/ /\ May("database") /\ Claimable(row[v])
          /\ row' = claimed
          /\ Goto(w, "next") /\ cur' = [cur EXCEPT ![w] = "none"]
          /\ UNCHANGED since
    /\ UNCHANGED <<externals, stored, post, todo>>

\* fetch_output and the thumbnail extraction; after a restart of the GPU box
\* the file may be gone.
Fetch(w) ==
    /\ pc[w] = "fetch"
    /\ \/ Goto(w, "thumb")
       \/ (job[cur[w]] = "lost" \/ May("network")) /\ Goto(w, "fail")
    /\ UNCHANGED <<externals, row, stored, post, cur, todo, since>>

\* store: the thumbnail first, then the video.
Put(w, object, next) ==
    /\ pc[w] = object
    /\ \/ /\ stored' = [stored EXCEPT ![cur[w]] = @ \cup {object}]
          /\ Goto(w, next)
       \/ May("storage") /\ Goto(w, "fail") /\ UNCHANGED stored
    /\ UNCHANGED <<externals, row, post, cur, todo, since>>
Store(w) == Put(w, "thumb", "video") \/ Put(w, "video", "post")

\* A client that does not look at the status of the reply.
AddDraftPostUnchecked(w) ==
    LET v == cur[w] IN
    /\ pc[w] = "post" /\ Goto(w, "close")
    /\ \/ post[v] = "none" /\ post' = [post EXCEPT ![v] = "draft"]
       \/ (post[v] # "none" \/ May("spacetime")) /\ UNCHANGED post
    /\ UNCHANGED <<externals, row, stored, cur, todo, since>>

\* add_draft_post.  SpacetimeDB keeps one post per id and refuses a second
\* with DuplicatePostId; it may refuse the first, or its reply may be lost.
AddDraftPost(w) ==
    LET v == cur[w] IN
    /\ pc[w] = "post"
    /\ \/ /\ post[v] = "none"
          /\ post' = [post EXCEPT ![v] = "draft"]
          /\ Goto(w, "close") \/ (May("spacetime") /\ Goto(w, "fail"))
       \/ /\ post[v] # "none" \/ May("spacetime")
          /\ Goto(w, "fail")
          /\ UNCHANGED post
    /\ UNCHANGED <<externals, row, stored, cur, todo, since>>

\* The last write of a finish: mark_complete, or mark_failed after an
\* exception.  Either may raise before or after taking effect.
Conclude(w, step, new, onError) ==
    /\ pc[w] = step
    /\ \/ row' = [row EXCEPT ![cur[w]] = new] /\ Goto(w, "next")
       \/ May("database") /\ row' = [row EXCEPT ![cur[w]] = new] /\ Goto(w, onError)
       \/ May("database") /\ Goto(w, onError) /\ UNCHANGED row
    /\ cur' = [cur EXCEPT ![w] = IF pc'[w] = "next" THEN "none" ELSE @]
    /\ UNCHANGED <<externals, stored, post, todo, since>>

CloseRow(w) == Conclude(w, "close", Completed(row[cur[w]]), "fail")
FailRow(w) == Conclude(w, "fail", Failed(row[cur[w]]), "next")

\* A worker process dies, or run_forever's own except ends the tick: it starts
\* again with an empty snapshot.
Crash(w) ==
    /\ May("crash") /\ pc[w] # "sleep"
    /\ Goto(w, "sleep")
    /\ cur' = [cur EXCEPT ![w] = "none"]
    /\ todo' = [todo EXCEPT ![w] = {}]
    /\ UNCHANGED <<externals, row, stored, post, since>>

-----------------------------------------------------------------------------
(* ComfyUI and the clock.                                                  *)

JobEnds(v) ==
    /\ job[v] = "queued"
    /\ \E s \in {"done"} \cup {e \in {"error"}: May("comfy")}: job' = [job EXCEPT ![v] = s]
    /\ UNCHANGED <<row, handlerVars, runs, stored, post, workerVars, now>>

\* The GPU box restarts: queue and history are gone.
JobLost(v) ==
    /\ May("comfy") /\ job[v] \in {"queued", "done"}
    /\ job' = [job EXCEPT ![v] = "lost"]
    /\ UNCHANGED <<row, handlerVars, runs, stored, post, workerVars, now>>

Tick ==
    /\ now < MaxTime
    /\ now' = now + 1
    /\ UNCHANGED <<row, handlerVars, job, runs, stored, post, workerVars>>

Handler(v) ==
    \/ Reject(v) \/ CreatePending(v) \/ NeverArrived(v) \/ Refuses(v) \/ Upload(v)
    \/ Submit(v) \/ Attach(v) \/ GiveUp(v) \/ HandlerDies(v) \/ Publish(v)
WorkerStep(w) ==
    \/ Sweep(w) \/ List(w) \/ EndTick(w) \/ Poll(w) \/ Claim(w) \/ Fetch(w)
    \/ Store(w) \/ AddDraftPost(w) \/ CloseRow(w) \/ FailRow(w)

Next ==
    \/ \E v \in Videos: Handler(v) \/ JobEnds(v) \/ JobLost(v)
    \/ \E w \in Workers: WorkerStep(w) \/ Crash(w)
    \/ Tick

Spec == Init /\ [][Next]_vars

\* run_forever never ends and the database clock never stops.
FairSpec == Spec /\ WF_vars(Tick) /\ \A w \in Workers: WF_vars(WorkerStep(w))

-----------------------------------------------------------------------------
(* Properties.                                                             *)

\* The contract the rest of the system relies on, and how this design meets it.
Contract == INSTANCE VideogenContract WITH
    status <- [v \in Videos |-> row[v].status],
    visible <- {v \in Videos: post[v] # "none"}
ImplementsContract == Contract!Spec

Finishing(w, v) == cur[w] = v /\ pc[w] \in FinishSteps

\* A row reads complete only when the video, its thumbnail and the post are
\* all there: the spinner never vanishes before the draft appears.
CompleteMeansPosted ==
    \A v \in Videos: row[v].status = "complete" => post[v] # "none" /\ stored[v] = Objects

\* A post is never visible before both of its objects can be fetched.
PostedMeansStored == \A v \in Videos: post[v] # "none" => stored[v] = Objects

\* The caller's token is kept exactly as long as the row is in flight.
TokenOnlyInFlight == \A v \in Videos: row[v].token <=> Pending(v)

\* The three together: what a generation shows is true at every moment.
HonestCompletion == CompleteMeansPosted /\ PostedMeansStored /\ TokenOnlyInFlight

\* Two workers are inside the finish of one video only when the lease of the
\* earlier one ran out before the later one claimed.
FinishExclusive ==
    \A w1, w2 \in Workers, v \in Videos:
        (w1 # w2 /\ Finishing(w1, v) /\ Finishing(w2, v)) =>
            (since[w1] + Lease < since[w2] \/ since[w2] + Lease < since[w1])

\* Retrying a connection never queues a second generation, and ComfyUI never
\* works for a request that has no row.
AtMostOneJob == \A v \in Videos: runs[v] <= 1 /\ (runs[v] = 1 => row[v].status # "absent")

\* A row that reached complete or failed keeps that status and never regains
\* its token, whatever late duplicates do.
TerminalIsFinal ==
    [][\A v \in Videos: row[v].status \in Terminal =>
          row'[v].status = row[v].status /\ row'[v].token = row[v].token]_vars

\* Whatever dies, the spinner of every accepted row clears: as no closed row
\* opens again, it is enough that again and again no row is pending.
SpinnerClears == []<>(\A v \in Videos: ~Pending(v))

\* repository.py and worker.py: a worker that dies midway strands nothing; the
\* next loop re-claims the row and completes it, so a generation whose draft
\* exists is not reported as failed.
DraftedIsNotFailed ==
    \A v \in Videos: ~(row[v].status = "failed" /\ post[v] # "none")

-----------------------------------------------------------------------------
(* The inductive invariant behind the safety properties.                   *)

\* A handler past create_pending has a row, and ComfyUI has heard of the
\* video only once the handler is past the submit.
HandlerInv ==
    \A v \in Videos:
        /\ req[v] \in {"new", "rejected"} <=> row[v].status = "absent"
        /\ req[v] \in {"new", "rejected", "upload", "submit"} => runs[v] = 0
        /\ runs[v] <= 1

\* What a worker has already done for its video when it reaches a step.
WorkerAt(w) ==
    /\ \A v \in todo[w]: row[v].status # "absent"
    /\ pc[w] \in FinishSteps \cup {"claim"} =>
          cur[w] \in Videos /\ row[cur[w]].status # "absent"
    /\ pc[w] = "video" => "thumb" \in stored[cur[w]]
    /\ pc[w] = "post" => stored[cur[w]] = Objects
    /\ pc[w] = "close" => post[cur[w]] # "none"
WorkerInv == \A w \in Workers: WorkerAt(w)

\* A finishing worker claimed no later than the claim the row records, and no
\* claim lies in the future.
LeaseAt(w) ==
    pc[w] \in FinishSteps => since[w] \in Nat /\ since[w] <= row[cur[w]].claimed
LeaseInv ==
    /\ \A v \in Videos: row[v].claimed <= now
    /\ \A w \in Workers: LeaseAt(w)

IndInv ==
    /\ TypeOK /\ HandlerInv /\ WorkerInv /\ LeaseInv
    /\ PostedMeansStored /\ CompleteMeansPosted /\ TokenOnlyInFlight /\ FinishExclusive
=============================================================================
