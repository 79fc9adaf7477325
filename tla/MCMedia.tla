------------------------------ MODULE MCMedia -------------------------------
(***************************************************************************)
(* Generated media: one video under two poll loops, two videos that queue  *)
(* for one, and collages, one bot over midnight or two bots on one day's   *)
(* budget.  The parts share no variable, so a behaviour exercises one of   *)
(* them, chosen at the start, while the others rest.                       *)
(*                                                                         *)
(* TLC takes the constants from Media_all.cfg; VideogenProofs and          *)
(* CollageProofs prove the same properties for all of their values.        *)
(***************************************************************************)
EXTENDS Videogen

CONSTANTS
    w1, v1, v2,                                              \* the queue's
    Calls, Users, Bots, HardCap, Fallback, Polls, MaxDay,    \* Collage
    Tonight                                                  \* the bot that sees midnight

VARIABLES
    part,
    qRow, qReq, qTries, qJob, qRuns, qStored, qPost, qPc, qCur, qTodo, qSince, qNow,
    day, collage, quota, kept, call, batches, checked, peak, unsure

videoVars == vars
queueVars == <<qRow, qReq, qTries, qJob, qRuns, qStored, qPost, qPc, qCur, qTodo, qSince, qNow>>
collageVars == <<day, collage, quota, kept, call, batches, checked, peak, unsure>>
mediaVars == <<part, videoVars, queueVars, collageVars>>

Queue == INSTANCE Videogen WITH
    Videos <- {v1, v2}, Workers <- {w1}, Lease <- 0, Stale <- 1, Attempts <- 1, Batch <- 1,
    LastArrival <- 0, MaxTime <- 2, Faults <- {"crash"},
    row <- qRow, req <- qReq, tries <- qTries, job <- qJob, runs <- qRuns, stored <- qStored,
    post <- qPost, pc <- qPc, cur <- qCur, todo <- qTodo, since <- qSince, now <- qNow
Images == INSTANCE Collage WITH row <- collage

ThreeTaps == 1..3

ASSUME CollagesAssumption == Images!CollageAssumption

MediaInit ==
    /\ part \in {"video", "queue", "midnight", "budget"}
    /\ Init /\ Queue!Init /\ Images!Init

\* Bound: over midnight one bot is asked for; for a day's budget the nightly pass comes to
\* all of them.
WithinPart ==
    /\ part = "midnight" => \A c \in Calls: call[c].bot \in {Images!NoBot, Tonight}
    /\ part = "budget" => day = 1 /\ quota = {}

InVideo(step) == part = "video" /\ step /\ UNCHANGED <<part, queueVars, collageVars>>
InQueue(step) == part = "queue" /\ step /\ UNCHANGED <<part, videoVars, collageVars>>
InImages(step) ==
    /\ part \in {"midnight", "budget"} /\ step
    /\ UNCHANGED <<part, videoVars, queueVars>>
    /\ WithinPart'

MediaNext == InVideo(Next) \/ InQueue(Queue!Next) \/ InImages(Images!Next)

\* run_forever never ends and the database clock never stops; the event loop of
\* a process that does not die runs its handlers on.
MediaSpec ==
    /\ MediaInit /\ [][MediaNext]_mediaVars
    /\ WF_mediaVars(InVideo(Tick) \/ InQueue(Queue!Tick))
    /\ \A w \in Workers: WF_mediaVars(InVideo(WorkerStep(w)))
    /\ WF_mediaVars(InQueue(Queue!WorkerStep(w1)))
    /\ \A c \in Calls: WF_mediaVars(InImages(Images!Step(c)))

-----------------------------------------------------------------------------
(* Properties of the parts under names a cfg can list; each is stated and  *)
(* explained in its own module.                                            *)

\* Collage: one batch per bot and day; what is served is finished, in our bucket and
\* recent; the daily cap is overrun by concurrent generators only.
CollagesAreSound == Images!CollagesAreSound
\* Videogen, Collage: whatever dies, whatever queues, the spinner of every accepted row
\* clears; every request of images is answered.
NobodyWaitsForEver == SpinnerClears /\ Queue!SpinnerClears /\ Images!AnswerComes
=============================================================================
