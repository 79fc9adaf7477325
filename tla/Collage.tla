------------------------------ MODULE Collage -------------------------------
(***************************************************************************)
(* Requested images (app/services/media/image_collage.py and its two       *)
(* repositories, routes/request_images.py) and their nightly copy          *)
(* (collage_nightly_pregen.py).  A bot has one collage a day.  The row     *)
(* (bot, day) is the lock: whoever inserts it generates, everybody else    *)
(* polls it, in whichever process they are.                                *)
(*                                                                         *)
(* A step is one SQL statement, the batch at Replicate, or the upload of   *)
(* its pictures.                                                           *)
(***************************************************************************)
EXTENDS Integers, FiniteSets, FiniteSetsExt

CONSTANTS
    Calls,     \* requests and nightly passes, numbered as they arrive: a bound
    Users,     \* who ask, besides the nightly loops of all processes
    Bots,
    HardCap,   \* COLLAGE_DAILY_BUDGET_HARD_USD, in batches
    Fallback,  \* COLLAGE_FALLBACK_MAX_DAYS
    Polls,     \* COLLAGE_POLL_TIMEOUT_SEC / COLLAGE_POLL_INTERVAL_SEC
    MaxDay     \* bound: the last day

NoBot == "none"
Days == 1..MaxDay
NoDay == 0

\* What the constants must satisfy.
CollageAssumption ==
    /\ Calls \subseteq Nat /\ IsFiniteSet(Calls) /\ IsFiniteSet(Bots) /\ NoBot \notin Bots
    /\ HardCap \in Nat /\ Fallback \in Nat /\ Polls \in Nat /\ MaxDay \in Nat \ {0}

VARIABLES
    day,       \* the UTC calendar date
    row,       \* influencer_collages: state by bot and day
    quota,     \* user_image_requests
    kept,      \* bot and day whose pictures are all in the bucket
    call,      \* per call: next statement, bot, day it works on, polls left, day served
    batches,   \* history: batches asked of Replicate, by bot and day
    checked,   \* history: per generator at work, the day whose budget it checked
    peak,      \* history: the most generators at work on a day's budget at once
    unsure     \* history: a check read another day's sum than its row's, or none

vars == <<day, row, quota, kept, call, batches, checked, peak, unsure>>
genVars == <<batches, checked, peak, unsure>>

States == {"none", "reserved", "succeeded", "failed"}
Ended == {"ready", "unserved"}
Steps == {"new", "look", "reserve", "budget", "generate", "mirror", "complete", "fail",
          "fallback", "poll"}
NoCall == [pc |-> "new", bot |-> NoBot, day |-> NoDay, polls |-> 0, served |-> NoDay]

TypeOK ==
    /\ day \in Days
    /\ row \in [Bots -> [Days -> States]]
    /\ quota \subseteq Users \X Bots \X Days
    /\ kept \subseteq Bots \X Days
    /\ call \in [Calls -> [pc: Steps \cup Ended, bot: Bots \cup {NoBot}, day: Days \cup {NoDay},
                           polls: 0..Polls, served: Days \cup {NoDay}]]
    /\ batches \in [Bots -> [Days -> 0..Cardinality(Calls)]]
    /\ checked \in [Calls -> Days \cup {NoDay}] /\ unsure \in BOOLEAN
    /\ peak \in [Days -> 0..Cardinality(Calls)]

Init ==
    /\ day = 1
    /\ row = [b \in Bots |-> [d \in Days |-> "none"]]
    /\ quota = {} /\ kept = {}
    /\ call = [c \in Calls |-> NoCall]
    /\ batches = [b \in Bots |-> [d \in Days |-> 0]]
    /\ checked = [c \in Calls |-> NoDay] /\ peak = [d \in Days |-> 0] /\ unsure = FALSE

At(c, step) == call[c].pc = step
Goto(c, step) == call' = [call EXCEPT ![c].pc = step]
Row(c) == row[call[c].bot][call[c].day]
SetRow(c, state) == row' = [row EXCEPT ![call[c].bot][call[c].day] = state]
Arrives(c) == At(c, "new") /\ \A d \in Calls: d < c => ~At(d, "new")

\* The answer: the collage of a day, or none (429, 202, 502, 503, a lost
\* connection); only the first kind is remembered.
Serve(c, d) == call' = [call EXCEPT ![c].pc = "ready", ![c].served = d, ![c].polls = 0]
Unserved(c) == call' = [call EXCEPT ![c] = [NoCall EXCEPT !.pc = "unserved"]]

-----------------------------------------------------------------------------
(* orchestrate *)

Enter(c, b) == call' = [call EXCEPT ![c] = [NoCall EXCEPT !.pc = "look", !.bot = b, !.day = day]]

\* A user taps Request Images: the insert of the quota row decides whether it is
\* the first time today, 429 otherwise.
Request(c, u, b) ==
    /\ Arrives(c)
    /\ quota' = quota \cup {<<u, b, day>>}
    /\ IF <<u, b, day>> \in quota THEN Unserved(c) ELSE Enter(c, b)
    /\ UNCHANGED <<day, row, kept, genVars>>

\* The nightly pass of some process comes to a bot, and leaves it alone when
\* today's collage is there.
Pregen(c, b) ==
    /\ Arrives(c)
    /\ IF row[b][day] = "succeeded" THEN Unserved(c) ELSE Enter(c, b)
    /\ UNCHANGED <<day, row, quota, kept, genVars>>

StartPolling(c) == call' = [call EXCEPT ![c].pc = "poll", ![c].polls = Polls]

\* What today's row says.
Look(c) ==
    /\ At(c, "look")
    /\ \/ Row(c) = "none" /\ Goto(c, "reserve")
       \/ Row(c) = "succeeded" /\ Serve(c, call[c].day)
       \/ Row(c) = "failed" /\ Goto(c, "fallback")
       \/ Row(c) = "reserved" /\ StartPolling(c)
    /\ UNCHANGED <<day, row, quota, kept, genVars>>

ReserveAgain(c) ==
    /\ At(c, "reserve")
    /\ SetRow(c, "reserved") /\ Goto(c, "budget")
    /\ UNCHANGED <<day, quota, kept, genVars>>
\* INSERT ... ON CONFLICT DO NOTHING elects the generator.
Reserve(c) ==
    /\ At(c, "reserve")
    /\ IF Row(c) = "none" THEN SetRow(c, "reserved") /\ Goto(c, "budget")
       ELSE StartPolling(c) /\ UNCHANGED row
    /\ UNCHANGED <<day, quota, kept, genVars>>

\* cost_usd is booked with the success; a batch that failed is not in the sum.
Spent(d) == Cardinality({b \in Bots: row[b][d] = "succeeded"})

UnderCap(d) == Spent(d) < HardCap

\* _check_budget sums the day it is now, not the day the row is for, and lets
\* the generator go on when the sum cannot be read.
Generators(d) == {c \in Calls: checked[c] = d}
CheckBudget(c) ==
    /\ At(c, "budget")
    /\ \E readable \in BOOLEAN:
        /\ unsure' = (unsure \/ ~readable \/ call[c].day # day)
        /\ IF ~readable \/ UnderCap(day)
           THEN /\ Goto(c, "generate")
                /\ checked' = [checked EXCEPT ![c] = day]
                /\ peak' = [peak EXCEPT ![day] = Max({@, Cardinality(Generators(day)) + 1})]
           ELSE Goto(c, "fail") /\ UNCHANGED <<checked, peak>>
    /\ UNCHANGED <<day, row, quota, kept, batches>>

\* generate_batch: all pictures, or fewer when Replicate refuses some.
Generate(c) ==
    /\ At(c, "generate")
    /\ batches' = [batches EXCEPT ![call[c].bot][call[c].day] = @ + 1]
    /\ \E next \in {"mirror", "fail"}: Goto(c, next)
    /\ UNCHANGED <<day, row, quota, kept, checked, peak, unsure>>

\* Every picture goes to the bucket (its blurred copy if possible), or the batch
\* is given up.
Mirror(c) ==
    /\ At(c, "mirror")
    /\ \/ kept' = kept \cup {<<call[c].bot, call[c].day>>} /\ Goto(c, "complete")
       \/ UNCHANGED kept /\ Goto(c, "fail")
    /\ UNCHANGED <<day, row, quota, genVars>>

\* The generator decides its row, if that is still reserved.
Decide(c, state) ==
    /\ SetRow(c, IF Row(c) = "reserved" THEN state ELSE Row(c))
    /\ checked' = [checked EXCEPT ![c] = NoDay]
    /\ UNCHANGED <<day, quota, kept, batches, peak, unsure>>
Complete(c) == At(c, "complete") /\ Decide(c, "succeeded") /\ Serve(c, call[c].day)
MarkFailed(c) == At(c, "fail") /\ Decide(c, "failed") /\ Goto(c, "fallback")

\* get_latest_succeeded: the newest success of the last days, by the database's date.
Recent(b) == {d \in Days: row[b][d] = "succeeded" /\ d >= day - Fallback}
ServeFallback(c) ==
    /\ At(c, "fallback")
    /\ LET days == Recent(call[c].bot) IN
        IF Fallback = 0 \/ days = {} THEN Unserved(c) ELSE Serve(c, Max(days))
    /\ UNCHANGED <<day, row, quota, kept, genVars>>

WaitOn(c) == call' = [call EXCEPT ![c].polls = @ - 1]
TimeUp(c) == call[c].polls = 0

\* _poll_for_winner: sleep, look, until the row is decided or the time is up.
Poll(c) ==
    /\ At(c, "poll")
    /\ IF TimeUp(c) THEN Unserved(c)
       ELSE \/ Row(c) = "succeeded" /\ Serve(c, call[c].day)
            \/ Row(c) = "failed" /\ Goto(c, "fallback")
            \/ Row(c) = "reserved" /\ WaitOn(c)
    /\ UNCHANGED <<day, row, quota, kept, genVars>>

-----------------------------------------------------------------------------
Running(c) == call[c].pc \in Steps \ {"new"}

\* The process dies, or a statement or a service raises: the row stays as it is.
Die(c) ==
    /\ Running(c)
    /\ Unserved(c)
    /\ checked' = [checked EXCEPT ![c] = NoDay]
    /\ UNCHANGED <<day, row, quota, kept, batches, peak, unsure>>

Midnight ==
    /\ day < MaxDay
    /\ day' = day + 1
    /\ UNCHANGED <<row, quota, kept, call, genVars>>

Step(c) ==
    \/ Look(c) \/ Reserve(c) \/ CheckBudget(c) \/ Generate(c) \/ Mirror(c) \/ Complete(c)
    \/ MarkFailed(c) \/ ServeFallback(c) \/ Poll(c)
Arrive(c) == \E b \in Bots: Pregen(c, b) \/ \E u \in Users: Request(c, u, b)
Next == Midnight \/ \E c \in Calls: Arrive(c) \/ Step(c) \/ Die(c)

Spec == Init /\ [][Next]_vars

-----------------------------------------------------------------------------
\* Whoever asks, in whatever process, and whoever dies: a batch, which costs
\* money, is asked for at most once per bot and day.
OneBatchPerDay == \A b \in Bots, d \in Days: batches[b][d] <= 1

\* What a request is given is a finished collage, every picture of it in our own
\* bucket (image_collage.py:323 "if we couldn't own the pixels, don't cache the
\* row"), and no older than the fallback allows.
ServedIsOwned ==
    \A c \in Calls: At(c, "ready") =>
        /\ row[call[c].bot][call[c].served] = "succeeded"
        /\ <<call[c].bot, call[c].served>> \in kept
        /\ call[c].served >= call[c].day - Fallback

\* image_collage.py:38 the generator checks the day's sum "BEFORE spending": what
\* a day books overruns the cap by no more than the generators that were at work
\* at once.  A reservation that crosses midnight is checked against the new day,
\* and a check that cannot read the sum passes.
OverrunBounded ==
    ~unsure => \A d \in Days: Spent(d) > 0 => Spent(d) <= HardCap - 1 + peak[d]

CollagesAreSound == TypeOK /\ OneBatchPerDay /\ ServedIsOwned /\ OverrunBounded

\* Nobody waits for ever, not for a generator that died either: again and again
\* every call that came has its answer.
AnswerComes == []<>(\A c \in Calls: ~Running(c))
=============================================================================
