------------------------------- MODULE MCLoops -------------------------------
(***************************************************************************)
(* The background loops of the application: the engagement loop, the sweep *)
(* that ends takeovers, the feed ranker and the feed it serves.  The parts *)
(* share no variable, so a behaviour exercises one of them, chosen at the  *)
(* start, while the others rest.                                           *)
(*                                                                         *)
(* TLC takes the constants from Engagement_all.cfg; LoopsProofs proves the *)
(* same properties for all of their values.                                *)
(***************************************************************************)
EXTENDS Chat

CONSTANTS
    \* Engagement
    Loops, Editors, Gates, NudgeSoon, NudgeLater, NudgeUntil, Day, Week, Base, MaxCount,
    \* Feed
    Bots, Newest, Order, Rankings, Requests, Rankers, Limit, SoftLimit, Changes, Faults,
    SkillTopN, PrefixLen, MaxDominant,
    \* FeedScores
    Unit,
    \* The names TLC gives the values below
    newest, middle, oldest

VARIABLES
    part,
    open, freq, idle, count, last, proactives, nudges, welcomes, late,
    skill, due, since, slipped, step, seen, edit,
    active, pins, blob, marked, rank, req, client, shown, skipped, repeated, excused, budget,
    sample  \* the order and scores parts: a case of the operators of the feed

takeoverVars == vars
engagementVars == <<open, freq, idle, count, last, proactives, nudges, welcomes, late,
                    skill, due, since, slipped, step, seen, edit>>
feedVars == <<active, pins, blob, marked, rank, req, client, shown, skipped, repeated, excused,
              budget>>
loopsVars == <<part, takeoverVars, engagementVars, feedVars, sample>>

Proactive == INSTANCE Engagement WITH pc <- step
Feed == INSTANCE Feed WITH seen <- marked
Scores == INSTANCE FeedScores

\* Values a cfg cannot write: three bots, whose ranking reverses their age.
ByAge == <<newest, middle, oldest>>
Shuffled == <<middle, oldest, newest>>
ByScore == {<<oldest, newest, middle>>}

ASSUME LoopsAssumption ==
    /\ Proactive!EngagementAssumption /\ Feed!FeedAssumption /\ Scores!ScoresAssumption

\* Four bots in one order, some of whose rows may have gone; and two bots with any
\* signals against a third.
Four == <<1, 2, 3, 4>>
Metas ==
    LET Trait == [skilled: BOOLEAN, archetype: {1, 2}, gender: {"f", "m", Feed!Unknown}]
        Labelled == [skilled: BOOLEAN, archetype: {1, 2}, gender: {"f", "m"}]
    IN  [{1, 2, 4} -> Trait] \cup [{2, 3} -> Trait] \cup [{} -> Trait] \cup [1..4 -> Labelled]
Signals == [conversations: {1}, messages: {2, 4}, users: {Scores!Absent, 1}, streak: {0},
            age: {0, 2}, recent: {0, 2}, prior: {Scores!Absent, 2}, quality: {Scores!Absent, 5, 8}]
Third == [conversations |-> 2, messages |-> 2, users |-> 1, streak |-> 3, age |-> 4,
          recent |-> 1, prior |-> 1, quality |-> 7]
NoSample == << >>
Samples ==
    CASE part = "order" -> [meta: Metas, cold: BOOLEAN]
      [] part = "scores" -> {<<a, b, Third>> : a, b \in Signals}
      [] OTHER -> {NoSample}

\* A part that rests starts in one state.
LoopsInit ==
    /\ part \in {"engagement", "takeover", "feed", "order", "scores"}
    /\ Init /\ Proactive!Init /\ Feed!Init
    /\ part # "feed" => client.pages /\ active = Bots
    /\ sample \in Samples

InEngagement(move) ==
    /\ part = "engagement" /\ move
    /\ UNCHANGED <<part, sample, takeoverVars, feedVars>>
InTakeover(move) ==
    /\ part = "takeover" /\ move
    /\ UNCHANGED <<part, sample, engagementVars, feedVars>>
InFeed(move) ==
    /\ part = "feed" /\ move
    /\ UNCHANGED <<part, sample, takeoverVars, engagementVars>>
LoopsNext ==
    \/ InEngagement(Proactive!Next) \/ InTakeover(Next) \/ InFeed(Feed!Next)

\* Every loop is `while True` with every exception caught, and time passes; a session
\* that refreshes its feed goes on asking.  A step of theirs moves a clock or a pc.
clocks == <<idle, due, since, now, rank>>
places == <<step, pc, req>>
LoopsSpec ==
    /\ LoopsInit /\ [][LoopsNext]_loopsVars
    /\ WF_clocks(\/ InEngagement(Proactive!Tick) \/ InTakeover(Tick)
                 \/ \E r \in Rankers: InFeed(Feed!RankStep(r)))
    /\ WF_places(\/ \E l \in Loops: InEngagement(Proactive!LoopStep(l))
                 \/ \E w \in Sweepers: InTakeover(Sweep(w))
                 \/ \E r \in Requests: InFeed(Feed!Serve(r)))

-----------------------------------------------------------------------------
(* The properties of the parts under names a cfg can list; each is stated  *)
(* and explained in its own module.                                        *)

\* The types of the part that is running.
LoopsTypeOK ==
    CASE part = "engagement" -> Proactive!TypeOK
      [] part = "takeover" -> TypeOK
      [] part = "feed" -> Feed!TypeOK
      [] OTHER -> part \in {"order", "scores"}
\* Engagement: caps on unanswered messages, silence after "off", the cadence of check-ins.
CapsKept == Proactive!CapsKept
OffIsObeyed == Proactive!OffIsObeyed
CheckinsApart == Proactive!CheckinsApart
\* What the loops owe they do in the end: a scheduled check-in comes up (Engagement,
\* CheckinOwed), a takeover whose creator falls silent ends by itself (main.py:291), a
\* session that goes on refreshing is shown every bot (Feed, AllShown).
Owed ==
    \/ part = "engagement" /\ Proactive!CheckinOwed
    \/ part = "takeover" /\ takeover
    \/ part = "feed" /\ ~client.pages
Done ==
    \/ part = "engagement" /\ Proactive!CheckinComesUp
    \/ part = "takeover" /\ ~takeover
    \/ part = "feed" /\ Feed!AllShown
LoopsDeliver == Owed ~> Done
\* Feed: nothing is shown twice, and what is marked as seen was offered.
NothingShownTwice == Feed!NothingShownTwice /\ Feed!SeenWasOffered
\* FeedComposer, FeedScores: the order is mixed as promised, better bots are not below.
FeedIsFair ==
    /\ part = "order" =>
        Feed!FeedIsMixed(Four, sample.meta, sample.cold,
                              Feed!Compose(Four, sample.meta, sample.cold))
    /\ part = "scores" => Scores!BetterIsNotBelow(sample) /\ Scores!ScoresAreShares(sample)
=============================================================================
