----------------------------- MODULE FeedScores -----------------------------
(***************************************************************************)
(* compute_scores of app/services/discovery/feed_ranker.py in whole        *)
(* numbers.  A percentile, a ratio or an age is a share out of Unit, and a *)
(* score counts in weights of a thousandth.  signals maps each bot to what *)
(* the queries returned of it; Absent stands for a row they did not find.  *)
(***************************************************************************)
EXTENDS Integers, FiniteSets, FiniteSetsExt

CONSTANT Unit  \* a multiple of every denominator that occurs

ScoresAssumption == Unit \in Nat \ {0}

Absent == -1
Default(value, otherwise) == IF value = Absent THEN otherwise ELSE value

\* _fetch_signals merges the queries.  Quality counts in tenths: no score reads as 0.5
\* (and so does a score of 0, which the judge never gives).
NoScore == 5
MergedQuality(quality) == IF quality \in {Absent, 0} THEN NoScore ELSE quality
Merge(found) ==
    [b \in DOMAIN found |->
        [found[b] EXCEPT !.recent = Default(@, 0), !.prior = Default(@, 0),
                         !.quality = MergedQuality(@), !.streak = Default(@, 0),
                         !.users = Default(@, 0)]]

\* _rank_percentile: the place of a value among the distinct ones.
Percentile(values, v) ==
    LET places == Cardinality(values) - 1
    IN  IF places <= 0 THEN Unit \div 2
        ELSE (Cardinality({w \in values : w < v}) * Unit) \div places

\* _compute_momentum: this week against the last, at most doubled.
Momentum(recent, prior) ==
    IF prior = 0 THEN IF recent = 0 THEN 0 ELSE Unit
    ELSE Min({(recent * Unit) \div prior, 2 * Unit}) \div 2

AtLeastOne(n) == IF n >= 1 THEN n ELSE 1
Depth(row) == (row.messages * Unit) \div AtLeastOne(row.conversations)
Newness(rows, b) ==
    LET maxAge == AtLeastOne(Max({rows[x].age : x \in DOMAIN rows}))
    IN  Unit - (rows[b].age * Unit) \div maxAge

Blend(popularity, depth, quality, streak, newness, momentum, underexposure) ==
    LET engagement == 40 * popularity + 250 * depth + 200 * quality + 150 * streak
        discovery == 450 * newness + 300 * momentum + 150 * underexposure + 100 * quality
    IN  engagement + discovery

\* Twice the code's score: both halves of the blend weigh the same.
Score(found, b) ==
    LET rows == Merge(found)
        Place(signal(_)) == Percentile({signal(rows[x]) : x \in DOMAIN rows}, signal(rows[b]))
        messages == Place(LAMBDA row : row.messages)
        popularity == 4 * Place(LAMBDA row : row.conversations) + 4 * messages
                        + 2 * Place(LAMBDA row : row.users)
    IN  Blend(popularity, Place(Depth), Place(LAMBDA row : row.quality),
              Place(LAMBDA row : row.streak), Newness(rows, b),
              Momentum(rows[b].recent, rows[b].prior), Unit - messages)
-----------------------------------------------------------------------------
(* Properties, of every table of signals.                                  *)

\* As good as another bot in all that should count, and as well exposed: being new
\* counts for the bot, and so do its momentum and what its users make of it.
AsGood(found, b, c) ==
    /\ found[b].conversations = found[c].conversations
    /\ found[b].messages >= found[c].messages /\ found[b].users >= found[c].users
    /\ found[b].streak >= found[c].streak /\ found[b].age <= found[c].age
    /\ found[b].recent >= found[c].recent /\ found[b].prior <= found[c].prior
    /\ \/ Absent \notin {found[b].quality, found[c].quality} /\ found[b].quality >= found[c].quality
       \/ found[b].quality = found[c].quality

\* feed_ranker.py:93 "weights (locked from design)": although being read a lot also
\* counts against a bot (underexposure), more messages never push it down, and
\* neither does anything else that is better about it.
BetterIsNotBelow(found) ==
    \A b, c \in DOMAIN found : AsGood(found, b, c) => Score(found, b) >= Score(found, c)

\* feed_ranker.py "_rank_percentile ... to [0, 1]": a score is a share as well.
ScoresAreShares(found) == \A b \in DOMAIN found : Score(found, b) \in 0..2000 * Unit
=============================================================================
