------------------------------ MODULE MCEdits -------------------------------
(***************************************************************************)
(* What creators and operators do and are told: the Soul File, the wizard, *)
(* the life of a bot and its name, its labels, its video ideas and its     *)
(* place among the trending ones; the request limiter, the cost breaker,   *)
(* the alerts on cost and the daily mail.  The parts share no variable, so *)
(* a behaviour exercises one, chosen at the start, while the others rest.  *)
(*                                                                         *)
(* TLC takes the constants from the cfg of a run; CreatorProofs and        *)
(* OperatorProofs prove the same properties for all of their values.       *)
(***************************************************************************)
EXTENDS Integers, FiniteSets, TLC

CONSTANTS
    Parts,  \* the parts a run exercises
    Procs, Calls, Days,
    \* SoulFile
    Offered, Sessions, Sections,
    \* Wizard, Catalogue, Labels
    Questions, BotNames, Taken, Names, Creators, Bots, Overrides, Sweeps,
    \* Trending, VideoIdeas
    Requests, Ttl, Slow, LastTick, Writers, Batch,
    \* RateLimiter
    Reqs, Puts, Limits, Default, Minutes, Outages,
    \* Digest, CostAlerts
    Loops, Forces, Keep, Window, Delay, Restarts, MaxTime,
    \* CostBreaker
    LlmCalls, Streams, Users, UserOf, Patches, HourCap, UserCap, Hour, ConfigTtl, CostTtl,
    BreakerFaults

VARIABLES
    part,
    text, body, rules, variantB, prop, audited, handler, arg, view, found, written, manual,
    table, hash, inMin, inHour, req, boot, put, limiterRedis, minute, mixed, dark,
    answers, draft, committed, bots, wizard, revised, redrafted,
    rows, call, banned, raced,
    label, sweep, late, left,
    clock, listed, cached, request, served, changes,
    today, runs, run, woke, mailed, mails, excused,
    now, keys, proc, fired, crossed, restarts,
    ideas, writer, day, shared,
    config, copy, ttl, hourly, age, booked, spent, since, check, patch, redisUp,
    still, on, over, under

soulVars == <<text, body, rules, variantB, prop, audited, handler, arg, view, found, written,
              manual>>
limiterVars == <<table, hash, inMin, inHour, req, boot, put, limiterRedis, minute, mixed, dark>>
wizardVars == <<answers, draft, committed, bots, wizard, revised, redrafted>>
catalogueVars == <<rows, call, banned, raced>>
labelVars == <<label, sweep, late, left>>
trendingVars == <<clock, listed, cached, request, served, changes>>
digestVars == <<today, runs, run, woke, mailed, mails, excused>>
alertVars == <<now, keys, proc, fired, crossed, restarts>>
ideaVars == <<ideas, writer, day, shared>>
breakerVars == <<config, copy, ttl, hourly, age, booked, spent, since, check, patch,
                 redisUp, still, on, over, under>>
editVars == <<part, soulVars, limiterVars, wizardVars, catalogueVars, labelVars, trendingVars,
              digestVars, alertVars, ideaVars, breakerVars>>

Editing == INSTANCE SoulFile WITH pc <- handler
Creation == INSTANCE Wizard WITH Names <- BotNames, call <- wizard
Registry == INSTANCE Catalogue
Sorting == INSTANCE Labels
Popular == INSTANCE Trending WITH MaxTime <- LastTick, now <- clock
Prompts == INSTANCE VideoIdeas WITH today <- day, mixed <- shared
Limiter == INSTANCE RateLimiter WITH redis <- limiterRedis
Mailing == INSTANCE Digest WITH rows <- mailed
Spending == INSTANCE CostAlerts
Breaker == INSTANCE CostBreaker WITH
    Calls <- LlmCalls, Faults <- BreakerFaults,
    table <- config, hash <- copy, call <- check, redis <- redisUp

\* Values a cfg cannot write: two bots, newest first; one user; a request a minute and two
\* an hour; windows of the alerts whose ends meet and do not meet.
TwoBots == <<"newer", "older">>
OneUser == [c \in LlmCalls |-> "user"]
LowLimits == ("min" :> 1) @@ ("hour" :> 2)
UnevenWindows == ("hourly_gemini" :> 3) @@ ("async_errors" :> 2)

AllParts == {"soul", "limiter", "wizard", "catalogue", "labels", "trending", "digest", "alerts",
             "ideas", "breaker"}

ASSUME EditAssumption ==
    /\ Parts \subseteq AllParts
    /\ Editing!SoulFileAssumption /\ Limiter!LimiterAssumption /\ Creation!WizardAssumption
    /\ Registry!CatalogueAssumption /\ Sorting!LabelsAssumption
    /\ Popular!TrendingAssumption /\ Mailing!DigestAssumption /\ Spending!AlertsAssumption
    /\ Prompts!IdeasAssumption /\ Breaker!BreakerAssumption

\* A part that rests has one initial state.
FirstCards == \A c \in Offered: prop[c].lane = "text"
FlatText == \A s \in Sections: body[s] = Editing!Original
EditInit ==
    /\ part \in Parts /\ Limiter!Init
    /\ Editing!Init /\ (part # "soul" => FlatText /\ FirstCards)
    /\ Creation!Init /\ Registry!Init /\ Sorting!Init /\ Popular!Init /\ Mailing!Init
    /\ Spending!Init /\ Prompts!Init
    /\ Breaker!Init /\ (part # "breaker" => config = Breaker!Defaults)

InSoul ==
    /\ part = "soul" /\ Editing!Next
    /\ UNCHANGED <<part, limiterVars, wizardVars, catalogueVars, labelVars, trendingVars,
                   digestVars, alertVars, ideaVars, breakerVars>>
InLimiter ==
    /\ part = "limiter" /\ Limiter!Next
    /\ UNCHANGED <<part, soulVars, wizardVars, catalogueVars, labelVars, trendingVars, digestVars,
                   alertVars, ideaVars, breakerVars>>
InWizard ==
    /\ part = "wizard" /\ Creation!Next
    /\ UNCHANGED <<part, soulVars, limiterVars, catalogueVars, labelVars, trendingVars, digestVars,
                   alertVars, ideaVars, breakerVars>>
InCatalogue ==
    /\ part = "catalogue" /\ Registry!Next
    /\ UNCHANGED <<part, soulVars, limiterVars, wizardVars, labelVars, trendingVars, digestVars,
                   alertVars, ideaVars, breakerVars>>
InLabels ==
    /\ part = "labels" /\ Sorting!Next
    /\ UNCHANGED <<part, soulVars, limiterVars, wizardVars, catalogueVars, trendingVars, digestVars,
                   alertVars, ideaVars, breakerVars>>
InTrending ==
    /\ part = "trending" /\ Popular!Next
    /\ UNCHANGED <<part, soulVars, limiterVars, wizardVars, catalogueVars, labelVars, digestVars,
                   alertVars, ideaVars, breakerVars>>
InDigest ==
    /\ part = "digest" /\ Mailing!Next
    /\ UNCHANGED <<part, soulVars, limiterVars, wizardVars, catalogueVars, labelVars, trendingVars,
                   alertVars, ideaVars, breakerVars>>
InAlerts ==
    /\ part = "alerts" /\ Spending!Next
    /\ UNCHANGED <<part, soulVars, limiterVars, wizardVars, catalogueVars, labelVars, trendingVars,
                   digestVars, ideaVars, breakerVars>>
InIdeas ==
    /\ part = "ideas" /\ Prompts!Next
    /\ UNCHANGED <<part, soulVars, limiterVars, wizardVars, catalogueVars, labelVars, trendingVars,
                   digestVars, alertVars, breakerVars>>
InBreaker ==
    /\ part = "breaker" /\ Breaker!Next
    /\ UNCHANGED <<part, soulVars, limiterVars, wizardVars, catalogueVars, labelVars, trendingVars,
                   digestVars, alertVars, ideaVars>>

EditNext ==
    \/ InSoul \/ InLimiter \/ InWizard \/ InCatalogue \/ InLabels \/ InTrending \/ InDigest
    \/ InAlerts \/ InIdeas \/ InBreaker
EditSpec == EditInit /\ [][EditNext]_editVars

-----------------------------------------------------------------------------
(* The properties of the parts under names a cfg can list; each is stated  *)
(* and explained in its own module.  A part that rests satisfies its own.  *)

\* The types of the part that is running.
EditTypeOK ==
    CASE part = "soul" -> Editing!TypeOK
      [] part = "limiter" -> Limiter!TypeOK
      [] part = "wizard" -> Creation!TypeOK
      [] part = "catalogue" -> Registry!TypeOK
      [] part = "labels" -> Sorting!TypeOK
      [] part = "trending" -> Popular!TypeOK
      [] part = "digest" -> Mailing!TypeOK
      [] part = "alerts" -> Spending!TypeOK
      [] part = "ideas" -> Prompts!TypeOK
      [] part = "breaker" -> Breaker!TypeOK
\* SoulFile: what a bot has is in the history; an applied card is true.
ChangesAreAudited == Editing!ChangesAreAudited
\* SoulFile: an applied card stays applied.
AppliedStays == Editing!AppliedStays
\* SoulFile: a session offers one proposal at a time.
OneOffer == Editing!OneOffer
\* RateLimiter: no window serves more than its limit, and limits written one after the
\* other are in force.  CostBreaker: without edits the table is in force.
LimitsHold == Limiter!LimitsHold /\ Breaker!ConfigSettles
\* CostBreaker: calls are let through and blocked as the hour would have it.
VerdictMatchesSpend == Breaker!VerdictMatchesSpend
\* CostBreaker: a user over the daily cap is stopped.
SpenderIsStopped == Breaker!SpenderIsStopped
\* Wizard: one bot for a session, of all its answers.
WizardIsSound == Creation!WizardIsSound
\* Catalogue: names are held by one bot, and refused for a reason.
CatalogueIsSound == Registry!CatalogueIsSound
\* Trending: a change of the catalogue shows in time.
ChangesShow == Popular!ChangesShow
\* Digest, CostAlerts: operators are told once.
OperatorsToldOnce == Mailing!OneMailADay /\ Spending!OncePerWindow
\* VideoIdeas: a date has one batch.
BatchIsOne == Prompts!BatchIsOne
\* Labels, VideoIdeas: what an admin has set stays, and a used idea stays used.
MarksStay == Sorting!OverrideStays /\ Prompts!UsedStaysUsed
=============================================================================
