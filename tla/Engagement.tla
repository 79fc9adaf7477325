----------------------------- MODULE Engagement -----------------------------
(***************************************************************************)
(* Bot-initiated messages in one conversation: the engagement loop         *)
(* (app/main.py _engagement_loop with proactive.py, nudge.py) sends        *)
(* welcome-backs, skill check-ins and nudges, while the user replies, sets *)
(* how often the bot may write first, pauses and resumes the skill, and    *)
(* deletes the conversation.                                               *)
(*                                                                         *)
(* A step of a loop is one SQL statement or one model call.  Ages are in   *)
(* ticks of a compressed clock that keeps the order of the code's          *)
(* thresholds.                                                             *)
(***************************************************************************)
EXTENDS Integers, FiniteSets

CONSTANTS
    Loops,      \* processes that run _engagement_loop
    Editors,    \* calls of patch_preferences with new preferences
    Gates,      \* engagement systems the kill-switches leave on
    NudgeSoon, NudgeLater, NudgeUntil,  \* 5, 10 and 30 minutes
    Day, Week,  \* 24 and 168 hours
    Base,       \* default_cadence_hours
    MaxCount    \* bound: messages are counted up to here, more look the same

Systems == {"proactive", "skill_proactive", "nudge"}
ProactiveCap == 3
NudgeCap == 1

\* What the constants must satisfy.
EngagementAssumption ==
    /\ Gates \subseteq Systems
    /\ {NudgeSoon, NudgeLater, NudgeUntil, Day, Week, Base} \subseteq Nat
    /\ NudgeSoon < NudgeLater /\ NudgeLater < NudgeUntil /\ NudgeUntil <= Day
    /\ 3 * Day <= Week /\ 0 < Base /\ Base <= Week
    /\ MaxCount \in Nat /\ MaxCount > 4

VARIABLES
    open,       \* the conversation exists
    freq,       \* proactive_frequency ("default" and "daily" are one)
    idle,       \* age of updated_at, which every message refreshes
    count,      \* messages in the conversation
    last,       \* role of the last one
    proactives, \* is_proactive messages since the last user message
    nudges,     \* is_nudge messages since the last user message
    skill,      \* status of the user_skill_state row, NoRow when there is none
    due,        \* time until next_event_at, NoDue when it is null
    pc,         \* per loop: its next step
    seen,       \* per loop: the unanswered count it read
    edit,       \* per editor: the status it read, Idle when it is not under way
    welcomes,   \* history: welcome-backs since the last user message
    late,       \* history: welcome-backs since proactive_frequency was set off
    since,      \* history: time since the last skill check-in, up to Base
    slipped     \* history: after the last check-in the schedule was not advanced

convVars == <<open, freq, idle, count, last, proactives, nudges, welcomes, late>>
skillVars == <<skill, due, since, slipped>>
loopVars == <<pc, seen>>
vars == <<convVars, skillVars, loopVars, edit>>

NoRow == "no_row"
NoDue == -1
Idle == "idle"
Statuses == {"active", "paused", "onboarding_partial"}
Freqs == {"daily", "weekly", "off"}
Checkin == {"checkin_open", "checkin_think", "checkin_insert", "checkin_count", "checkin_mark"}
Steps == Checkin \cup {"rest", "welcome_count", "welcome_think", "welcome_insert", "skill",
          "nudge", "nudge_check", "nudge_think", "nudge_insert"}

TypeOK ==
    /\ open \in BOOLEAN /\ freq \in Freqs
    /\ idle \in 0..(Week + 1) /\ count \in 0..MaxCount /\ last \in {"user", "assistant"}
    /\ proactives \in 0..MaxCount /\ nudges \in 0..MaxCount /\ welcomes \in 0..proactives
    /\ late \in 0..MaxCount
    /\ skill \in Statuses \cup {NoRow} /\ due \in NoDue..Week
    /\ skill = NoRow => due = NoDue
    /\ since \in 0..Base /\ slipped \in BOOLEAN
    /\ pc \in [Loops -> Steps] /\ seen \in [Loops -> 0..MaxCount]
    /\ edit \in [Editors -> Statuses \cup {Idle}]

\* A conversation right after create_conversation: the greeting.
Init ==
    /\ open = TRUE /\ freq = "daily" /\ idle = 0 /\ count = 1 /\ last = "assistant"
    /\ proactives = 0 /\ nudges = 0 /\ welcomes = 0 /\ late = 0
    /\ skill = NoRow /\ due = NoDue /\ since = Base /\ slipped = FALSE
    /\ pc = [l \in Loops |-> "rest"] /\ seen = [l \in Loops |-> 0]
    /\ edit = [e \in Editors |-> Idle]

Least(a, b) == IF a < b THEN a ELSE b
More(n) == Least(n + 1, MaxCount)
Goto(l, step) == pc' = [pc EXCEPT ![l] = step]

\* A message of the bot; the insert fails when the conversation is gone.
BotMessage ==
    /\ idle' = 0 /\ count' = More(count) /\ last' = "assistant"
    /\ UNCHANGED <<open, freq>>

-----------------------------------------------------------------------------
(* Welcome-backs: the 24 h check-in *)

\* find_inactive_conversations.  The NOT EXISTS over proactive_messages is
\* always true: nothing writes that table.
InactiveAlways ==
    /\ open
    /\ idle > (IF freq = "weekly" THEN Week ELSE Day) /\ idle < 3 * Day
Inactive ==
    /\ open /\ freq # "off"
    /\ idle > (IF freq = "weekly" THEN Week ELSE Day) /\ idle < 3 * Day

Scan(l) ==
    /\ pc[l] = "rest"
    /\ Goto(l, IF "proactive" \in Gates /\ Inactive THEN "welcome_count" ELSE "skill")
    /\ UNCHANGED <<convVars, skillVars, seen, edit>>

\* count_unanswered_proactive against PROACTIVE_CAP_WITHOUT_REPLY.
CapReached == proactives >= ProactiveCap

WelcomeCount(l) ==
    /\ pc[l] = "welcome_count"
    /\ Goto(l, IF CapReached THEN "skill" ELSE "welcome_think")
    /\ UNCHANGED <<convVars, skillVars, seen, edit>>

\* The model answers.
Answer(l, from, sent) == pc[l] = from /\ Goto(l, sent) /\ UNCHANGED <<convVars, skillVars, seen, edit>>
WelcomeThink(l) == Answer(l, "welcome_think", "welcome_insert")

WelcomeInsert(l) ==
    /\ pc[l] = "welcome_insert"
    /\ IF open
       THEN /\ BotMessage /\ proactives' = More(proactives) /\ welcomes' = More(welcomes)
            /\ late' = IF freq = "off" THEN More(late) ELSE late
            /\ UNCHANGED nudges
       ELSE UNCHANGED convVars
    /\ Goto(l, "skill")
    /\ UNCHANGED <<skillVars, seen, edit>>

-----------------------------------------------------------------------------
(* Skill check-ins *)

\* skill_state_repo.list_due.
DueNow == skill = "active" /\ due = 0

ListDue(l) ==
    /\ pc[l] = "skill"
    /\ Goto(l, IF "skill_proactive" \in Gates /\ DueNow THEN "checkin_open" ELSE "nudge")
    /\ UNCHANGED <<convVars, skillVars, seen, edit>>

\* get_existing: without a conversation the schedule still advances.
CheckinOpen(l) ==
    /\ pc[l] = "checkin_open"
    /\ Goto(l, IF open THEN "checkin_think" ELSE "nudge")
    /\ due' = IF open THEN due ELSE Base
    /\ UNCHANGED <<convVars, skill, since, slipped, seen, edit>>

CheckinThink(l) == Answer(l, "checkin_think", "checkin_insert")

CheckinInsert(l) ==
    /\ pc[l] = "checkin_insert"
    /\ IF open
       THEN /\ BotMessage /\ proactives' = More(proactives)
            /\ since' = 0 /\ slipped' = FALSE
            /\ Goto(l, "checkin_count")
            /\ UNCHANGED <<nudges, welcomes, late>>
       ELSE UNCHANGED <<convVars, since, slipped>> /\ Goto(l, "nudge")
    /\ UNCHANGED <<skill, due, seen, edit>>

CheckinCount(l) ==
    /\ pc[l] = "checkin_count"
    /\ seen' = [seen EXCEPT ![l] = proactives]
    /\ Goto(l, "checkin_mark")
    /\ UNCHANGED <<convVars, skillVars, edit>>

\* The multiplier 1 << n.
Doubled[n \in Nat] == IF n = 0 THEN 1 ELSE 2 * Doubled[n - 1]

\* _backoff_cadence: doubled for every unanswered message after the first, up to
\* a week.
BackoffNone(n) == 0
BackoffUncapped(n) == Base * Doubled[n]
Backoff(n) == IF n <= 1 THEN Base ELSE Least(Base * Doubled[n - 1], Week)

\* mark_event_fired.
CheckinMark(l) ==
    /\ pc[l] = "checkin_mark"
    /\ due' = Backoff(seen[l])
    /\ seen' = [seen EXCEPT ![l] = 0]
    /\ Goto(l, "nudge")
    /\ UNCHANGED <<convVars, skill, since, slipped, edit>>

-----------------------------------------------------------------------------
(* Nudges *)

ListRecent(l) ==
    /\ pc[l] = "nudge"
    /\ Goto(l, IF "nudge" \in Gates /\ open /\ NudgeSoon < idle /\ idle < NudgeUntil
               THEN "nudge_check" ELSE "rest")
    /\ UNCHANGED <<convVars, skillVars, seen, edit>>

\* should_nudge; its three reads count as one.
NudgedOutLate == nudges > NudgeCap
NudgedOut == nudges >= NudgeCap
ShouldNudge ==
    /\ count \in 1..4 /\ last = "assistant" /\ ~NudgedOut
    /\ idle > (IF count <= 2 THEN NudgeSoon ELSE NudgeLater)

NudgeCheck(l) ==
    /\ pc[l] = "nudge_check"
    /\ Goto(l, IF ShouldNudge THEN "nudge_think" ELSE "rest")
    /\ UNCHANGED <<convVars, skillVars, seen, edit>>

NudgeThink(l) == Answer(l, "nudge_think", "nudge_insert")

NudgeInsert(l) ==
    /\ pc[l] = "nudge_insert"
    /\ IF open THEN BotMessage /\ nudges' = More(nudges) /\ UNCHANGED <<proactives, welcomes, late>>
               ELSE UNCHANGED convVars
    /\ Goto(l, "rest")
    /\ UNCHANGED <<skillVars, seen, edit>>

\* A statement raises, or the model sends nothing usable: what was to be sent is
\* logged and skipped.  A check-in already stored leaves the row due.
Fails(l) ==
    /\ Goto(l, CASE pc[l] \in {"welcome_count", "welcome_think", "welcome_insert"} -> "skill"
                 [] pc[l] \in Checkin -> "nudge"
                 [] pc[l] \in {"nudge_check", "nudge_think", "nudge_insert"} -> "rest")
    /\ slipped' = (slipped \/ pc[l] \in {"checkin_count", "checkin_mark"})
    /\ seen' = [seen EXCEPT ![l] = 0]
    /\ UNCHANGED <<convVars, skill, due, since, edit>>

-----------------------------------------------------------------------------
(* The user *)

\* A message of the user answers everything the bot sent unasked.
UserMessage ==
    /\ open
    /\ idle' = 0 /\ count' = More(count) /\ last' = "user"
    /\ proactives' = 0 /\ nudges' = 0 /\ welcomes' = 0
    /\ UNCHANGED <<open, freq, late, skillVars, loopVars, edit>>

BotReply ==
    /\ open /\ last = "user" /\ BotMessage
    /\ UNCHANGED <<proactives, nudges, welcomes, late, skillVars, loopVars, edit>>

\* _persist_parsed_skill_state on the first turns: complete, or lacking required
\* answers and then without a schedule.
Onboard ==
    /\ open /\ last = "user" /\ skill = NoRow
    /\ \/ skill' = "active" /\ due' = Base
       \/ skill' = "onboarding_partial" /\ UNCHANGED due
    /\ UNCHANGED <<convVars, since, slipped, loopVars, edit>>

SetFrequency(f) ==
    /\ open /\ freq # f
    /\ freq' = f /\ late' = 0
    /\ UNCHANGED <<open, idle, count, last, proactives, nudges, welcomes, skillVars, loopVars, edit>>

\* patch_preferences with a status.  Resuming leaves next_event_at as it was.
SetStatus(s) ==
    /\ skill # NoRow /\ s \in {"active", "paused"} /\ skill # s
    /\ skill' = s
    /\ UNCHANGED <<convVars, due, since, slipped, loopVars, edit>>

\* patch_preferences with preferences: the upsert writes the status read before.
EditRead(e) ==
    /\ edit[e] = Idle /\ skill # NoRow
    /\ edit' = [edit EXCEPT ![e] = skill]
    /\ UNCHANGED <<convVars, skillVars, loopVars>>
EditWrite(e) ==
    /\ edit[e] \in Statuses
    /\ skill' = edit[e] /\ edit' = [edit EXCEPT ![e] = Idle]
    /\ UNCHANGED <<convVars, due, since, slipped, loopVars>>

\* delete_conversation; the skill row stays.
Delete ==
    /\ open
    /\ open' = FALSE /\ idle' = 0 /\ count' = 0 /\ last' = "assistant"
    /\ proactives' = 0 /\ nudges' = 0 /\ welcomes' = 0 /\ late' = 0 /\ freq' = "daily"
    /\ UNCHANGED <<skillVars, loopVars, edit>>

Tick ==
    /\ idle' = IF open THEN Least(idle + 1, Week + 1) ELSE idle
    /\ due' = IF due > 0 THEN due - 1 ELSE due
    /\ since' = Least(since + 1, Base)
    /\ UNCHANGED <<open, freq, count, last, proactives, nudges, welcomes, late, skill, slipped, loopVars, edit>>

LoopStep(l) ==
    \/ Scan(l) \/ WelcomeCount(l) \/ WelcomeThink(l) \/ WelcomeInsert(l)
    \/ ListDue(l) \/ CheckinOpen(l) \/ CheckinThink(l) \/ CheckinInsert(l)
    \/ CheckinCount(l) \/ CheckinMark(l)
    \/ ListRecent(l) \/ NudgeCheck(l) \/ NudgeThink(l) \/ NudgeInsert(l)
    \/ pc[l] \notin {"rest", "skill", "nudge"} /\ Fails(l)

Next ==
    \/ \E l \in Loops: LoopStep(l)
    \/ UserMessage \/ BotReply \/ Onboard
    \/ \E f \in Freqs: SetFrequency(f)
    \/ \E s \in Statuses: SetStatus(s)
    \/ \E e \in Editors: EditRead(e) \/ EditWrite(e)
    \/ Delete \/ Tick

Spec == Init /\ [][Next]_vars

\* The loop never ends (`while True`, every exception caught), and time passes.
FairSpec == Spec /\ WF_vars(Tick) /\ \A l \in Loops: WF_vars(LoopStep(l))

-----------------------------------------------------------------------------
(* Properties *)

\* message_repo.py:84 "enforce a 3-cap": a user who does not answer gets three
\* welcome-backs and no more, whatever else the bot sends in between.
WelcomesCapped == welcomes <= ProactiveCap

\* message_repo.py:75 "one try is plenty": one nudge, and no other until the
\* user writes.
NudgesCapped == nudges <= NudgeCap

\* Nobody who does not answer is written to without end.
CapsKept == WelcomesCapped /\ NudgesCapped

\* A user who turned proactive messages off gets at most the one whose
\* generation was under way.
OffIsObeyed == late <= 1

\* Two check-ins are at least the skill's cadence apart, unless the schedule
\* could not be advanced after the first.
CheckinsApart ==
    [][\A l \in Loops: CheckinInsert(l) /\ open /\ ~slipped => since = Base]_vars

\* proactive.py:47 "slow down - never hard-stop": a scheduled active skill comes
\* up for a check-in again and again, also for a user who never answers and
\* whatever failed before.
CheckinOwed == skill = "active" /\ due # NoDue /\ open
CheckinComesUp == skill # "active" \/ ~open \/ \E l \in Loops: pc[l] = "checkin_open"

\* proactive.py:283 "'weekly' -> 168h": a weekly conversation idle for more than
\* a week and not yet written to comes up for a welcome-back, unless the user
\* acts.
WeeklyIsServed ==
    open /\ freq = "weekly" /\ idle > Week /\ proactives = 0
        ~> \/ ~open \/ freq # "weekly" \/ idle <= Week
           \/ \E l \in Loops: pc[l] = "welcome_count"
=============================================================================
