------------------------------ MODULE MCSocial -------------------------------
(***************************************************************************)
(* What a user of the app meets: the chat, the inbox around it, what the   *)
(* bot remembers, the skills it runs, the streak of days, the sockets that *)
(* tell the phone, and the web sign-in.  The parts share no variable, so a *)
(* behaviour exercises one of them, chosen at the start, while the others  *)
(* rest.                                                                   *)
(*                                                                         *)
(* TLC takes the constants from Chat_all.cfg; ChatProofs and SocialProofs  *)
(* prove the same properties for all of their values.                      *)
(***************************************************************************)
EXTENDS Chat, TLC

CONSTANTS
    \* Inbox, Handoff
    Users, Bot, Owner, Opens, MaxMail, Mints, Exchanges, Ttl, LastTick,
    \* Memory, Recall
    Slots, Values, Near, Messages, MaxFacts, Passes, Facts, Searches, TopK, Depth, Repeat, Turns,
    \* Sockets, Streak
    Hosts, Phones, Events, Outages, Days,
    \* SkillSetup, SkillFilter
    Edits, Fields, Required, OpenTag, CloseTag, Other, MaxToken, MaxText

VARIABLES
    part,
    rows, mail, retired, opening, looked, crossed,
    facts, clock, task, pass, stale,
    used, turn, loss,
    conns, alive, redis, heard, sent, got, twice, outages,
    tickets, app, web, minted, redisClock,
    skill, setup, version, read, written,
    buffer, full, suppressed, shown, over,
    today, wrote, streak, scan, ran, overlap

chatVars == vars
inboxVars == <<rows, mail, retired, opening, looked, crossed>>
memoryVars == <<facts, clock, task, pass, stale>>
recallVars == <<used, turn, loss>>
socketVars == <<conns, alive, redis, heard, sent, got, twice, outages>>
handoffVars == <<tickets, app, web, minted, redisClock>>
setupVars == <<skill, setup, version, read, written>>
filterVars == <<buffer, full, suppressed, shown, over>>
streakVars == <<today, wrote, streak, scan, ran, overlap>>
socialVars == <<part, chatVars, inboxVars, memoryVars, recallVars, socketVars, handoffVars,
                setupVars, filterVars, streakVars>>

Mail == INSTANCE Inbox
FactMemory == INSTANCE Memory
Recitation == INSTANCE Recall
Net == INSTANCE Sockets WITH Procs <- Hosts
SignIn == INSTANCE Handoff WITH MaxTime <- LastTick, now <- redisClock
Skills == INSTANCE SkillSetup WITH Calls <- Edits, row <- skill, call <- setup
Markers == INSTANCE SkillFilter
Streaks == INSTANCE Streak WITH Procs <- Hosts, row <- streak, pass <- scan

\* Values a cfg cannot write.  A chain: biryani and cricket are both near pulao and far from
\* each other.  Three letters stand for the opening tag: none of them repeats the first.
Chain == {p \in Values \X Values : "pulao" \in {p[1], p[2]} \/ p[1] = p[2]}
TwoSearches == {<<"biryani", "biryani", "cricket">>, <<"cricket", "biryani">>}
ThreeLetters == <<1, 2, 3>>

ASSUME SocialAssumption ==
    /\ Mail!InboxAssumption /\ FactMemory!MemoryAssumption /\ Recitation!RecallAssumption
    /\ SignIn!HandoffAssumption /\ Skills!SkillAssumption /\ Markers!FilterAssumption
    /\ Net!SocketsAssumption /\ Streaks!StreakAssumption

SocialInit ==
    /\ part \in {"chat", "inbox", "memory", "recall", "sockets", "handoff", "setup", "filter",
                "streak"}
    /\ Init /\ Mail!Init /\ FactMemory!Init /\ Recitation!Init /\ Net!Init /\ SignIn!Init
    /\ Skills!Init /\ Markers!Init /\ Streaks!Init

InChat ==
    /\ part = "chat" /\ Next
    /\ UNCHANGED <<part, inboxVars, memoryVars, recallVars, socketVars, handoffVars, setupVars,
                   filterVars, streakVars>>
InInbox ==
    /\ part = "inbox" /\ Mail!Next
    /\ UNCHANGED <<part, chatVars, memoryVars, recallVars, socketVars, handoffVars, setupVars,
                   filterVars, streakVars>>
InMemory ==
    /\ part = "memory" /\ FactMemory!Next
    /\ UNCHANGED <<part, chatVars, inboxVars, recallVars, socketVars, handoffVars, setupVars,
                   filterVars, streakVars>>
InRecall ==
    /\ part = "recall" /\ Recitation!Next
    /\ UNCHANGED <<part, chatVars, inboxVars, memoryVars, socketVars, handoffVars, setupVars,
                   filterVars, streakVars>>
InSockets ==
    /\ part = "sockets" /\ Net!Next
    /\ UNCHANGED <<part, chatVars, inboxVars, memoryVars, recallVars, handoffVars, setupVars,
                   filterVars, streakVars>>
InHandoff ==
    /\ part = "handoff" /\ SignIn!Next
    /\ UNCHANGED <<part, chatVars, inboxVars, memoryVars, recallVars, socketVars, setupVars,
                   filterVars, streakVars>>
InSetup ==
    /\ part = "setup" /\ Skills!Next
    /\ UNCHANGED <<part, chatVars, inboxVars, memoryVars, recallVars, socketVars, handoffVars,
                   filterVars, streakVars>>
InFilter ==
    /\ part = "filter" /\ Markers!Next
    /\ UNCHANGED <<part, chatVars, inboxVars, memoryVars, recallVars, socketVars, handoffVars,
                   setupVars, streakVars>>
InStreak ==
    /\ part = "streak" /\ Streaks!Next
    /\ UNCHANGED <<part, chatVars, inboxVars, memoryVars, recallVars, socketVars, handoffVars,
                   setupVars, filterVars>>

SocialNext ==
    \/ InChat \/ InInbox \/ InMemory \/ InRecall \/ InSockets \/ InHandoff \/ InSetup
    \/ InFilter \/ InStreak
SocialSpec == SocialInit /\ [][SocialNext]_socialVars

-----------------------------------------------------------------------------
(* The properties of the parts under names a cfg can list; each is stated  *)
(* and explained in its own module.  A part that rests satisfies its own.  *)

\* The types of the part that is running.
SocialTypeOK ==
    CASE part = "chat" -> TypeOK
      [] part = "inbox" -> Mail!TypeOK
      [] part = "memory" -> FactMemory!TypeOK
      [] part = "recall" -> Recitation!TypeOK
      [] part = "sockets" -> Net!TypeOK
      [] part = "handoff" -> SignIn!TypeOK
      [] part = "setup" -> Skills!TypeOK
      [] part = "filter" -> Markers!TypeOK
      [] part = "streak" -> Streaks!TypeOK
\* Inbox: one conversation per pair, and badges that count what was not read.
InboxIsSound == Mail!InboxIsSound
\* Memory: of two near facts the newer one stays, and a quiet pass leaves no pair.
MemoryKept == FactMemory!NewerTwinStays /\ FactMemory!PassLeavesNoPair
\* Recall, Sockets, Handoff: what may come once comes once, or as often as allowed.
NothingRepeated ==
    /\ Recitation!RecitationBounded
    /\ Net!HeardOnce /\ Net!NotAheadOfQueue
    /\ SignIn!RedeemedOnce
\* SkillSetup: a skill stays paused, and what the user set stays, through later writes.
SkillStays == Skills!PauseStays /\ Skills!PreferencesStay
\* SkillFilter: the app sees no marker, and what it saw is what is stored.
MarkersStayHidden == Markers!TagNeverLeaks /\ Markers!StoredAsShown
\* Streak: a streak is the days that were written on.
StreaksAreEarned == Streaks!StreaksAreEarned
=============================================================================
