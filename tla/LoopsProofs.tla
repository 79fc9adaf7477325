---------------------------- MODULE LoopsProofs -----------------------------
(***************************************************************************)
(* Proofs about the background loops (MCLoops), for all values of their    *)
(* constants: the engagement loop, the feed with its ranker, what the      *)
(* composer makes of a list and what the scores make of the signals.  The  *)
(* takeovers are those of ChatProofs.                                      *)
(***************************************************************************)
EXTENDS MCLoops, ChatProofs, TLAPS, FiniteSetTheorems, SequenceTheorems, WellFoundedInduction,
        NaturalsInduction

LEMMA EngagementConstants == Proactive!EngagementAssumption
BY LoopsAssumption DEF LoopsAssumption

LEMMA FeedConstants == Feed!FeedAssumption
BY LoopsAssumption DEF LoopsAssumption

LEMMA UnitIs == Scores!ScoresAssumption
BY LoopsAssumption DEF LoopsAssumption

\* An instance counts as its module does.
LEMMA Counted ==
    /\ \A S: Feed!Cardinality(S) = Cardinality(S)
    /\ \A S: Feed!IsFiniteSet(S) <=> IsFiniteSet(S)
BY DEF Feed!Cardinality, Cardinality, Feed!IsFiniteSet, IsFiniteSet

LEMMA ScoresCounted == \A S: Scores!Cardinality(S) = Cardinality(S)
BY DEF Scores!Cardinality, Cardinality

LEMMA LeastElement ==
    ASSUME NEW T, T \subseteq Nat, T # {}
    PROVE  \E x \in T: \A y \in T: x <= y
<1>1. PICK x \in T: \A y \in T: ~(<<y, x>> \in OpToRel(<, Nat))
  BY NatLessThanWellFounded, WFMin, Zenon
<1>2. \A y \in T: ~(y < x)
  BY <1>1 DEF OpToRel
<1> QED
  BY <1>2

-----------------------------------------------------------------------------
(* The multiplier.  That a recursive function is what its equation says    *)
(* takes an induction; it is had from the least element of a set.          *)

\* A beginning of the function.
Beginning(g, n) ==
    /\ g \in [0..n -> Nat \ {0}]
    /\ \A i \in 0..n: g[i] = IF i = 0 THEN 1 ELSE 2 * g[i - 1]

LEMMA BeginningsAgree ==
    ASSUME NEW m \in Nat, NEW n \in Nat, NEW g, NEW h, Beginning(g, m), Beginning(h, n),
           NEW k \in 0..m, k \in 0..n
    PROVE  g[k] = h[k]
<1> DEFINE T == {i \in 0..k: g[i] # h[i]}
<1> SUFFICES ASSUME T # {}
             PROVE  FALSE
  OBVIOUS
<1>0. T \subseteq Nat
  OBVIOUS
<1>1. PICK x \in T: \A y \in T: x <= y
  BY <1>0, LeastElement
<1>2. x \in Nat /\ x <= k /\ g[x] # h[x]
  OBVIOUS
<1>3. x # 0
  BY <1>2 DEF Beginning
<1>4. x - 1 \notin T
  BY <1>1, <1>2
<1>5. x - 1 \in 0..k
  BY <1>2, <1>3
<1>6. g[x - 1] = h[x - 1]
  BY <1>4, <1>5
<1> QED
  BY <1>2, <1>3, <1>6 DEF Beginning

LEMMA BeginningsExist == \A n \in Nat: \E g: Beginning(g, n)
<1> DEFINE T == {n \in Nat: ~ \E g: Beginning(g, n)}
<1> SUFFICES ASSUME T # {}
             PROVE  FALSE
  OBVIOUS
<1>1. PICK n \in T: \A y \in T: n <= y
  BY LeastElement
<1>2. n # 0
  <2>1. Beginning([i \in 0..0 |-> 1], 0)
    BY DEF Beginning
  <2> QED
    BY <2>1
<1>3. n - 1 \in Nat /\ n - 1 \notin T
  BY <1>1, <1>2
<1>4. PICK g: Beginning(g, n - 1)
  BY <1>3
<1> DEFINE h == [i \in 0..n |-> IF i = n THEN 2 * g[n - 1] ELSE g[i]]
<1>5. \A i \in 0..n: h[i] \in Nat \ {0}
  BY <1>2, <1>3, <1>4 DEF Beginning
<1>6. \A i \in 0..n: h[i] = IF i = 0 THEN 1 ELSE 2 * h[i - 1]
  BY <1>2, <1>3, <1>4 DEF Beginning
<1>7. Beginning(h, n)
  BY <1>5, <1>6 DEF Beginning
<1> QED
  BY <1>7

\* Doubled is 1, 2, 4, ...: positive, and doubled at every step.
LEMMA DoubledFacts ==
    /\ Proactive!Doubled \in [Nat -> Nat \ {0}]
    /\ Proactive!Doubled[0] = 1 /\ \A n \in Nat: Proactive!Doubled[n + 1] = 2 * Proactive!Doubled[n]
<1> DEFINE Equation(f) == f = [n \in Nat |-> IF n = 0 THEN 1 ELSE 2 * f[n - 1]]
           begun == [n \in Nat |-> CHOOSE g: Beginning(g, n)]
           all == [n \in Nat |-> begun[n][n]]
<1>1. \A n \in Nat: Beginning(begun[n], n)
  BY BeginningsExist
<1>2. ASSUME NEW n \in Nat
      PROVE  all[n] \in Nat \ {0} /\ all[n] = IF n = 0 THEN 1 ELSE 2 * all[n - 1]
  <2>1. all[n] \in Nat \ {0} /\ all[n] = IF n = 0 THEN 1 ELSE 2 * begun[n][n - 1]
    <3>1. Beginning(begun[n], n) /\ n \in 0..n /\ all[n] = begun[n][n]
      BY <1>1
    <3> HIDE DEF begun, all
    <3> QED
      BY <3>1 DEF Beginning
  <2>2. n # 0 => begun[n][n - 1] = begun[n - 1][n - 1]
    BY <1>1, BeginningsAgree
  <2> QED
    BY <2>1, <2>2
<1>3. Equation(all)
  <2>1. all = [n \in Nat |-> all[n]]
    OBVIOUS
  <2> HIDE DEF all
  <2> QED
    BY <1>2, <2>1
<1>4. Equation(Proactive!Doubled)
  BY <1>3 DEF Proactive!Doubled
<1>5. \A n \in Nat: Proactive!Doubled[n] = IF n = 0 THEN 1 ELSE 2 * Proactive!Doubled[n - 1]
  BY <1>4
<1>6. ASSUME NEW n \in Nat
      PROVE  Proactive!Doubled[n] = all[n]
  <2> DEFINE T == {i \in Nat: Proactive!Doubled[i] # all[i]}
  <2> SUFFICES ASSUME T # {}
               PROVE  FALSE
    OBVIOUS
  <2>1. PICK x \in T: \A y \in T: x <= y
    BY LeastElement
  <2>2. x # 0 => x - 1 \in Nat /\ x - 1 \notin T
    BY <2>1
  <2>3. x # 0 => Proactive!Doubled[x - 1] = all[x - 1]
    BY <2>2
  <2>4. /\ x \in Nat /\ Proactive!Doubled[x] # all[x]
        /\ Proactive!Doubled[x] = IF x = 0 THEN 1 ELSE 2 * Proactive!Doubled[x - 1]
        /\ all[x] = IF x = 0 THEN 1 ELSE 2 * all[x - 1]
    BY <1>2, <1>5
  <2> HIDE DEF T, all
  <2> QED
    BY <2>3, <2>4
<1>7. \A n \in Nat: Proactive!Doubled[n + 1] = 2 * Proactive!Doubled[n]
  BY <1>5
<1> QED
  BY <1>2, <1>4, <1>5, <1>6, <1>7

\* proactive.py:47: the wait is never shorter than the skill's cadence nor longer than
\* a week, however many messages are unanswered.
LEMMA BackoffBounds == \A n \in Nat: Proactive!Backoff(n) \in Base..Week
<1> SUFFICES ASSUME NEW n \in Nat
             PROVE  Proactive!Backoff(n) \in Base..Week
  OBVIOUS
<1> USE EngagementConstants DEF Proactive!EngagementAssumption
<1>1. CASE n <= 1
  BY <1>1 DEF Proactive!Backoff
<1>2. CASE n > 1
  <2>1. Proactive!Doubled[n - 1] \in Nat /\ Proactive!Doubled[n - 1] >= 1
    BY <1>2, DoubledFacts
  <2>2. Base * Proactive!Doubled[n - 1] \in Nat /\ Base * Proactive!Doubled[n - 1] >= Base
    <3>1. ASSUME NEW b \in Nat, NEW k \in Nat, k >= 1
          PROVE  b * k \in Nat /\ b * k >= b
      BY <3>1
    <3> QED
      BY <2>1, <3>1
  <2> QED
    BY <1>2, <2>2 DEF Proactive!Backoff, Proactive!Least
<1> QED
  BY <1>1, <1>2

-----------------------------------------------------------------------------
(* Types.                                                                  *)

User ==
    \/ Proactive!UserMessage \/ Proactive!BotReply \/ Proactive!Onboard
    \/ \E f \in Proactive!Freqs: Proactive!SetFrequency(f)
    \/ \E s \in Proactive!Statuses: Proactive!SetStatus(s)
    \/ \E e \in Editors: Proactive!EditRead(e) \/ Proactive!EditWrite(e)
    \/ Proactive!Delete

\* A check-in is under way only for a skill that has a row, and rows are not deleted.
HasRow == \A l \in Loops: step[l] \in Proactive!Checkin => skill # Proactive!NoRow

LEMMA MoreFacts ==
    /\ \A n \in 0..MaxCount: Proactive!More(n) \in 0..MaxCount
    /\ \A n \in 0..MaxCount: Proactive!More(n) = n + 1 \/ (n = MaxCount /\ Proactive!More(n) = n)
<1> SUFFICES ASSUME NEW n \in 0..MaxCount
             PROVE  /\ Proactive!More(n) \in 0..MaxCount
                    /\ Proactive!More(n) = n + 1 \/ (n = MaxCount /\ Proactive!More(n) = n)
  OBVIOUS
<1>1. CASE n = MaxCount
  BY <1>1, EngagementConstants DEF Proactive!EngagementAssumption, Proactive!More, Proactive!Least
<1>2. CASE n < MaxCount
  BY <1>2, EngagementConstants DEF Proactive!EngagementAssumption, Proactive!More, Proactive!Least
<1> QED
  BY <1>1, <1>2, EngagementConstants DEF Proactive!EngagementAssumption

LEMMA LoopType ==
    ASSUME Proactive!TypeOK, HasRow, NEW l \in Loops, Proactive!LoopStep(l)
    PROVE  Proactive!TypeOK' /\ HasRow'
<1> USE EngagementConstants
        DEF Proactive!EngagementAssumption, Proactive!TypeOK, HasRow, Proactive!Goto,
            Proactive!Steps, Proactive!Checkin, Proactive!convVars, Proactive!skillVars
<1>1. CASE Proactive!Scan(l) \/ Proactive!WelcomeCount(l) \/ Proactive!WelcomeThink(l)
  BY <1>1 DEF Proactive!Scan, Proactive!WelcomeCount, Proactive!WelcomeThink, Proactive!Answer
<1>2. CASE Proactive!WelcomeInsert(l)
  BY <1>2, MoreFacts DEF Proactive!WelcomeInsert, Proactive!BotMessage
<1>3. CASE Proactive!ListDue(l)
  BY <1>3 DEF Proactive!ListDue, Proactive!DueNow, Proactive!NoRow
<1>4. CASE Proactive!CheckinOpen(l)
  BY <1>4 DEF Proactive!CheckinOpen, Proactive!NoDue
<1>5. CASE Proactive!CheckinThink(l)
  BY <1>5 DEF Proactive!CheckinThink, Proactive!Answer
<1>6. CASE Proactive!CheckinInsert(l)
  <2>1. idle' \in 0..(Week + 1) /\ count' \in 0..MaxCount /\ last' \in {"user", "assistant"}
    BY <1>6, MoreFacts DEF Proactive!CheckinInsert, Proactive!BotMessage
  <2>2. proactives' \in 0..MaxCount /\ proactives' >= proactives
    BY <1>6, MoreFacts DEF Proactive!CheckinInsert
  <2>3. since' \in 0..Base
    BY <1>6 DEF Proactive!CheckinInsert
  <2>6. slipped' \in BOOLEAN
    BY <1>6 DEF Proactive!CheckinInsert
  <2>5. nudges' = nudges /\ late' = late /\ welcomes' = welcomes
    BY <1>6 DEF Proactive!CheckinInsert
  <2>4. step' \in [Loops -> Proactive!Steps] /\ HasRow'
    BY <1>6 DEF Proactive!CheckinInsert
  <2> QED
    BY <1>6, <2>1, <2>2, <2>3, <2>4, <2>5, <2>6 DEF Proactive!CheckinInsert, Proactive!BotMessage
<1>7. CASE Proactive!CheckinCount(l)
  BY <1>7 DEF Proactive!CheckinCount
<1>8. CASE Proactive!CheckinMark(l)
  BY <1>8, BackoffBounds DEF Proactive!CheckinMark, Proactive!NoDue
<1>9. CASE Proactive!ListRecent(l) \/ Proactive!NudgeCheck(l) \/ Proactive!NudgeThink(l)
  BY <1>9 DEF Proactive!ListRecent, Proactive!NudgeCheck, Proactive!NudgeThink, Proactive!Answer
<1>10. CASE Proactive!NudgeInsert(l)
  BY <1>10, MoreFacts DEF Proactive!NudgeInsert, Proactive!BotMessage
<1>11. CASE step[l] \notin {"rest", "skill", "nudge"} /\ Proactive!Fails(l)
  BY <1>11 DEF Proactive!Fails
<1> QED
  BY <1>1, <1>2, <1>3, <1>4, <1>5, <1>6, <1>7, <1>8, <1>9, <1>10, <1>11 DEF Proactive!LoopStep

LEMMA UserType ==
    ASSUME Proactive!TypeOK, HasRow, User
    PROVE  Proactive!TypeOK' /\ HasRow'
<1> USE EngagementConstants
        DEF Proactive!EngagementAssumption, Proactive!TypeOK, HasRow, Proactive!convVars,
            Proactive!skillVars, Proactive!loopVars
<1>1. CASE Proactive!UserMessage
  BY <1>1, MoreFacts DEF Proactive!UserMessage
<1>2. CASE Proactive!BotReply
  BY <1>2, MoreFacts DEF Proactive!BotReply, Proactive!BotMessage
<1>3. CASE Proactive!Onboard
  BY <1>3 DEF Proactive!Onboard, Proactive!Statuses, Proactive!NoRow, Proactive!NoDue
<1>4. CASE \E f \in Proactive!Freqs: Proactive!SetFrequency(f)
  BY <1>4 DEF Proactive!SetFrequency
<1>5. CASE \E s \in Proactive!Statuses: Proactive!SetStatus(s)
  BY <1>5 DEF Proactive!SetStatus, Proactive!Statuses, Proactive!NoRow
<1>6. CASE \E e \in Editors: Proactive!EditRead(e) \/ Proactive!EditWrite(e)
  BY <1>6 DEF Proactive!EditRead, Proactive!EditWrite, Proactive!Statuses, Proactive!NoRow,
      Proactive!Idle
<1>7. CASE Proactive!Delete
  <2>1. idle' \in 0..(Week + 1) /\ count' \in 0..MaxCount /\ late' \in 0..MaxCount
    BY <1>7 DEF Proactive!Delete
  <2>2. proactives' \in 0..MaxCount /\ nudges' \in 0..MaxCount /\ welcomes' \in 0..proactives'
    BY <1>7 DEF Proactive!Delete
  <2>3. open' \in BOOLEAN /\ freq' \in Proactive!Freqs /\ last' \in {"user", "assistant"}
    BY <1>7 DEF Proactive!Delete, Proactive!Freqs
  <2> QED
    BY <1>7, <2>1, <2>2, <2>3 DEF Proactive!Delete
<1> QED
  BY <1>1, <1>2, <1>3, <1>4, <1>5, <1>6, <1>7 DEF User

LEMMA TickType ==
    ASSUME Proactive!TypeOK, HasRow, Proactive!Tick
    PROVE  Proactive!TypeOK' /\ HasRow'
BY EngagementConstants DEF Proactive!EngagementAssumption, Proactive!TypeOK, HasRow,
    Proactive!Tick, Proactive!Least, Proactive!NoDue, Proactive!loopVars

LEMMA Typed == Proactive!Spec => [](Proactive!TypeOK /\ HasRow)
<1>1. ASSUME Proactive!Init
      PROVE  Proactive!TypeOK /\ HasRow
  <2> USE <1>1, EngagementConstants DEF Proactive!EngagementAssumption, Proactive!Init
  <2>1. step \in [Loops -> Proactive!Steps] /\ seen \in [Loops -> 0..MaxCount]
    BY DEF Proactive!Steps
  <2>2. edit \in [Editors -> Proactive!Statuses \cup {Proactive!Idle}]
    OBVIOUS
  <2>3. HasRow
    BY DEF HasRow, Proactive!Checkin
  <2>4. /\ idle \in 0..(Week + 1) /\ count \in 0..MaxCount
        /\ due \in Proactive!NoDue..Week /\ since \in 0..Base
        /\ proactives \in 0..MaxCount /\ nudges \in 0..MaxCount /\ welcomes \in 0..proactives
        /\ late \in 0..MaxCount
    BY DEF Proactive!EngagementAssumption, Proactive!NoDue
  <2>5. /\ open \in BOOLEAN /\ freq \in Proactive!Freqs
        /\ last \in {"user", "assistant"} /\ slipped \in BOOLEAN
    BY DEF Proactive!Freqs
  <2> QED
    BY <2>1, <2>2, <2>3, <2>4, <2>5 DEF Proactive!TypeOK
<1>2. Proactive!TypeOK /\ HasRow /\ [Proactive!Next]_(Proactive!vars)
        => (Proactive!TypeOK /\ HasRow)'
  <2>1. CASE UNCHANGED Proactive!vars
    BY <2>1 DEF Proactive!vars, Proactive!convVars, Proactive!skillVars, Proactive!loopVars,
        Proactive!TypeOK, HasRow
  <2> QED
    BY <2>1, LoopType, UserType, TickType DEF Proactive!Next, User
<1> QED
  BY <1>1, <1>2, PTL DEF Proactive!Spec

\* Every variable keeps its type, with any number of loops.
THEOREM EngagementTypeCorrect == Proactive!Spec => []Proactive!TypeOK
BY Typed, PTL

-----------------------------------------------------------------------------
(* One loop.                                                               *)

\* A welcome-back under way was let through by the cap; the check-ins between count too.
WelcomesInv(l) ==
    /\ welcomes <= Proactive!ProactiveCap
    /\ step[l] \in {"welcome_think", "welcome_insert"} => proactives < Proactive!ProactiveCap

\* A nudge under way is the first.
NudgesInv(l) ==
    /\ nudges <= Proactive!NudgeCap
    /\ step[l] \in {"nudge_think", "nudge_insert"} => nudges < Proactive!NudgeCap

\* Only a welcome-back that was under way when the user said "off" comes after it.
OffInv(l) ==
    /\ late <= 1 /\ (freq # "off" => late = 0)
    /\ step[l] \in {"welcome_count", "welcome_think", "welcome_insert"} => late = 0

\* Until the schedule slips, what is left to wait and what has passed make the cadence.
SpacingInv(l) ==
    /\ \/ slipped \/ since = Base
       \/ step[l] \in {"checkin_count", "checkin_mark"} \/ due + since >= Base
    /\ skill = Proactive!NoRow => since = Base
    /\ step[l] \in {"checkin_open", "checkin_think", "checkin_insert"} => slipped \/ since = Base

OneLoopInv(l) == WelcomesInv(l) /\ NudgesInv(l) /\ OffInv(l) /\ SpacingInv(l)

LEMMA LoopKeeps ==
    ASSUME Proactive!TypeOK, HasRow, NEW l, Loops = {l}, OneLoopInv(l), Proactive!LoopStep(l)
    PROVE  OneLoopInv(l)'
<1> USE EngagementConstants, MoreFacts
        DEF Proactive!EngagementAssumption, Proactive!TypeOK, OneLoopInv, Proactive!Goto,
            Proactive!convVars, Proactive!skillVars, Proactive!ProactiveCap, Proactive!NudgeCap
<1>1. CASE Proactive!Scan(l)
  BY <1>1 DEF Proactive!Scan, Proactive!Inactive, WelcomesInv, NudgesInv, OffInv, SpacingInv
<1>2. CASE Proactive!WelcomeCount(l) \/ Proactive!WelcomeThink(l)
  BY <1>2 DEF Proactive!WelcomeCount, Proactive!WelcomeThink, Proactive!CapReached,
      Proactive!Answer, WelcomesInv, NudgesInv, OffInv, SpacingInv
<1>3. CASE Proactive!WelcomeInsert(l)
  <2>1. WelcomesInv(l)' /\ NudgesInv(l)'
    BY <1>3 DEF Proactive!WelcomeInsert, Proactive!BotMessage, WelcomesInv, NudgesInv
  <2>2. OffInv(l)' /\ SpacingInv(l)'
    BY <1>3 DEF Proactive!WelcomeInsert, Proactive!BotMessage, OffInv, SpacingInv
  <2> QED
    BY <2>1, <2>2
<1>4. CASE Proactive!ListDue(l)
  BY <1>4 DEF Proactive!ListDue, Proactive!DueNow, WelcomesInv, NudgesInv, OffInv, SpacingInv
<1>5. CASE Proactive!CheckinOpen(l)
  BY <1>5 DEF Proactive!CheckinOpen, WelcomesInv, NudgesInv, OffInv, SpacingInv
<1>6. CASE Proactive!CheckinThink(l)
  BY <1>6 DEF Proactive!CheckinThink, Proactive!Answer, WelcomesInv, NudgesInv, OffInv, SpacingInv
<1>7. CASE Proactive!CheckinInsert(l)
  BY <1>7 DEF Proactive!CheckinInsert, Proactive!BotMessage, HasRow, Proactive!Checkin,
      WelcomesInv, NudgesInv, OffInv, SpacingInv
<1>8. CASE Proactive!CheckinCount(l)
  BY <1>8 DEF Proactive!CheckinCount, WelcomesInv, NudgesInv, OffInv, SpacingInv
<1>9. CASE Proactive!CheckinMark(l)
  <2>1. Proactive!Backoff(seen[l]) \in Base..Week
    BY <1>9, BackoffBounds
  <2> QED
    BY <1>9, <2>1 DEF Proactive!CheckinMark, WelcomesInv, NudgesInv, OffInv, SpacingInv
<1>10. CASE Proactive!ListRecent(l)
  BY <1>10 DEF Proactive!ListRecent, WelcomesInv, NudgesInv, OffInv, SpacingInv
<1>11. CASE Proactive!NudgeCheck(l) \/ Proactive!NudgeThink(l)
  BY <1>11 DEF Proactive!NudgeCheck, Proactive!NudgeThink, Proactive!Answer,
      Proactive!ShouldNudge, Proactive!NudgedOut, WelcomesInv, NudgesInv, OffInv,
     SpacingInv
<1>12. CASE Proactive!NudgeInsert(l)
  BY <1>12 DEF Proactive!NudgeInsert, Proactive!BotMessage, WelcomesInv, NudgesInv, OffInv,
      SpacingInv
<1>13. CASE step[l] \notin {"rest", "skill", "nudge"} /\ Proactive!Fails(l)
  BY <1>13 DEF Proactive!Fails, Proactive!Steps, Proactive!Checkin, WelcomesInv, NudgesInv,
      OffInv, SpacingInv
<1> QED
  BY <1>1, <1>2, <1>3, <1>4, <1>5, <1>6, <1>7, <1>8, <1>9, <1>10, <1>11, <1>12,
      <1>13 DEF Proactive!LoopStep

LEMMA UserKeeps ==
    ASSUME Proactive!TypeOK, HasRow, NEW l, Loops = {l}, OneLoopInv(l), User \/ Proactive!Tick
    PROVE  OneLoopInv(l)'
<1> USE EngagementConstants
        DEF Proactive!EngagementAssumption, Proactive!TypeOK, OneLoopInv, Proactive!convVars,
            Proactive!skillVars, Proactive!loopVars, Proactive!ProactiveCap,
        Proactive!NudgeCap, WelcomesInv, NudgesInv, OffInv, SpacingInv
<1>1. CASE Proactive!UserMessage
  BY <1>1, MoreFacts DEF Proactive!UserMessage
<1>2. CASE Proactive!BotReply
  BY <1>2, MoreFacts DEF Proactive!BotReply, Proactive!BotMessage
<1>3. CASE Proactive!Onboard
  BY <1>3 DEF Proactive!Onboard
<1>4. CASE \E f \in Proactive!Freqs: Proactive!SetFrequency(f)
  BY <1>4 DEF Proactive!SetFrequency
<1>5. CASE \E s \in Proactive!Statuses: Proactive!SetStatus(s)
  BY <1>5 DEF Proactive!SetStatus, Proactive!NoRow
<1>6. CASE \E e \in Editors: Proactive!EditRead(e) \/ Proactive!EditWrite(e)
  BY <1>6 DEF Proactive!EditRead, Proactive!EditWrite, Proactive!Statuses, Proactive!NoRow
<1>7. CASE Proactive!Delete
  BY <1>7 DEF Proactive!Delete
<1>8. CASE Proactive!Tick
  BY <1>8 DEF Proactive!Tick, Proactive!Least, Proactive!NoDue
<1> QED
  BY <1>1, <1>2, <1>3, <1>4, <1>5, <1>6, <1>7, <1>8 DEF User

LEMMA OneLoopInductive ==
    ASSUME NEW l, Loops = {l}
    PROVE  Proactive!Spec => [](Proactive!TypeOK /\ HasRow /\ OneLoopInv(l))
<1>1. Proactive!Init => OneLoopInv(l)
  BY EngagementConstants DEF Proactive!EngagementAssumption, Proactive!Init, OneLoopInv,
      WelcomesInv, NudgesInv, OffInv,
     SpacingInv, Proactive!ProactiveCap, Proactive!NudgeCap
<1>2. Proactive!TypeOK /\ HasRow /\ OneLoopInv(l) /\ [Proactive!Next]_(Proactive!vars)
        => OneLoopInv(l)'
  <2>1. CASE UNCHANGED Proactive!vars
    BY <2>1 DEF Proactive!vars, Proactive!convVars, Proactive!skillVars, Proactive!loopVars,
        OneLoopInv, WelcomesInv, NudgesInv, OffInv, SpacingInv
  <2> QED
    BY <2>1, LoopKeeps, UserKeeps DEF Proactive!Next, User
<1> QED
  BY <1>1, <1>2, Typed, PTL DEF Proactive!Spec

-----------------------------------------------------------------------------
(* Loops written as recursive functions: induction over their rounds, and  *)
(* that there is such a function at all.                                   *)

LEMMA RoundByRound ==
    ASSUME NEW n \in Nat, NEW T, 0 \in T, \A i \in 1..n: i - 1 \in T => i \in T
    PROVE  \A i \in 0..n: i \in T
<1> DEFINE Missing == {i \in 0..n: i \notin T}
<1> SUFFICES ASSUME Missing # {}
             PROVE  FALSE
  OBVIOUS
<1>0. Missing \subseteq Nat
  OBVIOUS
<1>1. PICK x \in Missing: \A y \in Missing: x <= y
  BY <1>0, LeastElement
<1>2. x # 0 /\ x \in 1..n
  OBVIOUS
<1>3. x - 1 \notin Missing /\ x - 1 \in 0..n
  BY <1>1, <1>2
<1> QED
  BY <1>2, <1>3

\* What a loop of n rounds computes, from its start and its body.
Rounds(f, n, start, body) ==
    \A i \in 0..n: f[i] = IF i = 0 THEN start ELSE body[<<i, f[i - 1]>>]

LEMMA RoundsExist ==
    ASSUME NEW n \in Nat, NEW X, NEW start \in X, NEW body \in [(1..n) \X X -> X]
    PROVE  \E f \in [0..n -> X]: Rounds(f, n, start, body)
<1> DEFINE T == {k \in 0..n: \E f \in [0..k -> X]: Rounds(f, k, start, body)}
<1>1. 0 \in T
  <2>1. [i \in 0..0 |-> start] \in [0..0 -> X]
    OBVIOUS
  <2>2. Rounds([i \in 0..0 |-> start], 0, start, body)
    BY DEF Rounds
  <2> QED
    BY <2>1, <2>2
<1>2. ASSUME NEW k \in 1..n, k - 1 \in T
      PROVE  k \in T
  <2>1. PICK f \in [0..(k - 1) -> X]: Rounds(f, k - 1, start, body)
    BY <1>2
  <2> DEFINE g == [i \in 0..k |-> IF i = k THEN body[<<k, f[k - 1]>>] ELSE f[i]]
  <2>2. f[k - 1] \in X /\ <<k, f[k - 1]>> \in (1..n) \X X
    BY <2>1
  <2>3. body[<<k, f[k - 1]>>] \in X
    BY <2>2
  <2>4. g \in [0..k -> X]
    BY <2>1, <2>3
  <2>5. ASSUME NEW i \in 0..k
        PROVE  g[i] = IF i = 0 THEN start ELSE body[<<i, g[i - 1]>>]
    <3>1. CASE i = k
      <4>1. k - 1 \in 0..k /\ k - 1 # k /\ k # 0
        OBVIOUS
      <4>2. g[k - 1] = f[k - 1] /\ g[k] = body[<<k, f[k - 1]>>]
        BY <4>1
      <4> QED
        BY <3>1, <4>1, <4>2
    <3>2. CASE i # k
      <4>1. i \in 0..(k - 1) /\ g[i] = f[i]
        BY <3>2
      <4>2. i # 0 => i - 1 \in 0..(k - 1) /\ g[i - 1] = f[i - 1]
        BY <3>2
      <4> QED
        BY <4>1, <4>2, <2>1 DEF Rounds
    <3> QED
      BY <3>1, <3>2
  <2>6. Rounds(g, k, start, body)
    BY <2>5 DEF Rounds
  <2> QED
    BY <2>4, <2>6
<1>3. n \in T
  <2> HIDE DEF T
  <2> QED
    BY <1>1, <1>2, RoundByRound
<1> QED
  BY <1>3

-----------------------------------------------------------------------------
(* Lists without repetition.                                               *)

Distinct(list) == \A i, j \in DOMAIN list: list[i] = list[j] => i = j

LEMMA ToSetOfSeq ==
    ASSUME NEW X, NEW list \in Seq(X)
    PROVE  /\ Feed!ToSet(list) \subseteq X
           /\ \A b: b \in Feed!ToSet(list) <=> \E i \in 1..Len(list): list[i] = b
BY DEF Feed!ToSet

LEMMA AppendOne ==
    ASSUME NEW X, NEW list \in Seq(X), NEW b \in X
    PROVE  /\ Append(list, b) \in Seq(X)
           /\ Feed!ToSet(Append(list, b)) = Feed!ToSet(list) \cup {b}
           /\ Distinct(list) /\ b \notin Feed!ToSet(list) => Distinct(Append(list, b))
<1> DEFINE longer == Append(list, b)
<1>1. /\ longer \in Seq(X) /\ Len(longer) = Len(list) + 1 /\ Len(list) \in Nat
      /\ \A k \in 1..Len(list): longer[k] = list[k]
      /\ longer[Len(list) + 1] = b
  OBVIOUS
<1>2. DOMAIN longer = 1..Len(list) + 1 /\ DOMAIN list = 1..Len(list)
  BY <1>1
<1> HIDE DEF longer
<1>3. Feed!ToSet(longer) = Feed!ToSet(list) \cup {b}
  <2>1. ASSUME NEW x \in Feed!ToSet(longer)
        PROVE  x \in Feed!ToSet(list) \cup {b}
    <3>1. PICK k \in 1..Len(list) + 1: x = longer[k]
      BY <1>2 DEF Feed!ToSet
    <3>2. CASE k \in 1..Len(list)
      BY <1>1, <1>2, <3>1, <3>2 DEF Feed!ToSet
    <3>3. CASE k = Len(list) + 1
      BY <1>1, <3>1, <3>3
    <3> QED
      BY <1>1, <3>2, <3>3
  <2>2. ASSUME NEW x \in Feed!ToSet(list)
        PROVE  x \in Feed!ToSet(longer)
    <3>1. PICK k \in 1..Len(list): x = list[k]
      BY <1>2 DEF Feed!ToSet
    <3>2. k \in DOMAIN longer /\ longer[k] = x
      BY <1>1, <1>2, <3>1
    <3> QED
      BY <3>2 DEF Feed!ToSet
  <2>3. b \in Feed!ToSet(longer)
    <3>1. Len(list) + 1 \in DOMAIN longer
      BY <1>1, <1>2
    <3> QED
      BY <1>1, <3>1 DEF Feed!ToSet
  <2> QED
    BY <2>1, <2>2, <2>3
<1>4. ASSUME Distinct(list), b \notin Feed!ToSet(list)
      PROVE  Distinct(longer)
  <2>1. \A m \in 1..Len(list): list[m] # b
    BY <1>2, <1>4 DEF Feed!ToSet
  <2> QED
    BY <1>1, <1>2, <1>4, <2>1 DEF Distinct
<1> QED
  BY <1>1, <1>3, <1>4 DEF longer

LEMMA KeptFacts ==
    ASSUME NEW X, NEW ids \in Seq(X), NEW S
    PROVE  /\ Feed!Kept(ids, S) \in Seq(X)
           /\ Feed!ToSet(Feed!Kept(ids, S)) = Feed!ToSet(ids) \cap S
           /\ Distinct(ids) => Distinct(Feed!Kept(ids, S))
<1> DEFINE n == Len(ids)
           body == [p \in (1..n) \X Seq(X) |->
                       IF ids[p[1]] \in S THEN Append(p[2], ids[p[1]]) ELSE p[2]]
           Loop(f) == f = [i \in 0..n |->
                              IF i = 0 THEN <<>>
                              ELSE IF ids[i] \in S THEN Append(f[i - 1], ids[i]) ELSE f[i - 1]]
           kept == CHOOSE f: Loop(f)
<1>0. n \in Nat /\ \A i \in 1..n: ids[i] \in X
  OBVIOUS
<1>1. body \in [(1..n) \X Seq(X) -> Seq(X)]
  <2> SUFFICES ASSUME NEW p \in (1..n) \X Seq(X)
               PROVE  (IF ids[p[1]] \in S THEN Append(p[2], ids[p[1]]) ELSE p[2]) \in Seq(X)
    OBVIOUS
  <2>1. p[1] \in 1..n /\ p[2] \in Seq(X) /\ ids[p[1]] \in X
    OBVIOUS
  <2> QED
    BY <2>1, AppendProperties
<1>2. PICK g \in [0..n -> Seq(X)]: Rounds(g, n, <<>>, body)
  <2> HIDE DEF body
  <2>1. <<>> \in Seq(X)
    OBVIOUS
  <2> QED
    BY <1>0, <1>1, <2>1, RoundsExist
<1>3. Loop(g)
  <2>1. ASSUME NEW i \in 0..n
        PROVE  g[i] = IF i = 0 THEN <<>>
                      ELSE IF ids[i] \in S THEN Append(g[i - 1], ids[i]) ELSE g[i - 1]
    <3>0. i # 0 => i \in 1..n /\ i - 1 \in 0..n
      BY <1>0
    <3>1. i # 0 => <<i, g[i - 1]>> \in (1..n) \X Seq(X)
      BY <1>2, <3>0
    <3>2. i # 0 => body[<<i, g[i - 1]>>]
                       = IF ids[i] \in S THEN Append(g[i - 1], ids[i]) ELSE g[i - 1]
      BY <3>1
    <3> QED
      BY <3>2, <1>2 DEF Rounds
  <2>2. g = [i \in 0..n |-> g[i]]
    BY <1>2
  <2> QED
    BY <2>1, <2>2
<1>4. Loop(kept)
  BY <1>3, Zenon
<1> HIDE DEF kept, body
<1>5. kept[0] = <<>>
  BY <1>4
<1>6. \A i \in 1..n: kept[i] = IF ids[i] \in S THEN Append(kept[i - 1], ids[i]) ELSE kept[i - 1]
  <2>1. \A i \in 1..n: i \in 0..n /\ i # 0
    BY <1>0
  <2> QED
    BY <1>4, <2>1
<1> DEFINE Before(i) == {b \in S: \E j \in 1..i: ids[j] = b}
           T == {i \in 0..n: /\ kept[i] \in Seq(X)
                             /\ Feed!ToSet(kept[i]) = Before(i)
                             /\ Distinct(ids) => Distinct(kept[i])}
<1>7. 0 \in T
  <2>1. Feed!ToSet(kept[0]) = {} /\ Before(0) = {} /\ Distinct(kept[0])
    BY <1>5 DEF Feed!ToSet, Distinct
  <2> QED
    BY <1>5, <2>1
<1>8. ASSUME NEW i \in 1..n, i - 1 \in T
      PROVE  i \in T
  <2> DEFINE b == ids[i]
             before == kept[i - 1]
  <2>1. before \in Seq(X) /\ Feed!ToSet(before) = Before(i - 1)
            /\ (Distinct(ids) => Distinct(before))
    BY <1>8
  <2>2. CASE b \notin S
    <3>1. kept[i] = before /\ Before(i) = Before(i - 1)
      BY <1>6, <2>2
    <3> QED
      BY <2>1, <3>1
  <2>3. CASE b \in S
    <3> HIDE DEF Before
    <3>1. kept[i] = Append(before, b) /\ b \in X
      BY <1>0, <1>6, <2>3
    <3>2. /\ kept[i] \in Seq(X) /\ Feed!ToSet(kept[i]) = Feed!ToSet(before) \cup {b}
          /\ Distinct(before) /\ b \notin Feed!ToSet(before) => Distinct(kept[i])
      BY <2>1, <3>1, AppendOne
    <3>4. Before(i) = Before(i - 1) \cup {b}
      BY <2>3 DEF Before
    <3>5. Distinct(ids) => b \notin Before(i - 1)
      BY <1>0 DEF Before, Distinct
    <3>6. Feed!ToSet(kept[i]) = Before(i)
      BY <2>1, <3>2, <3>4
    <3>7. Distinct(ids) => Distinct(kept[i])
      BY <2>1, <3>2, <3>5
    <3> QED
      BY <3>2, <3>6, <3>7
  <2> QED
    BY <2>2, <2>3
<1>9. n \in T
  <2>1. \A i \in 1..n: i - 1 \in T => i \in T
    BY <1>8
  <2>2. n \in 0..n
    BY <1>0
  <2> HIDE DEF T
  <2> QED
    BY <1>0, <1>7, <2>1, <2>2, RoundByRound
<1>10. Feed!Kept(ids, S) = kept[n]
  BY DEF Feed!Kept, kept
<1>11. Before(n) = Feed!ToSet(ids) \cap S
  BY ToSetOfSeq
<1> QED
  BY <1>9, <1>10, <1>11

LEMMA DistinctCount ==
    ASSUME NEW X, NEW list \in Seq(X), Distinct(list)
    PROVE  IsFiniteSet(Feed!ToSet(list)) /\ Cardinality(Feed!ToSet(list)) = Len(list)
<1>1. list \in Bijection(1..Len(list), Feed!ToSet(list))
  BY DEF Distinct, Feed!ToSet, Bijection, Injection, Surjection, IsInjective
<1>2. IsFiniteSet(1..Len(list)) /\ Cardinality(1..Len(list)) = Len(list)
  <2>1. Len(list) \in Nat /\ 1 \in Int /\ Len(list) \in Int
    OBVIOUS
  <2>2. IsFiniteSet(1..Len(list))
        /\ Cardinality(1..Len(list)) = IF 1 > Len(list) THEN 0 ELSE Len(list) - 1 + 1
    BY <2>1, FS_Interval
  <2> QED
    BY <2>1, <2>2
<1> QED
  BY <1>1, <1>2, FS_Bijection DEF ExistsBijection

LEMMA Joined ==
    ASSUME NEW X, NEW s \in Seq(X), NEW t \in Seq(X)
    PROVE  /\ s \o t \in Seq(X) /\ Len(s \o t) = Len(s) + Len(t)
           /\ Feed!ToSet(s \o t) = Feed!ToSet(s) \cup Feed!ToSet(t)
           /\ Distinct(s) /\ Distinct(t) /\ Feed!ToSet(s) \cap Feed!ToSet(t) = {}
               => Distinct(s \o t)
<1> DEFINE u == s \o t
<1>1. /\ u \in Seq(X) /\ Len(u) = Len(s) + Len(t) /\ Len(s) \in Nat /\ Len(t) \in Nat
      /\ \A i \in 1..Len(s) + Len(t): u[i] = IF i <= Len(s) THEN s[i] ELSE t[i - Len(s)]
  BY ConcatProperties
<1>2. DOMAIN u = 1..Len(s) + Len(t) /\ DOMAIN s = 1..Len(s) /\ DOMAIN t = 1..Len(t)
  BY <1>1
<1> HIDE DEF u
<1>3. \A i \in DOMAIN s: i \in DOMAIN u /\ u[i] = s[i]
  BY <1>1, <1>2
<1>4. \A i \in DOMAIN t: i + Len(s) \in DOMAIN u /\ u[i + Len(s)] = t[i]
  BY <1>1, <1>2
<1>5. \A i \in DOMAIN u:
        \/ i \in DOMAIN s /\ u[i] = s[i]
        \/ i - Len(s) \in DOMAIN t /\ u[i] = t[i - Len(s)]
  <2> TAKE i \in DOMAIN u
  <2>3. i \in 1..Len(s) + Len(t)
    BY <1>2
  <2>1. CASE i <= Len(s)
    <3>1. i \in 1..Len(s)
      BY <1>1, <2>1, <2>3
    <3>2. u[i] = s[i]
      BY <1>1, <2>1, <2>3
    <3>3. i \in DOMAIN s
      BY <1>2, <3>1
    <3> QED
      BY <3>2, <3>3
  <2>2. CASE i > Len(s)
    <3>1. i - Len(s) \in 1..Len(t)
      BY <1>1, <2>2, <2>3
    <3>2. u[i] = t[i - Len(s)]
      BY <1>1, <2>2, <2>3
    <3> QED
      BY <1>2, <3>1, <3>2
  <2> QED
    BY <1>1, <2>1, <2>2, <2>3
<1>6. Feed!ToSet(u) = Feed!ToSet(s) \cup Feed!ToSet(t)
  BY <1>3, <1>4, <1>5 DEF Feed!ToSet
<1>7. ASSUME Distinct(s), Distinct(t), Feed!ToSet(s) \cap Feed!ToSet(t) = {}, NEW i \in DOMAIN u,
             NEW j \in DOMAIN u,
             u[i] = u[j]
      PROVE  i = j
  <2>1. \A k \in DOMAIN s, m \in DOMAIN t: s[k] # t[m]
    BY <1>7 DEF Feed!ToSet
  <2>2. CASE i \in DOMAIN s /\ u[i] = s[i]
    BY <1>5, <1>7, <2>1, <2>2 DEF Distinct
  <2>3. CASE i - Len(s) \in DOMAIN t /\ u[i] = t[i - Len(s)]
    <3>1. j - Len(s) \in DOMAIN t /\ u[j] = t[j - Len(s)]
      BY <1>5, <1>7, <2>1, <2>3
    <3>2. i - Len(s) = j - Len(s)
      BY <1>7, <2>3, <3>1 DEF Distinct
    <3> QED
      BY <1>1, <1>2, <3>2
  <2> QED
    BY <1>5, <2>2, <2>3
<1> QED
  BY <1>1, <1>6, <1>7 DEF u, Distinct

LEMMA Sliced ==
    ASSUME NEW X, NEW list \in Seq(X), NEW m \in Nat \ {0}, NEW n \in 0..Len(list)
    PROVE  /\ SubSeq(list, m, n) \in Seq(X)
           /\ Len(SubSeq(list, m, n)) = IF m <= n THEN n - m + 1 ELSE 0
           /\ \A b: b \in Feed!ToSet(SubSeq(list, m, n)) <=> \E i \in m..n: list[i] = b
           /\ \A i \in 1..(n - m + 1): SubSeq(list, m, n)[i] = list[m + i - 1]
           /\ Distinct(list) => Distinct(SubSeq(list, m, n))
<1> DEFINE slice == SubSeq(list, m, n)
<1>0. \A i \in m..n: list[i] \in X
  OBVIOUS
<1>1. /\ slice \in Seq(X) /\ Len(slice) = IF m <= n THEN n - m + 1 ELSE 0
      /\ \A i \in 1..(n - m + 1): slice[i] = list[m + i - 1]
  BY <1>0, SubSeqProperties
<1>2. DOMAIN slice = 1..(n - m + 1) /\ DOMAIN list = 1..Len(list) /\ Len(list) \in Nat
  BY <1>1
<1> HIDE DEF slice
<1>3. ASSUME NEW b, NEW i \in m..n, list[i] = b
      PROVE  b \in Feed!ToSet(slice)
  <2>1. i - m + 1 \in DOMAIN slice /\ slice[i - m + 1] = list[i]
    BY <1>1, <1>2
  <2> QED
    BY <1>3, <2>1 DEF Feed!ToSet
<1>4. ASSUME NEW b \in Feed!ToSet(slice)
      PROVE  \E i \in m..n: list[i] = b
  <2>1. PICK k \in DOMAIN slice: slice[k] = b
    BY DEF Feed!ToSet
  <2>3. k \in 1..(n - m + 1)
    BY <1>2, <2>1
  <2>4. slice[k] = list[m + k - 1]
    BY <1>1, <2>3
  <2>2. m + k - 1 \in m..n /\ list[m + k - 1] = b
    BY <1>2, <2>1, <2>3, <2>4
  <2> QED
    BY <2>2
<1>5. ASSUME Distinct(list), NEW j \in DOMAIN slice, NEW k \in DOMAIN slice, slice[j] = slice[k]
      PROVE  j = k
  <2>3. j \in 1..(n - m + 1) /\ k \in 1..(n - m + 1)
    BY <1>2
  <2>4. slice[j] = list[m + j - 1] /\ slice[k] = list[m + k - 1]
    BY <1>1, <2>3
  <2>5. m + j - 1 \in 1..Len(list) /\ m + k - 1 \in 1..Len(list)
    BY <1>2, <2>3
  <2>1. m + j - 1 \in DOMAIN list /\ m + k - 1 \in DOMAIN list
            /\ list[m + j - 1] = list[m + k - 1]
    BY <1>2, <1>5, <2>4, <2>5
  <2>2. m + j - 1 = m + k - 1
    BY <1>5, <2>1 DEF Distinct
  <2> QED
    BY <1>2, <2>2
<1> QED
  BY <1>1, <1>3, <1>4, <1>5 DEF slice, Distinct

LEMMA InsertedOne ==
    ASSUME NEW X, NEW list \in Seq(X), NEW b \in X, NEW i \in 1..Len(list) + 1
    PROVE  /\ Feed!InsertAt(list, i, b) \in Seq(X)
           /\ Feed!ToSet(Feed!InsertAt(list, i, b)) = Feed!ToSet(list) \cup {b}
           /\ Distinct(list) /\ b \notin Feed!ToSet(list) => Distinct(Feed!InsertAt(list, i, b))
<1> DEFINE above == SubSeq(list, 1, i - 1)
           below == SubSeq(list, i, Len(list))
           upper == above \o <<b>>
<1>0. Len(list) \in Nat /\ i - 1 \in 0..Len(list) /\ i \in Nat \ {0} /\ Len(list) \in 0..Len(list)
  OBVIOUS
<1>1. /\ above \in Seq(X) /\ \A x: x \in Feed!ToSet(above) <=> \E k \in 1..(i - 1): list[k] = x
      /\ Distinct(list) => Distinct(above)
  BY <1>0, Sliced
<1>2. /\ below \in Seq(X) /\ \A x: x \in Feed!ToSet(below) <=> \E k \in i..Len(list): list[k] = x
      /\ Distinct(list) => Distinct(below)
  BY <1>0, Sliced
<1>3. <<b>> \in Seq(X) /\ Feed!ToSet(<<b>>) = {b} /\ Distinct(<<b>>)
  BY DEF Feed!ToSet, Distinct
<1> HIDE DEF above, below
<1>4. Feed!ToSet(above) \cup Feed!ToSet(below) = Feed!ToSet(list)
  <2>1. \A x: x \in Feed!ToSet(list) <=> \E k \in 1..Len(list): list[k] = x
    BY DEF Feed!ToSet
  <2> QED
    BY <1>0, <1>1, <1>2, <2>1
<1>5. Distinct(list) => Feed!ToSet(above) \cap Feed!ToSet(below) = {}
  <2> SUFFICES ASSUME Distinct(list), NEW x \in Feed!ToSet(above), x \in Feed!ToSet(below)
               PROVE  FALSE
    OBVIOUS
  <2>1. PICK k \in 1..(i - 1): list[k] = x
    BY <1>1
  <2>2. PICK j \in i..Len(list): list[j] = x
    BY <1>2
  <2> QED
    BY <1>0, <2>1, <2>2 DEF Distinct
<1>6. /\ upper \in Seq(X) /\ Feed!ToSet(upper) = Feed!ToSet(above) \cup {b}
      /\ Distinct(list) /\ b \notin Feed!ToSet(list) => Distinct(upper)
  <2>1. b \notin Feed!ToSet(list) => Feed!ToSet(above) \cap Feed!ToSet(<<b>>) = {}
    BY <1>3, <1>4
  <2>2. /\ upper \in Seq(X) /\ Feed!ToSet(upper) = Feed!ToSet(above) \cup Feed!ToSet(<<b>>)
        /\ Distinct(above) /\ Distinct(<<b>>) /\ Feed!ToSet(above) \cap Feed!ToSet(<<b>>) = {}
            => Distinct(upper)
    BY <1>1, <1>3, Joined
  <2> HIDE DEF upper
  <2> QED
    BY <1>1, <1>3, <2>1, <2>2
<1> HIDE DEF upper
<1>7. /\ upper \o below \in Seq(X)
          /\ Feed!ToSet(upper \o below) = Feed!ToSet(upper) \cup Feed!ToSet(below)
      /\ Distinct(list) /\ b \notin Feed!ToSet(list) => Distinct(upper \o below)
  <2>1. Distinct(list) /\ b \notin Feed!ToSet(list)
            => Feed!ToSet(upper) \cap Feed!ToSet(below) = {}
    BY <1>4, <1>5, <1>6
  <2> QED
    BY <1>2, <1>6, <2>1, Joined
<1>8. Feed!InsertAt(list, i, b) = upper \o below
  BY DEF Feed!InsertAt, upper, above, below
<1> QED
  BY <1>4, <1>6, <1>7, <1>8

LEMMA InsertFacts ==
    ASSUME NEW X, NEW list \in Seq(X), NEW p \in [bot: X, rank: Nat \ {0}]
    PROVE  /\ Feed!Insert(list, p) \in Seq(X)
           /\ Feed!ToSet(Feed!Insert(list, p)) = Feed!ToSet(list) \cup {p.bot}
           /\ Distinct(list) /\ p.bot \notin Feed!ToSet(list) => Distinct(Feed!Insert(list, p))
<1> DEFINE i == Feed!Smaller(p.rank, Len(list) + 1)
<1>1. i \in 1..Len(list) + 1 /\ p.bot \in X
  BY DEF Feed!Smaller
<1> HIDE DEF i
<1>2. /\ Feed!InsertAt(list, i, p.bot) \in Seq(X)
      /\ Feed!ToSet(Feed!InsertAt(list, i, p.bot)) = Feed!ToSet(list) \cup {p.bot}
      /\ Distinct(list) /\ p.bot \notin Feed!ToSet(list)
          => Distinct(Feed!InsertAt(list, i, p.bot))
  BY <1>1, InsertedOne
<1> QED
  BY <1>2 DEF Feed!Insert, i

LEMMA OverlayFacts ==
    ASSUME NEW X, NEW base \in Seq(X), Distinct(base),
           NEW queue \in Seq([bot: X, rank: Nat \ {0}]),
           \A i, j \in DOMAIN queue: queue[i].bot = queue[j].bot => i = j
    PROVE  /\ Feed!PinOverlay(base, queue) \in Seq(X)
           /\ Distinct(Feed!PinOverlay(base, queue))
           /\ Feed!ToSet(Feed!PinOverlay(base, queue))
               = Feed!ToSet(base) \cup {p.bot: p \in Feed!ToSet(queue)}
<1> DEFINE n == Len(queue)
           rest == Feed!Without(base, {p.bot: p \in Feed!ToSet(queue)})
           body == [p \in (1..n) \X Seq(X) |-> Feed!Insert(p[2], queue[p[1]])]
           Loop(f) == f = [i \in 0..n |->
                              IF i = 0 THEN rest ELSE Feed!Insert(f[i - 1], queue[i])]
           over == CHOOSE f: Loop(f)
<1>0. n \in Nat /\ DOMAIN queue = 1..n /\ \A i \in 1..n: queue[i] \in [bot: X, rank: Nat \ {0}]
  BY LenProperties, ElementOfSeq
<1>1. /\ rest \in Seq(X) /\ Distinct(rest)
      /\ Feed!ToSet(rest) = Feed!ToSet(base) \ {p.bot: p \in Feed!ToSet(queue)}
  <2> DEFINE D == Feed!ToSet(base) \ {p.bot: p \in Feed!ToSet(queue)}
  <2>1. rest = Feed!Kept(base, D)
    BY DEF Feed!Without
  <2> HIDE DEF D
  <2>2. Feed!Kept(base, D) \in Seq(X)
            /\ Feed!ToSet(Feed!Kept(base, D)) = Feed!ToSet(base) \cap D
                /\ Distinct(Feed!Kept(base, D))
    BY KeptFacts
  <2>3. Feed!ToSet(base) \cap D = Feed!ToSet(base) \ {p.bot: p \in Feed!ToSet(queue)}
    BY DEF D
  <2> QED
    BY <2>1, <2>2, <2>3
<1>2. body \in [(1..n) \X Seq(X) -> Seq(X)]
  <2> SUFFICES ASSUME NEW p \in (1..n) \X Seq(X)
               PROVE  Feed!Insert(p[2], queue[p[1]]) \in Seq(X)
    OBVIOUS
  <2>1. p[2] \in Seq(X) /\ queue[p[1]] \in [bot: X, rank: Nat \ {0}]
    BY <1>0
  <2> QED
    BY <2>1, InsertFacts
<1>3. PICK g \in [0..n -> Seq(X)]: Rounds(g, n, rest, body)
  <2> HIDE DEF body, rest
  <2> QED
    BY <1>0, <1>1, <1>2, RoundsExist
<1>4. Loop(g)
  <2>1. ASSUME NEW i \in 0..n
        PROVE  g[i] = IF i = 0 THEN rest ELSE Feed!Insert(g[i - 1], queue[i])
    <3>0. i # 0 => i \in 1..n /\ i - 1 \in 0..n
      BY <1>0
    <3>1. i # 0 => <<i, g[i - 1]>> \in (1..n) \X Seq(X)
      BY <1>3, <3>0
    <3>2. i # 0 => body[<<i, g[i - 1]>>] = Feed!Insert(g[i - 1], queue[i])
      BY <3>1
    <3> QED
      BY <3>2, <1>3 DEF Rounds
  <2>2. g = [i \in 0..n |-> g[i]]
    BY <1>3
  <2> QED
    BY <2>1, <2>2
<1>5. Loop(over)
  BY <1>4
<1> HIDE DEF over, body, rest
<1>6. over[0] = rest
  BY <1>5
<1>7. \A i \in 1..n: over[i] = Feed!Insert(over[i - 1], queue[i])
  <2>1. \A i \in 1..n: i \in 0..n /\ i # 0
    BY <1>0
  <2> QED
    BY <1>5, <2>1
<1> DEFINE In(i) == Feed!ToSet(rest) \cup {queue[j].bot: j \in 1..i}
           T == {i \in 0..n: over[i] \in Seq(X) /\ Distinct(over[i]) /\ Feed!ToSet(over[i])
               = In(i)}
<1>8. 0 \in T
  BY <1>0, <1>1, <1>6
<1>9. ASSUME NEW i \in 1..n, i - 1 \in T
      PROVE  i \in T
  <2> DEFINE before == over[i - 1]
             p == queue[i]
  <2>1. before \in Seq(X) /\ Distinct(before) /\ Feed!ToSet(before) = In(i - 1)
    BY <1>9
  <2>2. p \in [bot: X, rank: Nat \ {0}] /\ over[i] = Feed!Insert(before, p)
    BY <1>0, <1>7
  <2> HIDE DEF before, p
  <2>3. /\ over[i] \in Seq(X) /\ Feed!ToSet(over[i]) = Feed!ToSet(before) \cup {p.bot}
        /\ p.bot \notin Feed!ToSet(before) => Distinct(over[i])
    BY <2>1, <2>2, InsertFacts
  <2>4. p.bot \notin In(i - 1)
    <3>1. \A j \in 1..(i - 1): j \in DOMAIN queue /\ i \in DOMAIN queue /\ j # i
      BY <1>0
    <3>2. \A j \in 1..(i - 1): queue[j].bot # queue[i].bot
      BY <3>1
    <3>3. queue[i].bot \notin Feed!ToSet(rest)
      <4>1. queue[i] \in Feed!ToSet(queue)
        BY <1>0 DEF Feed!ToSet
      <4> QED
        BY <1>1, <4>1
    <3> QED
      BY <3>2, <3>3 DEF p
  <2>5. In(i) = In(i - 1) \cup {p.bot}
    <3>1. 1..i = (1..(i - 1)) \cup {i}
      BY <1>0
    <3> QED
      BY <3>1 DEF p
  <2>6. i \in 0..n
    BY <1>0
  <2> HIDE DEF In
  <2> QED
    BY <2>1, <2>3, <2>4, <2>5, <2>6
<1>10. n \in T
  <2>1. \A i \in 1..n: i - 1 \in T => i \in T
    BY <1>9
  <2>2. n \in 0..n
    BY <1>0
  <2> HIDE DEF T
  <2> QED
    BY <1>0, <1>8, <2>1, <2>2, RoundByRound
<1>11. Feed!PinOverlay(base, queue) = over[n]
  BY DEF Feed!PinOverlay, over, rest
<1>12. In(n) = Feed!ToSet(base) \cup {p.bot: p \in Feed!ToSet(queue)}
  <2>0. Feed!ToSet(queue) = {queue[j]: j \in 1..n}
    BY <1>0 DEF Feed!ToSet
  <2>1. {p.bot: p \in Feed!ToSet(queue)} = {queue[j].bot: j \in 1..n}
    BY <2>0
  <2> QED
    BY <1>1, <2>1
<1> QED
  BY <1>10, <1>11, <1>12

-----------------------------------------------------------------------------
(* The feed.                                                               *)

Slates == {list \in Seq(Bots): Distinct(list)}

LEMMA SlatesAre == Feed!Lists \ {Feed!NoBlob} = Slates
<1>1. ASSUME NEW list \in Feed!Lists, list # Feed!NoBlob
      PROVE  list \in Slates
  <2>1. PICK S \in SUBSET Bots: list \in Feed!SetToSeqs(S)
    BY <1>1, Counted DEF Feed!Lists, Feed!SetToAllKPermutations
  <2>2. IsFiniteSet(S) /\ Cardinality(S) \in Nat
    BY FeedConstants, FS_Subset, FS_CardinalityType, Counted DEF Feed!FeedAssumption
  <2>3. list \in [1..Cardinality(S) -> S] /\ \A i, j \in 1..Cardinality(S): i # j
            => list[i] # list[j]
    BY <2>1, Counted DEF Feed!SetToSeqs
  <2>4. list \in Seq(Bots)
    BY <2>2, <2>3
  <2> QED
    BY <2>3, <2>4 DEF Slates, Distinct
<1>2. ASSUME NEW list \in Slates
      PROVE  list \in Feed!Lists /\ list # Feed!NoBlob
  <2>1. list \in Seq(Bots) /\ Distinct(list)
    BY DEF Slates
  <2>2. IsFiniteSet(Feed!ToSet(list)) /\ Cardinality(Feed!ToSet(list)) = Len(list)
            /\ Feed!ToSet(list) \subseteq Bots
    BY <2>1, DistinctCount, ToSetOfSeq
  <2>3. list \in [1..Len(list) -> Feed!ToSet(list)] /\ \A i, j \in 1..Len(list): i # j
            => list[i] # list[j]
    BY <2>1 DEF Distinct, Feed!ToSet
  <2>4. list \in Feed!SetToSeqs(Feed!ToSet(list))
    BY <2>2, <2>3, Counted DEF Feed!SetToSeqs
  <2>5. list # Feed!NoBlob
    <3> SUFFICES ASSUME list = Feed!NoBlob
                 PROVE  FALSE
      OBVIOUS
    <3>1. 1 \in DOMAIN list /\ list[1] = "absent"
      BY DEF Feed!NoBlob
    <3>2. "absent" \in Feed!ToSet(list)
      BY <3>1 DEF Feed!ToSet
    <3> QED
      BY <2>2, <3>2, FeedConstants, Counted DEF Feed!FeedAssumption
  <2> QED
    BY <2>2, <2>4, <2>5, Counted DEF Feed!Lists, Feed!SetToAllKPermutations
<1> QED
  BY <1>1, <1>2

LEMMA SlateOf ==
    ASSUME NEW S
    PROVE  /\ \A list \in Slates: /\ Feed!Kept(list, S) \in Slates
                                      /\ Feed!ToSet(Feed!Kept(list, S)) = Feed!ToSet(list) \cap S
                                 /\ Feed!Without(list, S) \in Slates
                                     /\ Feed!ToSet(Feed!Without(list, S)) = Feed!ToSet(list) \ S
<1> SUFFICES ASSUME NEW list \in Slates
             PROVE  /\ Feed!Kept(list, S) \in Slates
                        /\ Feed!ToSet(Feed!Kept(list, S)) = Feed!ToSet(list) \cap S
                    /\ Feed!Without(list, S) \in Slates
                        /\ Feed!ToSet(Feed!Without(list, S)) = Feed!ToSet(list) \ S
  OBVIOUS
<1>1. list \in Seq(Bots) /\ Distinct(list)
  BY DEF Slates
<1>2. Feed!Kept(list, S) \in Slates /\ Feed!ToSet(Feed!Kept(list, S)) = Feed!ToSet(list) \cap S
  BY <1>1, KeptFacts DEF Slates
<1>3. Feed!Kept(list, Feed!ToSet(list) \ S) \in Slates
      /\ Feed!ToSet(Feed!Kept(list, Feed!ToSet(list) \ S))
          = Feed!ToSet(list) \cap (Feed!ToSet(list) \ S)
  BY <1>1, KeptFacts DEF Slates
<1> QED
  BY <1>2, <1>3 DEF Feed!Without

LEMMA ArrangementsAre ==
    ASSUME NEW S, S \subseteq Bots, NEW list \in Feed!SetToSeqs(S)
    PROVE  list \in Slates /\ Feed!ToSet(list) = S
<1>2. IsFiniteSet(S) /\ Cardinality(S) \in Nat
  BY FeedConstants, FS_Subset, FS_CardinalityType, Counted DEF Feed!FeedAssumption
<1>3. list \in [1..Cardinality(S) -> S] /\ \A i, j \in 1..Cardinality(S): i # j
          => list[i] # list[j]
  BY Counted DEF Feed!SetToSeqs
<1>4. list \in Seq(S) /\ list \in Seq(Bots) /\ Len(list) = Cardinality(S)
  BY <1>2, <1>3
<1>5. Distinct(list)
  BY <1>3 DEF Distinct
<1>6. Feed!ToSet(list) \subseteq S /\ Cardinality(Feed!ToSet(list)) = Cardinality(S)
  BY <1>4, <1>5, DistinctCount, ToSetOfSeq
<1>7. Feed!ToSet(list) = S
  BY <1>2, <1>6, FS_Subset
<1> QED
  BY <1>4, <1>5, <1>7 DEF Slates

-----------------------------------------------------------------------------
(* The inductive invariant of the feed.                                    *)

\* The pinned slice of a list and the rest share no bot.
Apart == \A r \in Requests: Feed!At(r, "seen") \/ Feed!At(r, "compose")
    => Feed!ToSet(req[r].head) \cap Feed!ToSet(req[r].list) = {}

\* What a request is about to record was offered.
Offered ==
    /\ Feed!SeenWasOffered
    /\ \A r \in Requests: Feed!At(r, "record")
        => Feed!ToSet(req[r].list) \subseteq shown \cup skipped

\* Until two requests overlap, one at most is under way; what it shows is recorded, now or
\* by its last step; and what it is about to show was not shown before.
OneAtATime == \A r, q \in Requests: ~Feed!At(r, "idle") /\ ~Feed!At(q, "idle") => r = q
Recorded == \A b \in shown: b \in marked \/ \E r \in Requests: Feed!At(r, "record")
    /\ b \in Feed!ToSet(req[r].list)
Fresh ==
    \A r \in Requests:
        /\ Feed!At(r, "compose") => Feed!ToSet(req[r].head) \cap shown = {}
        /\ Feed!At(r, "compose") \/ Feed!At(r, "hydrate")
            => Feed!ToSet(req[r].list) \cap shown = {}

FeedInv ==
    /\ Feed!TypeOK /\ Apart /\ Offered /\ Feed!NothingShownTwice
    /\ ~excused => OneAtATime /\ Recorded /\ Fresh

ReqRec == [pc: Feed!Steps, list: Slates, head: Slates]

LEMMA ListsAre == Feed!Lists = Slates \cup {Feed!NoBlob} /\ Feed!Lists \ {Feed!NoBlob} = Slates
BY SlatesAre DEF Feed!Lists

LEMMA EmptySlate == <<>> \in Slates /\ Feed!ToSet(<<>>) = {}
BY DEF Slates, Distinct, Feed!ToSet

LEMMA FeedStart == Feed!Init => FeedInv
<1> SUFFICES ASSUME Feed!Init
             PROVE  FeedInv
  OBVIOUS
<1> USE DEF Feed!Init
<1>1. Bots # {} /\ Changes \in Nat /\ Faults \in Nat
  BY FeedConstants, Counted DEF Feed!FeedAssumption
<1>2. req \in [Requests -> ReqRec] /\ \A r \in Requests: req[r].pc = "idle"
  BY EmptySlate DEF Feed!Idle, ReqRec, Feed!Steps
<1>3. rank \in [Rankers -> [pc: {"sleep", "write"}, got: SUBSET Bots]]
  BY DEF Feed!Resting
<1>4. Feed!TypeOK
  <2>1. active \subseteq Bots /\ pins \subseteq [bot: Bots, rank: Feed!Ranks]
        /\ (\A p, q \in pins : p.bot = q.bot => p = q)
    OBVIOUS
  <2>2. client \in [pages: BOOLEAN, next: Nat, ended: BOOLEAN]
    <3>1. PICK p \in BOOLEAN: client = [pages |-> p, next |-> 0, ended |-> FALSE]
      OBVIOUS
    <3> QED
      BY <3>1
  <2>3. blob \in Feed!Lists /\ marked \subseteq Bots /\ shown \subseteq Bots
            /\ skipped \subseteq Bots
    BY ListsAre
  <2>4. budget \in [changes: 0..Changes, faults: 0..Faults]
    BY <1>1
  <2>5. req \in [Requests -> [pc: Feed!Steps, list: Feed!Lists \ {Feed!NoBlob},
                                  head: Feed!Lists \ {Feed!NoBlob}]]
    BY <1>2, ListsAre DEF ReqRec
  <2> QED
    BY <1>3, <2>1, <2>2, <2>3, <2>4, <2>5 DEF Feed!TypeOK
<1>5. Apart /\ Offered /\ Feed!NothingShownTwice /\ OneAtATime /\ Recorded /\ Fresh
  BY <1>2 DEF Apart, Offered, Feed!SeenWasOffered, Feed!NothingShownTwice, OneAtATime, Recorded,
      Fresh, Feed!At
<1> QED
  BY <1>4, <1>5 DEF FeedInv

\* What the catalogue, the pins, the ranker and the clock of feed:global do leaves the
\* session alone.
LEMMA OthersKeep ==
    ASSUME FeedInv, UNCHANGED <<marked, req, Feed!history, excused>>, Feed!TypeOK'
    PROVE  FeedInv'
BY DEF FeedInv, Apart, Offered, Feed!SeenWasOffered, Feed!NothingShownTwice, OneAtATime,
    Recorded, Fresh, Feed!At, Feed!history

LEMMA FaultType ==
    ASSUME Feed!TypeOK, Feed!Fault \/ Feed!Change \/ UNCHANGED budget
    PROVE  budget' \in [changes: 0..Changes, faults: 0..Faults]
<1>1. budget \in [changes: 0..Changes, faults: 0..Faults] /\ Changes \in Nat /\ Faults \in Nat
  BY FeedConstants, Counted DEF Feed!TypeOK, Feed!FeedAssumption
<1> QED
  BY <1>1 DEF Feed!Fault, Feed!Change

LEMMA EditKeeps ==
    ASSUME FeedInv, NEW b \in Bots, Feed!Edit(b)
    PROVE  FeedInv'
<1>1. Feed!TypeOK
  BY DEF FeedInv
<1>2. budget' \in [changes: 0..Changes, faults: 0..Faults]
  BY <1>1, FaultType DEF Feed!Edit
<1>3. active' \subseteq Bots
  BY <1>1 DEF Feed!TypeOK, Feed!Edit, Feed!Appear, Feed!Vanish, Feed!Pin, Feed!Unpin
<1>4. pins' \subseteq [bot: Bots, rank: Feed!Ranks] /\ \A p, q \in pins': p.bot = q.bot => p = q
  <2>0. pins \subseteq [bot: Bots, rank: Feed!Ranks] /\ \A p, q \in pins: p.bot = q.bot => p = q
    BY <1>1 DEF Feed!TypeOK
  <2>1. CASE pins' = pins
    BY <2>0, <2>1
  <2>2. CASE pins' = {p \in pins : p.bot # b}
    BY <2>0, <2>2
  <2>3. CASE \E n \in Feed!Ranks: pins' = {p \in pins : p.bot # b} \cup {[bot |-> b, rank |-> n]}
    BY <2>0, <2>3
  <2> QED
    BY <2>1, <2>2, <2>3 DEF Feed!Edit, Feed!Appear, Feed!Vanish, Feed!Pin, Feed!Unpin
<1>5. Feed!TypeOK'
  <2>1. UNCHANGED <<blob, marked, rank, req, Feed!history, excused>>
    BY DEF Feed!Edit
  <2> QED
    BY <1>1, <1>2, <1>3, <1>4, <2>1 DEF Feed!TypeOK, Feed!history
<1> QED
  BY <1>5, OthersKeep DEF Feed!Edit

LEMMA RankerKeeps ==
    ASSUME FeedInv, NEW r \in Rankers, Feed!RankStep(r)
    PROVE  FeedInv'
<1>1. Feed!TypeOK
  BY DEF FeedInv
<1>2. UNCHANGED <<active, pins, marked, req, Feed!history, excused>>
  BY DEF Feed!RankStep
<1>3. budget' \in [changes: 0..Changes, faults: 0..Faults]
  BY <1>1, FaultType DEF Feed!RankStep, Feed!FetchBots, Feed!WriteFeed, Feed!PassFails
<1>4. rank' \in [Rankers -> [pc: {"sleep", "write"}, got: SUBSET Bots]]
  BY <1>1 DEF Feed!TypeOK, Feed!RankStep, Feed!FetchBots, Feed!WriteFeed, Feed!PassFails,
      Feed!Resting
<1>5. blob' \in Slates \cup {Feed!NoBlob}
  <2>1. CASE Feed!WriteFeed(r)
    <3>1. PICK order \in Rankings: blob' = Feed!Kept(order, rank[r].got)
      BY <2>1 DEF Feed!WriteFeed
    <3>2. order \in Slates
      BY FeedConstants, ArrangementsAre, Counted DEF Feed!FeedAssumption
    <3> QED
      BY <3>1, <3>2, SlateOf
  <2>2. CASE blob' = blob
    BY <1>1, <2>2, ListsAre DEF Feed!TypeOK
  <2> QED
    BY <2>1, <2>2 DEF Feed!RankStep, Feed!FetchBots, Feed!PassFails
<1>6. Feed!TypeOK'
  BY <1>1, <1>2, <1>3, <1>4, <1>5, ListsAre DEF Feed!TypeOK, Feed!history
<1> QED
  BY <1>2, <1>6, OthersKeep

LEMMA ExpiryKeeps ==
    ASSUME FeedInv, Feed!Expire
    PROVE  FeedInv'
<1>1. Feed!TypeOK
  BY DEF FeedInv
<1>2. budget' \in [changes: 0..Changes, faults: 0..Faults]
  BY <1>1, FaultType DEF Feed!Expire
<1>3. Feed!TypeOK'
  BY <1>1, <1>2, ListsAre DEF Feed!TypeOK, Feed!Expire, Feed!history
<1> QED
  BY <1>3, OthersKeep DEF Feed!Expire

LEMMA ReqFields ==
    ASSUME Feed!TypeOK, NEW r \in Requests
    PROVE  /\ req \in [Requests -> ReqRec]
           /\ req[r].list \in Slates /\ req[r].head \in Slates
           /\ req[r].list \in Seq(Bots) /\ Distinct(req[r].list)
               /\ Feed!ToSet(req[r].list) \subseteq Bots
           /\ req[r].head \in Seq(Bots) /\ Distinct(req[r].head)
               /\ Feed!ToSet(req[r].head) \subseteq Bots
<1>1. req \in [Requests -> ReqRec]
  BY ListsAre DEF Feed!TypeOK, ReqRec
<1>2. req[r].list \in Slates /\ req[r].head \in Slates
  BY <1>1 DEF ReqRec
<1> QED
  BY <1>1, <1>2, ToSetOfSeq DEF Slates

\* What a step of a request does to its record, and to that of no other.
LEMMA Moved ==
    ASSUME Feed!TypeOK, NEW r \in Requests, NEW to \in Feed!Steps, NEW list \in Slates,
           Feed!Goto(r, to, list)
    PROVE  /\ req' \in [Requests -> ReqRec]
           /\ req'[r].pc = to /\ req'[r].list = list /\ req'[r].head = req[r].head
           /\ \A q \in Requests: q # r => req'[q] = req[q]
<1>1. req \in [Requests -> ReqRec]
  BY ReqFields
<1>2. req' = [req EXCEPT ![r] = [@ EXCEPT !.pc = to, !.list = list]]
  BY DEF Feed!Goto
<1> QED
  BY <1>1, <1>2 DEF ReqRec

\* A request that has no page yet goes on: nothing of the session has changed.
LEMMA Begins ==
    ASSUME FeedInv, NEW r \in Requests,
           UNCHANGED <<active, pins, blob, rank, marked, Feed!history>>,
           budget' \in [changes: 0..Changes, faults: 0..Faults], excused' \in BOOLEAN,
           excused => excused', ~excused' => \A q \in Requests: q # r => Feed!At(q, "idle"),
           req' \in [Requests -> ReqRec], \A q \in Requests: q # r => req'[q] = req[q],
           ~Feed!At(r, "record"), ~Feed!At(r, "record")', ~Feed!At(r, "hydrate")',
           ~Feed!At(r, "compose")',
           Feed!At(r, "seen")' => Feed!ToSet(req[r].head)' \cap Feed!ToSet(req[r].list)' = {}
    PROVE  FeedInv'
<1>1. Feed!TypeOK'
  BY ListsAre DEF FeedInv, Feed!TypeOK, ReqRec, Feed!history
<1>2. Apart'
  BY DEF FeedInv, Apart, Feed!At
<1>3. Offered' /\ Feed!NothingShownTwice'
  BY DEF FeedInv, Offered, Feed!SeenWasOffered, Feed!NothingShownTwice, Feed!At, Feed!history
<1>4. ASSUME ~excused'
      PROVE  OneAtATime' /\ Recorded' /\ Fresh'
  <2>1. OneAtATime /\ Recorded /\ Fresh
    BY <1>4 DEF FeedInv
  <2>2. OneAtATime'
    BY <1>4, <2>1 DEF OneAtATime, Feed!At
  <2>3. Recorded'
    BY <2>1 DEF Recorded, Feed!At, Feed!history
  <2>4. Fresh'
    BY <1>4, <2>1 DEF Fresh, Feed!At, Feed!history
  <2> QED
    BY <2>2, <2>3, <2>4
<1> QED
  BY <1>1, <1>2, <1>3, <1>4 DEF FeedInv

\* Until two requests overlap the one that is under way is alone.
LEMMA Alone ==
    ASSUME FeedInv, NEW r \in Requests, ~Feed!At(r, "idle"), ~excused
    PROVE  \A q \in Requests: q # r => Feed!At(q, "idle")
BY DEF FeedInv, OneAtATime

LEMMA ReadFeedKeeps ==
    ASSUME FeedInv, NEW r \in Requests, Feed!ReadFeed(r), UNCHANGED <<active, pins, blob, rank>>
    PROVE  FeedInv'
<1>1. Feed!TypeOK /\ Feed!At(r, "idle")
  BY DEF FeedInv, Feed!ReadFeed
<1>2. PICK got \in {blob, Feed!NoBlob}:
        /\ IF got = Feed!NoBlob THEN Feed!Goto(r, "fallback", <<>>) ELSE Feed!Goto(r, "pins", got)
        /\ budget' = budget \/ Feed!Fault
  BY DEF Feed!ReadFeed
<1>3. budget' \in [changes: 0..Changes, faults: 0..Faults]
  BY <1>1, <1>2, FaultType
<1>4. /\ req' \in [Requests -> ReqRec] /\ req'[r].pc \in {"fallback", "pins"}
      /\ \A q \in Requests: q # r => req'[q] = req[q]
  <2>1. CASE got = Feed!NoBlob
    <3>1. Feed!Goto(r, "fallback", <<>>) /\ "fallback" \in Feed!Steps
      BY <1>2, <2>1 DEF Feed!Steps
    <3> QED
      BY <1>1, <3>1, EmptySlate, Moved
  <2>2. CASE got # Feed!NoBlob
    <3>1. Feed!Goto(r, "pins", got) /\ "pins" \in Feed!Steps
      BY <1>2, <2>2 DEF Feed!Steps
    <3>2. got \in Slates
      BY <1>1, <1>2, <2>2, ListsAre DEF Feed!TypeOK
    <3> QED
      BY <1>1, <3>1, <3>2, Moved
  <2> QED
    BY <2>1, <2>2
<1>5. excused' = (excused \/ \E q \in Requests \ {r} : ~Feed!At(q, "idle"))
          /\ UNCHANGED <<marked, Feed!history>>
  BY DEF Feed!ReadFeed
<1>6. excused' \in BOOLEAN /\ (excused => excused')
          /\ (~excused' => \A q \in Requests: q # r => Feed!At(q, "idle"))
  BY <1>5
<1>7. ~Feed!At(r, "record") /\ ~Feed!At(r, "record")' /\ ~Feed!At(r, "hydrate")'
          /\ ~Feed!At(r, "compose")' /\ ~Feed!At(r, "seen")'
  BY <1>1, <1>4 DEF Feed!At
<1> QED
  BY <1>3, <1>4, <1>5, <1>6, <1>7, Begins

LEMMA FallbackKeeps ==
    ASSUME FeedInv, NEW r \in Requests, Feed!Fallback(r), UNCHANGED <<active, pins, blob, rank>>
    PROVE  FeedInv'
<1>1. Feed!TypeOK /\ Feed!At(r, "fallback") /\ UNCHANGED <<marked, Feed!history, excused, budget>>
  BY DEF FeedInv, Feed!Fallback
<1> DEFINE ids == Feed!Kept(Newest, active)
           list == SubSeq(ids, 1, Feed!Smaller(SoftLimit, Len(ids)))
<1>2. Feed!Goto(r, "pins", list) /\ "pins" \in Feed!Steps
  BY DEF Feed!Fallback, Feed!Steps
<1>3. list \in Slates
  <2>1. Newest \in Slates /\ SoftLimit \in Nat
    BY FeedConstants, ArrangementsAre, Counted DEF Feed!FeedAssumption
  <2>2. ids \in Seq(Bots) /\ Distinct(ids)
    BY <2>1, SlateOf DEF Slates
  <2> HIDE DEF ids
  <2>3. Feed!Smaller(SoftLimit, Len(ids)) \in 0..Len(ids)
    BY <2>1, <2>2 DEF Feed!Smaller
  <2>4. 1 \in Nat \ {0}
    OBVIOUS
  <2>5. list \in Seq(Bots) /\ Distinct(list)
    BY <2>2, <2>3, <2>4, Sliced
  <2> QED
    BY <2>5 DEF Slates
<1>4. /\ req' \in [Requests -> ReqRec] /\ req'[r].pc = "pins"
      /\ \A q \in Requests: q # r => req'[q] = req[q]
  <2> HIDE DEF list
  <2> QED
    BY <1>1, <1>2, <1>3, Moved
<1>5. budget' \in [changes: 0..Changes, faults: 0..Faults] /\ excused' \in BOOLEAN
  BY <1>1 DEF Feed!TypeOK
<1>6. ~Feed!At(r, "record") /\ ~Feed!At(r, "record")' /\ ~Feed!At(r, "hydrate")'
          /\ ~Feed!At(r, "compose")' /\ ~Feed!At(r, "seen")'
  BY <1>1, <1>4 DEF Feed!At
<1>7. ~excused' => \A q \in Requests: q # r => Feed!At(q, "idle")
  BY <1>1, Alone DEF Feed!At
<1> QED
  BY <1>1, <1>4, <1>5, <1>6, <1>7, Begins

LEMMA PinsFinite ==
    ASSUME Feed!TypeOK
    PROVE  IsFiniteSet(pins)
<1> DEFINE f == [p \in pins |-> p.bot]
<1>1. f \in [pins -> Bots] /\ \A p, q \in pins: f[p] = f[q] => p = q
  BY DEF Feed!TypeOK
<1>2. f \in Injection(pins, Bots)
  BY <1>1 DEF Injection, IsInjective
<1> QED
  BY <1>2, FS_Injection, FeedConstants, Counted DEF Feed!FeedAssumption

LEMMA ReadPinsKeeps ==
    ASSUME FeedInv, NEW r \in Requests, Feed!ReadPins(r), UNCHANGED <<active, pins, blob, rank>>
    PROVE  FeedInv'
<1>1. Feed!TypeOK /\ Feed!At(r, "pins") /\ UNCHANGED <<marked, Feed!history, excused, budget>>
  BY DEF FeedInv, Feed!ReadPins
<1> DEFINE pinned == {p.bot : p \in pins}
<1>2. PICK queue \in Feed!InRankOrder(pins):
        req' = [req EXCEPT ![r] = [pc |-> "seen",
                   head |-> Feed!Kept(Feed!PinOverlay(req[r].list, queue), pinned),
                   list |-> Feed!Without(Feed!PinOverlay(req[r].list, queue), pinned)]]
  BY DEF Feed!ReadPins
<1>3. queue \in Seq([bot: Bots, rank: Nat \ {0}])
          /\ \A i, j \in DOMAIN queue: queue[i].bot = queue[j].bot => i = j
  <2>1. IsFiniteSet(pins) /\ Cardinality(pins) \in Nat
    BY <1>1, PinsFinite, FS_CardinalityType
  <2>2. queue \in [1..Cardinality(pins) -> pins] /\ \A i, j \in 1..Cardinality(pins): i # j
            => queue[i] # queue[j]
    BY Counted DEF Feed!InRankOrder, Feed!SetToSeqs
  <2>3. pins \subseteq [bot: Bots, rank: Nat \ {0}]
    BY <1>1 DEF Feed!TypeOK, Feed!Ranks
  <2>4. queue \in Seq(pins) /\ DOMAIN queue = 1..Cardinality(pins)
    BY <2>1, <2>2
  <2>5. queue \in Seq([bot: Bots, rank: Nat \ {0}])
    BY <2>3, <2>4, SeqMonotonic
  <2> QED
    BY <1>1, <2>2, <2>4, <2>5 DEF Feed!TypeOK
<1> DEFINE list == Feed!PinOverlay(req[r].list, queue)
<1>4. list \in Slates
  BY <1>1, <1>3, ReqFields, OverlayFacts DEF Slates
<1> HIDE DEF list, pinned
<1>5. /\ Feed!Kept(list, pinned) \in Slates /\ Feed!Without(list, pinned) \in Slates
      /\ Feed!ToSet(Feed!Kept(list, pinned)) \cap Feed!ToSet(Feed!Without(list, pinned)) = {}
  BY <1>4, SlateOf
<1>6. req' = [req EXCEPT ![r]
          = [pc |-> "seen", head |-> Feed!Kept(list, pinned), list |-> Feed!Without(list, pinned)]]
  BY <1>2 DEF list, pinned
<1>7. /\ req' \in [Requests -> ReqRec] /\ \A q \in Requests: q # r => req'[q] = req[q]
      /\ req'[r].pc = "seen" /\ req'[r].head = Feed!Kept(list, pinned)
          /\ req'[r].list = Feed!Without(list, pinned)
  <2>1. req \in [Requests -> ReqRec]
    BY <1>1, ReqFields
  <2>2. [pc |-> "seen", head |-> Feed!Kept(list, pinned), list |-> Feed!Without(list, pinned)]
            \in ReqRec
    BY <1>5 DEF ReqRec, Feed!Steps
  <2> QED
    BY <1>6, <2>1, <2>2
<1>8. budget' \in [changes: 0..Changes, faults: 0..Faults] /\ excused' \in BOOLEAN
  BY <1>1 DEF Feed!TypeOK
<1>9. ~Feed!At(r, "record") /\ ~Feed!At(r, "record")' /\ ~Feed!At(r, "hydrate")'
          /\ ~Feed!At(r, "compose")'
  BY <1>1, <1>7 DEF Feed!At
<1>10. ~excused' => \A q \in Requests: q # r => Feed!At(q, "idle")
  BY <1>1, Alone DEF Feed!At
<1>11. Feed!ToSet(req[r].head)' \cap Feed!ToSet(req[r].list)' = {}
  BY <1>5, <1>7
<1> QED
  BY <1>1, <1>7, <1>8, <1>9, <1>10, <1>11, Begins

LEMMA RedisType ==
    ASSUME Feed!TypeOK, NEW value, NEW nothing, NEW result, Feed!Redis(value, nothing, result)
    PROVE  /\ budget' \in [changes: 0..Changes, faults: 0..Faults] /\ excused' \in BOOLEAN
           /\ excused => excused'
           /\ ~excused' => result = value
BY FaultType DEF Feed!Redis, Feed!TypeOK

LEMMA ReadSeenKeeps ==
    ASSUME FeedInv, NEW r \in Requests, Feed!ReadSeen(r), UNCHANGED <<active, pins, blob, rank>>
    PROVE  FeedInv'
<1>1. Feed!TypeOK /\ Feed!At(r, "seen") /\ UNCHANGED <<marked, Feed!history>>
  BY DEF FeedInv, Feed!ReadSeen
<1>2. PICK known \in {marked, {}} :
        /\ Feed!Redis(marked, {}, known)
        /\ req' = [req EXCEPT ![r] = [pc |-> "compose",
                      head |-> Feed!DedupPins(@.head, known),
                      list |-> Feed!Shuffle(Feed!Without(@.list, known), Order)]]
  BY DEF Feed!ReadSeen
<1> DEFINE head == Feed!Without(req[r].head, known)
           list == Feed!Kept(Order, Feed!ToSet(Feed!Without(req[r].list, known)))
<1>3. head \in Slates /\ Feed!ToSet(head) = Feed!ToSet(req[r].head) \ known
  BY <1>1, ReqFields, SlateOf
<1>4. list \in Slates /\ Feed!ToSet(list) \subseteq Feed!ToSet(req[r].list) \ known
  <2>1. Order \in Slates
    BY FeedConstants, ArrangementsAre, Counted DEF Feed!FeedAssumption
  <2>2. Feed!ToSet(Feed!Without(req[r].list, known)) = Feed!ToSet(req[r].list) \ known
    BY <1>1, ReqFields, SlateOf
  <2> QED
    BY <2>1, <2>2, SlateOf
<1>5. req' = [req EXCEPT ![r] = [pc |-> "compose", head |-> head, list |-> list]]
  BY <1>2 DEF Feed!DedupPins, Feed!Shuffle
<1> HIDE DEF head, list
<1>6. /\ req' \in [Requests -> ReqRec] /\ \A q \in Requests: q # r => req'[q] = req[q]
      /\ req'[r].pc = "compose" /\ req'[r].head = head /\ req'[r].list = list
  <2>1. req \in [Requests -> ReqRec]
    BY <1>1, ReqFields
  <2>2. [pc |-> "compose", head |-> head, list |-> list] \in ReqRec
    BY <1>3, <1>4 DEF ReqRec, Feed!Steps
  <2> QED
    BY <1>5, <2>1, <2>2
<1>7. /\ budget' \in [changes: 0..Changes, faults: 0..Faults] /\ excused' \in BOOLEAN
      /\ excused => excused'
      /\ ~excused' => known = marked
  BY <1>1, <1>2, RedisType
<1>8. Feed!TypeOK'
  BY <1>1, <1>6, <1>7, ListsAre DEF Feed!TypeOK, ReqRec, Feed!history
<1>9. Apart'
  <2>1. Feed!ToSet(head) \cap Feed!ToSet(list) = {}
    BY <1>1, <1>3, <1>4 DEF FeedInv, Apart
  <2> QED
    BY <1>6, <2>1 DEF FeedInv, Apart, Feed!At
<1>10. Offered' /\ Feed!NothingShownTwice'
  BY <1>1, <1>6, <1>7 DEF FeedInv, Offered, Feed!SeenWasOffered, Feed!NothingShownTwice,
      Feed!At, Feed!history
<1>11. ASSUME ~excused'
       PROVE  OneAtATime' /\ Recorded' /\ Fresh'
  <2>1. OneAtATime /\ Recorded /\ Fresh /\ known = marked
    BY <1>7, <1>11 DEF FeedInv
  <2>2. \A q \in Requests: q # r => Feed!At(q, "idle")
    BY <1>1, <1>7, <1>11, Alone DEF Feed!At
  <2>3. OneAtATime'
    BY <1>6, <2>2 DEF OneAtATime, Feed!At
  <2>4. shown \subseteq marked
    BY <1>1, <2>1, <2>2 DEF Recorded, Feed!At
  <2>5. Recorded'
    BY <1>1, <2>4 DEF Recorded, Feed!history
  <2>6. Feed!ToSet(head) \cap shown = {} /\ Feed!ToSet(list) \cap shown = {}
    BY <1>3, <1>4, <2>1, <2>4
  <2>7. Fresh'
    BY <1>1, <1>6, <2>2, <2>6 DEF Fresh, Feed!At, Feed!history
  <2> QED
    BY <2>3, <2>5, <2>7
<1> QED
  BY <1>8, <1>9, <1>10, <1>11 DEF FeedInv

LEMMA PageFacts ==
    ASSUME NEW list \in Slates, NEW offset \in Nat
    PROVE  Feed!PageOf(list, offset) \in Slates
               /\ Feed!ToSet(Feed!PageOf(list, offset)) \subseteq Feed!ToSet(list)
<1> DEFINE n == Feed!Smaller(offset + Limit, Len(list))
<1>1. list \in Seq(Bots) /\ Distinct(list) /\ Len(list) \in Nat /\ Limit \in Nat
  BY FeedConstants, Counted DEF Slates, Feed!FeedAssumption
<1>2. n \in 0..Len(list) /\ offset + 1 \in Nat \ {0}
  BY <1>1 DEF Feed!Smaller
<1> HIDE DEF n
<1>3. /\ SubSeq(list, offset + 1, n) \in Seq(Bots) /\ Distinct(SubSeq(list, offset + 1, n))
      /\ \A b: b \in Feed!ToSet(SubSeq(list, offset + 1, n)) <=> \E i \in offset + 1..n: list[i]
          = b
  BY <1>1, <1>2, Sliced
<1>4. \A i \in offset + 1..n: i \in 1..Len(list)
  BY <1>1, <1>2
<1>5. Feed!ToSet(SubSeq(list, offset + 1, n)) \subseteq Feed!ToSet(list)
  BY <1>1, <1>3, <1>4, ToSetOfSeq
<1> QED
  BY <1>3, <1>5 DEF Feed!PageOf, n, Slates

LEMMA ComposePageKeeps ==
    ASSUME FeedInv, NEW r \in Requests, Feed!ComposePage(r),
           UNCHANGED <<active, pins, blob, rank>>
    PROVE  FeedInv'
<1>1. Feed!TypeOK /\ Feed!At(r, "compose")
          /\ UNCHANGED <<marked, shown, skipped, repeated, excused, budget>>
  BY DEF FeedInv, Feed!ComposePage
<1>2. PICK composed \in Feed!Arrangements(req[r].list):
        LET slate == req[r].head \o composed
        IN  /\ Feed!Goto(r, "hydrate", Feed!PageOf(slate, client.next))
            /\ client' = IF ~client.pages THEN client
                         ELSE IF client.next + Limit < Len(slate)
                              THEN [client EXCEPT !.next = @ + Limit]
                              ELSE [client EXCEPT !.ended = TRUE]
  BY DEF Feed!ComposePage
<1> DEFINE slate == req[r].head \o composed
           page == Feed!PageOf(slate, client.next)
<1>3. composed \in Slates /\ Feed!ToSet(composed) = Feed!ToSet(req[r].list)
  BY <1>1, ReqFields, ArrangementsAre DEF Feed!Arrangements
<1>4. slate \in Slates /\ Feed!ToSet(slate) = Feed!ToSet(req[r].head) \cup Feed!ToSet(req[r].list)
  <2>1. Feed!ToSet(req[r].head) \cap Feed!ToSet(composed) = {}
    BY <1>1, <1>3 DEF FeedInv, Apart
  <2>2. req[r].head \in Seq(Bots) /\ Distinct(req[r].head) /\ composed \in Seq(Bots)
            /\ Distinct(composed)
    BY <1>1, <1>3, ReqFields DEF Slates
  <2> QED
    BY <1>3, <2>1, <2>2, Joined DEF Slates
<1>5. client \in [pages: BOOLEAN, next: Nat, ended: BOOLEAN] /\ Limit \in Nat
  BY <1>1, FeedConstants, Counted DEF Feed!TypeOK, Feed!FeedAssumption
<1>6. client' \in [pages: BOOLEAN, next: Nat, ended: BOOLEAN]
  <2>1. \/ client' = client
        \/ client' = [client EXCEPT !.next = @ + Limit]
        \/ client' = [client EXCEPT !.ended = TRUE]
    BY <1>2
  <2>2. client.next + Limit \in Nat
    BY <1>5
  <2>3. CASE client' = client
    BY <1>5, <2>3
  <2>4. CASE client' = [client EXCEPT !.next = @ + Limit]
    BY <1>5, <2>2, <2>4
  <2>5. CASE client' = [client EXCEPT !.ended = TRUE]
    BY <1>5, <2>5
  <2> QED
    BY <2>1, <2>3, <2>4, <2>5
<1> HIDE DEF slate
<1>7. page \in Slates /\ Feed!ToSet(page) \subseteq Feed!ToSet(slate)
  BY <1>4, <1>5, PageFacts
<1>8. Feed!Goto(r, "hydrate", page)
  BY <1>2 DEF slate
<1> HIDE DEF page
<1>9. /\ req' \in [Requests -> ReqRec] /\ \A q \in Requests: q # r => req'[q] = req[q]
      /\ req'[r].pc = "hydrate" /\ req'[r].list = page
  BY <1>1, <1>7, <1>8, Moved DEF Feed!Steps
<1>10. Feed!TypeOK'
  BY <1>1, <1>6, <1>9, ListsAre DEF Feed!TypeOK, ReqRec
<1>11. Apart'
  BY <1>9 DEF FeedInv, Apart, Feed!At
<1>12. Offered' /\ Feed!NothingShownTwice'
  BY <1>1, <1>9 DEF FeedInv, Offered, Feed!SeenWasOffered, Feed!NothingShownTwice, Feed!At
<1>13. ASSUME ~excused'
       PROVE  OneAtATime' /\ Recorded' /\ Fresh'
  <2>1. OneAtATime /\ Recorded /\ Fresh /\ \A q \in Requests: q # r => Feed!At(q, "idle")
    BY <1>1, <1>13, Alone DEF FeedInv, Feed!At
  <2>2. OneAtATime'
    BY <1>9, <2>1 DEF OneAtATime, Feed!At
  <2>3. Recorded'
    BY <1>1, <1>9, <2>1 DEF Recorded, Feed!At
  <2>4. Feed!ToSet(page) \cap shown = {}
    BY <1>1, <1>4, <1>7, <2>1 DEF Fresh
  <2>5. Fresh'
    BY <1>1, <1>9, <2>1, <2>4 DEF Fresh, Feed!At
  <2> QED
    BY <2>2, <2>3, <2>5
<1> QED
  BY <1>10, <1>11, <1>12, <1>13 DEF FeedInv

LEMMA HydrateKeeps ==
    ASSUME FeedInv, NEW r \in Requests, Feed!Hydrate(r), UNCHANGED <<active, pins, blob, rank>>
    PROVE  FeedInv'
<1>1. Feed!TypeOK /\ Feed!At(r, "hydrate") /\ UNCHANGED <<marked, client, excused, budget>>
  BY DEF FeedInv, Feed!Hydrate
<1> DEFINE page == Feed!ToSet(req[r].list)
<1>2. /\ shown' = shown \cup (page \cap active)
      /\ skipped' = skipped \cup (page \ active)
      /\ repeated' = (repeated \/ shown \cap page \cap active # {})
      /\ req' = [req EXCEPT ![r] = IF page = {} THEN Feed!Idle ELSE [@ EXCEPT !.pc = "record"]]
  BY DEF Feed!Hydrate
<1>3. page \subseteq Bots /\ req \in [Requests -> ReqRec]
  BY <1>1, ReqFields
<1> HIDE DEF page
<1>4. /\ req' \in [Requests -> ReqRec] /\ \A q \in Requests: q # r => req'[q] = req[q]
      /\ page # {} => req'[r].pc = "record" /\ req'[r].list = req[r].list
      /\ page = {} => req'[r].pc = "idle"
  <2>1. Feed!Idle \in ReqRec /\ [req[r] EXCEPT !.pc = "record"] \in ReqRec
    BY <1>3, EmptySlate DEF Feed!Idle, ReqRec, Feed!Steps
  <2> QED
    BY <1>2, <1>3, <2>1 DEF Feed!Idle, ReqRec
<1>5. Feed!TypeOK'
  BY <1>1, <1>2, <1>3, <1>4, ListsAre DEF Feed!TypeOK, ReqRec
<1>6. Apart'
  BY <1>4 DEF FeedInv, Apart, Feed!At
<1>7. Offered'
  BY <1>1, <1>2, <1>4 DEF FeedInv, Offered, Feed!SeenWasOffered, Feed!At, page
<1>8. ASSUME ~excused'
       PROVE  ~repeated' /\ OneAtATime' /\ Recorded' /\ Fresh'
  <2>1. /\ OneAtATime /\ Recorded /\ Fresh /\ \A q \in Requests: q # r => Feed!At(q, "idle")
        /\ ~repeated
    BY <1>1, <1>8, Alone DEF FeedInv, Feed!At, Feed!NothingShownTwice
  <2>2. OneAtATime'
    BY <1>4, <2>1 DEF OneAtATime, Feed!At
  <2>3. Recorded'
    BY <1>1, <1>2, <1>4, <2>1 DEF Recorded, Feed!At, page
  <2>4. page \cap shown = {}
    BY <1>1, <2>1 DEF Fresh, page
  <2>5. Fresh'
    BY <1>1, <1>2, <1>4, <2>1 DEF Fresh, Feed!At
  <2> QED
    BY <1>2, <2>1, <2>2, <2>3, <2>4, <2>5
<1>9. Feed!NothingShownTwice'
  BY <1>1, <1>8 DEF FeedInv, Feed!NothingShownTwice
<1> QED
  BY <1>5, <1>6, <1>7, <1>8, <1>9 DEF FeedInv

LEMMA RecordKeeps ==
    ASSUME FeedInv, NEW r \in Requests, Feed!Record(r), UNCHANGED <<active, pins, blob, rank>>
    PROVE  FeedInv'
<1>1. Feed!TypeOK /\ Feed!At(r, "record") /\ UNCHANGED Feed!history
  BY DEF FeedInv, Feed!Record
<1>2. PICK done \in {marked \cup Feed!ToSet(req[r].list), marked}:
        Feed!Redis(marked \cup Feed!ToSet(req[r].list), marked, done) /\ marked' = done
  BY DEF Feed!Record
<1> DEFINE page == Feed!ToSet(req[r].list)
<1>3. page \subseteq Bots /\ req \in [Requests -> ReqRec]
  BY <1>1, ReqFields
<1> HIDE DEF page
<1>4. /\ budget' \in [changes: 0..Changes, faults: 0..Faults] /\ excused' \in BOOLEAN
      /\ excused => excused'
      /\ ~excused' => marked' = marked \cup page
  BY <1>1, <1>2, RedisType DEF page
<1>5. /\ req' \in [Requests -> ReqRec] /\ \A q \in Requests: q # r => req'[q] = req[q]
      /\ req'[r].pc = "idle"
  <2>1. Feed!Idle \in ReqRec /\ req' = [req EXCEPT ![r] = Feed!Idle]
    BY EmptySlate DEF Feed!Idle, ReqRec, Feed!Steps, Feed!Record
  <2> QED
    BY <1>3, <2>1 DEF Feed!Idle, ReqRec
<1>6. marked' \subseteq marked \cup page /\ page \subseteq shown \cup skipped
  BY <1>1, <1>2 DEF FeedInv, Offered, page
<1>7. Feed!TypeOK'
  BY <1>1, <1>3, <1>4, <1>5, <1>6, ListsAre DEF Feed!TypeOK, ReqRec, Feed!history
<1>8. Apart'
  BY <1>5 DEF FeedInv, Apart, Feed!At
<1>9. Offered'
  BY <1>1, <1>5, <1>6 DEF FeedInv, Offered, Feed!SeenWasOffered, Feed!At, Feed!history
<1>10. Feed!NothingShownTwice'
  BY <1>1, <1>4 DEF FeedInv, Feed!NothingShownTwice, Feed!history
<1>11. ASSUME ~excused'
       PROVE  OneAtATime' /\ Recorded' /\ Fresh'
  <2>1. OneAtATime /\ Recorded /\ Fresh /\ \A q \in Requests: q # r => Feed!At(q, "idle")
    BY <1>1, <1>4, <1>11, Alone DEF FeedInv, Feed!At
  <2>2. OneAtATime'
    BY <1>5, <2>1 DEF OneAtATime, Feed!At
  <2>3. Recorded'
    BY <1>1, <1>4, <1>5, <1>11, <2>1 DEF Recorded, Feed!At, Feed!history, page
  <2>4. Fresh'
    BY <1>1, <1>5, <2>1 DEF Fresh, Feed!At, Feed!history
  <2> QED
    BY <2>2, <2>3, <2>4
<1> QED
  BY <1>7, <1>8, <1>9, <1>10, <1>11 DEF FeedInv

LEMMA FeedInvInductive == FeedInv /\ [Feed!Next]_(Feed!vars) => FeedInv'
<1> SUFFICES ASSUME FeedInv, [Feed!Next]_(Feed!vars)
             PROVE  FeedInv'
  OBVIOUS
<1>1. ASSUME NEW b \in Bots, Feed!Edit(b)
      PROVE  FeedInv'
  BY <1>1, EditKeeps
<1>2. ASSUME NEW r \in Rankers, Feed!RankStep(r)
      PROVE  FeedInv'
  BY <1>2, RankerKeeps
<1>3. CASE Feed!Expire
  BY <1>3, ExpiryKeeps
<1>4. ASSUME NEW r \in Requests, Feed!Serve(r)
      PROVE  FeedInv'
  <2>1. UNCHANGED <<active, pins, blob, rank>>
    BY <1>4 DEF Feed!Serve
  <2>2. \/ Feed!ReadFeed(r) \/ Feed!Fallback(r) \/ Feed!ReadPins(r) \/ Feed!ReadSeen(r)
        \/ Feed!ComposePage(r) \/ Feed!Hydrate(r) \/ Feed!Record(r)
    BY <1>4 DEF Feed!Serve
  <2> QED
    BY <2>1, <2>2, ReadFeedKeeps, FallbackKeeps, ReadPinsKeeps, ReadSeenKeeps, ComposePageKeeps,
        HydrateKeeps, RecordKeeps
<1>5. CASE UNCHANGED Feed!vars
  <2>1. Feed!TypeOK'
    BY <1>5 DEF FeedInv, Feed!TypeOK, Feed!vars
  <2> QED
    BY <1>5, <2>1, OthersKeep DEF Feed!vars, Feed!history
<1> QED
  BY <1>1, <1>2, <1>3, <1>4, <1>5 DEF Feed!Next

THEOREM FeedInvHolds == Feed!Spec => []FeedInv
BY FeedStart, FeedInvInductive, PTL DEF Feed!Spec

-----------------------------------------------------------------------------
(* Counting. *)

LEMMA Span ==
    ASSUME NEW m \in Int, NEW n \in Int
    PROVE  /\ IsFiniteSet(m..n)
           /\ m <= n => Cardinality(m..n) = n - m + 1
           /\ m > n => Cardinality(m..n) = 0
BY FS_Interval

LEMMA Fits ==
    ASSUME NEW S, NEW T, IsFiniteSet(T), NEW f \in [S -> T], \A x, y \in S: f[x] = f[y] => x = y
    PROVE  /\ IsFiniteSet(S) /\ Cardinality(S) \in Nat /\ Cardinality(T) \in Nat
           /\ Cardinality(S) <= Cardinality(T)
<1>1. f \in Injection(S, T)
  BY DEF Injection, IsInjective
<1> QED
  BY <1>1, FS_Injection, FS_CardinalityType

LEMMA AllTaken ==
    ASSUME NEW S, IsFiniteSet(S), NEW f \in [S -> S], \A x, y \in S: f[x] = f[y] => x = y
    PROVE  \A z \in S: \E x \in S: f[x] = z
<1>1. f \in Injection(S, S)
  BY DEF Injection, IsInjective
<1>2. f \in Surjection(S, S)
  BY <1>1, FS_Injection
<1> QED
  BY <1>2 DEF Surjection

LEMMA Part ==
    ASSUME NEW S, IsFiniteSet(S), NEW T \in SUBSET S
    PROVE  /\ IsFiniteSet(T) /\ Cardinality(T) \in Nat /\ Cardinality(S) \in Nat
           /\ Cardinality(T) <= Cardinality(S)
           /\ T # S => Cardinality(T) < Cardinality(S)
<1>1. /\ IsFiniteSet(T) /\ Cardinality(T) <= Cardinality(S)
          /\ (Cardinality(S) = Cardinality(T) => S = T)
  BY FS_Subset
<1>2. Cardinality(T) \in Nat /\ Cardinality(S) \in Nat
  BY <1>1, FS_CardinalityType
<1> QED
  BY <1>1, <1>2

-----------------------------------------------------------------------------
(* Archetypes in turn, of a table kind of the archetype at each place. *)

Nth(kind, i) == Cardinality({j \in 1..i : kind[j] = kind[i]})
Before(kind, i, j) ==
    \/ Nth(kind, i) < Nth(kind, j)
    \/ Nth(kind, i) = Nth(kind, j) /\ kind[i] < kind[j]

LEMMA NthIs ==
    ASSUME NEW N \in Nat, NEW kind \in [1..N -> Int], NEW i \in 1..N
    PROVE  /\ Nth(kind, i) \in 1..i
           /\ \A j \in 1..N: i < j /\ kind[i] = kind[j] => Nth(kind, i) < Nth(kind, j)
<1> DEFINE A == {m \in 1..i : kind[m] = kind[i]}
<1>1. IsFiniteSet(1..i) /\ Cardinality(1..i) = i
  BY Span
<1>2. A \subseteq 1..i /\ i \in A
  OBVIOUS
<1>3. IsFiniteSet(A) /\ Cardinality(A) \in Nat /\ Cardinality(A) <= i
  BY <1>1, <1>2, Part
<1>4. Cardinality(A) # 0
  BY <1>2, <1>3, FS_EmptySet
<1>5. ASSUME NEW j \in 1..N, i < j, kind[i] = kind[j]
      PROVE  Nth(kind, i) < Nth(kind, j)
  <2> DEFINE B == {m \in 1..j : kind[m] = kind[j]}
  <2>1. IsFiniteSet(1..j)
    BY Span
  <2>2. B \subseteq 1..j
    OBVIOUS
  <2>3. IsFiniteSet(B)
    BY <2>1, <2>2, Part
  <2>4. A \subseteq B /\ j \in B /\ j \notin A
    BY <1>5
  <2> HIDE DEF A, B
  <2>5. Cardinality(A) < Cardinality(B)
    BY <2>3, <2>4, Part
  <2> QED
    BY <2>5 DEF Nth, A, B
<1>6. Nth(kind, i) = Cardinality(A)
  BY DEF Nth
<1> HIDE DEF A
<1> QED
  BY <1>3, <1>4, <1>5, <1>6

LEMMA BeforeIs ==
    ASSUME NEW N \in Nat, NEW kind \in [1..N -> Int]
    PROVE  /\ \A i \in 1..N: ~Before(kind, i, i)
           /\ \A i, j \in 1..N: i # j => Before(kind, i, j) \/ Before(kind, j, i)
           /\ \A i, j, k \in 1..N: Before(kind, i, j) /\ Before(kind, j, k) => Before(kind, i, k)
<1>1. \A i \in 1..N: Nth(kind, i) \in Nat
  BY NthIs
<1>2. \A i, j \in 1..N: Nth(kind, i) = Nth(kind, j) /\ kind[i] = kind[j] => i = j
  <2> SUFFICES ASSUME NEW i \in 1..N, NEW j \in 1..N, i < j, kind[i] = kind[j]
               PROVE  Nth(kind, i) # Nth(kind, j)
    OBVIOUS
  <2>1. Nth(kind, i) < Nth(kind, j)
    BY NthIs
  <2> QED
    BY <1>1, <2>1
<1>3. \A i, j \in 1..N: i # j => Before(kind, i, j) \/ Before(kind, j, i)
  <2> TAKE i, j \in 1..N
  <2>1. kind[i] \in Int /\ kind[j] \in Int
    OBVIOUS
  <2> QED
    BY <1>1, <1>2, <2>1 DEF Before
<1>4. ASSUME NEW i \in 1..N, NEW j \in 1..N, NEW k \in 1..N, Before(kind, i, j),
             Before(kind, j, k)
      PROVE  Before(kind, i, k)
  <2>1. kind[i] \in Int /\ kind[j] \in Int /\ kind[k] \in Int
    OBVIOUS
  <2> QED
    BY <1>1, <1>4, <2>1 DEF Before
<1>5. \A i \in 1..N: ~Before(kind, i, i)
  BY <1>1 DEF Before
<1> QED
  BY <1>3, <1>4, <1>5

\* A sort puts every place at its rank, and every rank is taken.
LEMMA TurnsExist ==
    ASSUME NEW N \in Nat, NEW kind \in [1..N -> Int]
    PROVE  /\ \A n \in 1..N: \E i \in 1..N: Cardinality({j \in 1..N : Before(kind, j, i)}) = n - 1
           /\ \A i, j \in 1..N: Before(kind, i, j) =>
                Cardinality({k \in 1..N : Before(kind, k, i)})
                    < Cardinality({k \in 1..N : Before(kind, k, j)})
           /\ \A i \in 1..N: Cardinality({k \in 1..N : Before(kind, k, i)}) \in 0..(N - 1)
<1> DEFINE Ahead(i) == {k \in 1..N : Before(kind, k, i)}
<1>0. IsFiniteSet(1..N) /\ Cardinality(1..N) = N
  BY Span
<1>1. \A i \in 1..N: /\ Ahead(i) \in SUBSET (1..N) /\ IsFiniteSet(Ahead(i))
                     /\ Cardinality(Ahead(i)) \in 0..(N - 1)
  <2> TAKE i \in 1..N
  <2>1. Ahead(i) \subseteq 1..N /\ i \notin Ahead(i)
    BY BeforeIs
  <2> HIDE DEF Ahead
  <2>2. IsFiniteSet(Ahead(i)) /\ Cardinality(Ahead(i)) \in Nat /\ Cardinality(Ahead(i)) < N
    BY <1>0, <2>1, Part
  <2> QED
    BY <2>1, <2>2
<1>2. ASSUME NEW i \in 1..N, NEW j \in 1..N, Before(kind, i, j)
      PROVE  Cardinality(Ahead(i)) < Cardinality(Ahead(j))
  <2>1. \A k \in 1..N: Before(kind, k, i) => Before(kind, k, j)
    BY <1>2, BeforeIs
  <2>2. ~Before(kind, i, i)
    BY BeforeIs
  <2>3. Ahead(i) \subseteq Ahead(j) /\ i \in Ahead(j) /\ i \notin Ahead(i)
    BY <1>2, <2>1, <2>2
  <2>4. IsFiniteSet(Ahead(j))
    BY <1>1
  <2> HIDE DEF Ahead
  <2> QED
    BY <2>3, <2>4, Part
<1> HIDE DEF Ahead
<1> DEFINE f == [i \in 1..N |-> Cardinality(Ahead(i)) + 1]
<1>3. f \in [1..N -> 1..N]
  BY <1>1
<1>4. ASSUME NEW i \in 1..N, NEW j \in 1..N, f[i] = f[j]
      PROVE  i = j
  <2>1. Cardinality(Ahead(i)) = Cardinality(Ahead(j)) /\ Cardinality(Ahead(i)) \in Int
    BY <1>1, <1>4
  <2>2. ~Before(kind, i, j) /\ ~Before(kind, j, i)
    BY <1>2, <2>1
  <2> QED
    BY <2>2, BeforeIs
<1> HIDE DEF f
<1>5. \A n \in 1..N: \E i \in 1..N: f[i] = n
  <2> DEFINE P == 1..N
  <2>1. \A i, j \in P: f[i] = f[j] => i = j
    BY <1>4
  <2>2. f \in [P -> P] /\ IsFiniteSet(P)
    BY <1>0, <1>3
  <2> HIDE DEF P
  <2>3. \A n \in P: \E i \in P: f[i] = n
    BY <2>1, <2>2, AllTaken
  <2> QED
    BY <2>3 DEF P
<1>6. \A n \in 1..N: \E i \in 1..N: Cardinality(Ahead(i)) = n - 1
  <2> TAKE n \in 1..N
  <2>1. PICK i \in 1..N: f[i] = n
    BY <1>5
  <2>2. Cardinality(Ahead(i)) \in Nat /\ Cardinality(Ahead(i)) + 1 = n
    BY <1>1, <2>1 DEF f
  <2> QED
    BY <2>2
<1> QED
  BY <1>1, <1>2, <1>6 DEF Ahead

\* In that order an archetype gets ahead of another one that has places left by one.
Turned(N, kind, turn) ==
    /\ turn \in [1..N -> 1..N]
    /\ \A p, q \in 1..N: p < q => Before(kind, turn[p], turn[q])
    /\ \A i \in 1..N: \E p \in 1..N: turn[p] = i

\* How often the first p turns show the kind of the i-th one.
Shown(kind, turn, p, i) == Cardinality({q \in 1..p : kind[turn[q]] = kind[turn[i]]})

LEMMA InTurn ==
    ASSUME NEW N \in Nat, NEW kind \in [1..N -> Int], NEW turn, Turned(N, kind, turn),
           NEW p \in 1..N, NEW k \in p + 1..N
    PROVE  Shown(kind, turn, p, p) <= Shown(kind, turn, p, k) + 1
<1> DEFINE x == turn[p]
           y == turn[k]
           R == Nth(kind, x)
           Q == Nth(kind, y)
           Mine == {q \in 1..p : kind[turn[q]] = kind[x]}
           Theirs == {q \in 1..p : kind[turn[q]] = kind[y]}
<1>0. x \in 1..N /\ y \in 1..N /\ k \in 1..N /\ p < k
  BY DEF Turned
<1>1. \A q \in 1..p: q \in 1..N /\ turn[q] \in 1..N /\ (q = p \/ Before(kind, turn[q], x))
  <2> TAKE q \in 1..p
  <2>1. q \in 1..N /\ (q = p \/ q < p)
    OBVIOUS
  <2> QED
    BY <2>1 DEF Turned
<1>2. \A q \in 1..N: q > p => Before(kind, x, turn[q])
  BY DEF Turned
<1>3. Before(kind, x, y)
  BY <1>0, <1>2
<1>4. \A q, s \in 1..N: turn[q] = turn[s] => q = s
  <2> SUFFICES ASSUME NEW q \in 1..N, NEW s \in 1..N, q < s
               PROVE  turn[q] # turn[s]
    OBVIOUS
  <2>1. Before(kind, turn[q], turn[s]) /\ turn[q] \in 1..N
    BY DEF Turned
  <2> QED
    BY <2>1, BeforeIs
<1> HIDE DEF x, y
<1>5. \A i \in 1..N: kind[i] \in Int /\ Nth(kind, i) \in Nat /\ Nth(kind, i) > 0
  <2> TAKE i \in 1..N
  <2>1. Nth(kind, i) \in 1..i
    BY NthIs
  <2>2. i \in Nat /\ kind[i] \in Int
    OBVIOUS
  <2> QED
    BY <2>1, <2>2
<1>6. \A i, j \in 1..N: i < j /\ kind[i] = kind[j] => Nth(kind, i) < Nth(kind, j)
  BY NthIs
<1>7. R \in Nat /\ R > 0 /\ Q \in Nat /\ R <= Q
  <2>1. kind[x] \in Int /\ kind[y] \in Int /\ R \in Nat /\ R > 0 /\ Q \in Nat
    BY <1>0, <1>5
  <2>2. R < Q \/ R = Q
    BY <1>3 DEF Before
  <2> QED
    BY <2>1, <2>2
<1>8. Cardinality(Mine) <= R /\ Cardinality(Mine) \in Nat
  <2> DEFINE C == {j \in 1..x : kind[j] = kind[x]}
             f == [q \in Mine |-> turn[q]]
  <2>1. ASSUME NEW q \in Mine
        PROVE  turn[q] \in C
    <3> DEFINE j == turn[q]
    <3>1. j \in 1..N /\ kind[j] = kind[x] /\ (q = p \/ Before(kind, j, x))
      BY <1>1
    <3> HIDE DEF j
    <3>2. CASE q = p
      <4>1. j = x
        BY <3>2 DEF j, x
      <4> QED
        BY <1>0, <4>1 DEF j
    <3>3. CASE Before(kind, j, x)
      <4>1. Nth(kind, j) < Nth(kind, x)
        <5>1. kind[x] \in Int /\ kind[j] = kind[x]
          BY <1>0, <1>5, <3>1
        <5>2. Nth(kind, j) < Nth(kind, x) \/ kind[j] < kind[x]
          BY <3>3 DEF Before
        <5> QED
          BY <5>1, <5>2
      <4>2. ~(x < j)
        <5>1. x < j => Nth(kind, x) < Nth(kind, j)
          BY <1>0, <1>6, <3>1
        <5>2. Nth(kind, x) \in Nat /\ Nth(kind, j) \in Nat
          BY <1>0, <1>5, <3>1
        <5> QED
          BY <4>1, <5>1, <5>2
      <4>3. j \in 1..x
        BY <1>0, <3>1, <4>2
      <4> QED
        BY <3>1, <4>3 DEF j
    <3> QED
      BY <3>1, <3>2, <3>3
  <2>2. IsFiniteSet(C)
    <3>1. C \subseteq 1..x /\ IsFiniteSet(1..x)
      BY <1>0, Span
    <3> HIDE DEF C
    <3> QED
      BY <3>1, Part
  <2>3. f \in [Mine -> C] /\ \A q, s \in Mine: f[q] = f[s] => q = s
    <3>1. \A q \in Mine: q \in 1..N
      BY <1>1
    <3> HIDE DEF C, Mine
    <3> QED
      BY <1>4, <2>1, <3>1
  <2>4. R = Cardinality(C)
    BY DEF Nth
  <2> HIDE DEF C, f, Mine, R
  <2> QED
    BY <2>2, <2>3, <2>4, Fits
<1>9. R - 1 <= Cardinality(Theirs) /\ Cardinality(Theirs) \in Nat
  <2> DEFINE C == {j \in 1..y : kind[j] = kind[y]}
             D == {j \in C : Nth(kind, j) >= R}
             f == [j \in D |-> Nth(kind, j)]
             E == {j \in C : Nth(kind, j) < R}
             g == [j \in E |-> CHOOSE q \in 1..N: turn[q] = j]
  <2>1. IsFiniteSet(C) /\ Cardinality(C) = Q /\ Cardinality(C) \in Nat
    <3>1. C \subseteq 1..y /\ IsFiniteSet(1..y)
      BY <1>0, Span
    <3>2. Cardinality(C) = Q
      BY DEF Nth
    <3> HIDE DEF C
    <3> QED
      BY <3>1, <3>2, Part
  <2>2. \A j \in C: j \in 1..N /\ kind[j] = kind[y] /\ Nth(kind, j) \in Nat /\ Nth(kind, j) <= Q
    <3> TAKE j \in C
    <3>1. j \in 1..N /\ kind[j] = kind[y] /\ (j < y \/ j = y)
      BY <1>0
    <3>2. Nth(kind, j) \in Nat /\ (j < y => Nth(kind, j) < Q)
      BY <1>0, <1>5, <1>6, <3>1
    <3>3. Nth(kind, j) <= Q
      <4> HIDE DEF C, Q
      <4>1. CASE j = y
        BY <1>7, <4>1 DEF Q
      <4>2. CASE j < y
        BY <1>7, <3>2, <4>2
      <4> QED
        BY <3>1, <4>1, <4>2
    <3> QED
      BY <3>1, <3>2, <3>3
  <2>3. \A i, j \in C: Nth(kind, i) = Nth(kind, j) => i = j
    <3> SUFFICES ASSUME NEW i \in C, NEW j \in C, i < j
                 PROVE  Nth(kind, i) # Nth(kind, j)
      BY <2>2
    <3> HIDE DEF C
    <3>1. Nth(kind, i) < Nth(kind, j)
      BY <1>6, <2>2
    <3> QED
      BY <2>2, <3>1
  <2> HIDE DEF C, R, Q
  <2>4. f \in [D -> R..Q] /\ \A i, j \in D: f[i] = f[j] => i = j
    <3>1. \A j \in D: j \in C /\ Nth(kind, j) \in R..Q
      BY <1>7, <2>2
    <3> HIDE DEF D
    <3> QED
      BY <2>3, <3>1
  <2>5. IsFiniteSet(R..Q) /\ Cardinality(R..Q) = Q - R + 1
    BY <1>7, Span
  <2>6. Cardinality(D) \in Nat /\ Cardinality(D) <= Q - R + 1
    <3> DEFINE T == R..Q
    <3>1. f \in [D -> T] /\ IsFiniteSet(T) /\ \A i, j \in D: f[i] = f[j] => i = j
      BY <2>4, <2>5
    <3> HIDE DEF f, D, T
    <3>2. Cardinality(D) \in Nat /\ Cardinality(D) <= Cardinality(T)
      BY <3>1, Fits
    <3> QED
      BY <2>5, <3>2 DEF T
  <2>7. Cardinality(E) = Cardinality(C) - Cardinality(D) /\ IsFiniteSet(E)
    <3>1. E = C \ D /\ C \cap D = D
      <4>1. \A j \in C: Nth(kind, j) < R <=> ~(Nth(kind, j) >= R)
        <5> TAKE j \in C
        <5>1. Nth(kind, j) \in Nat
          BY <2>2
        <5> QED
          BY <1>7, <5>1
      <4> QED
        BY <4>1
    <3> HIDE DEF D, E
    <3>2. IsFiniteSet(C \ D) /\ Cardinality(C \ D) = Cardinality(C) - Cardinality(C \cap D)
      BY <2>1, FS_Difference
    <3> QED
      BY <3>1, <3>2
  <2>8. \A j \in E: g[j] \in Theirs /\ turn[g[j]] = j
    <3> TAKE j \in E
    <3>1. j \in 1..N /\ kind[j] = kind[y] /\ Nth(kind, j) < R
      BY <2>2
    <3>2. g[j] \in 1..N /\ turn[g[j]] = j
      BY <3>1 DEF Turned
    <3>3. Before(kind, j, x)
      BY <3>1 DEF Before, R
    <3> HIDE DEF g, E
    <3>4. ~(g[j] > p)
      <4>1. g[j] > p => Before(kind, x, j)
        BY <1>2, <3>2
      <4>2. ~Before(kind, x, j)
        <5>1. ~Before(kind, x, x)
          BY <1>0, BeforeIs
        <5> QED
          BY <1>0, <3>1, <3>3, <5>1, BeforeIs
      <4> QED
        BY <4>1, <4>2
    <3>5. g[j] \in 1..p
      <4> DEFINE q == g[j]
      <4>1. q \in 1..N /\ ~(q > p)
        BY <3>2, <3>4
      <4> HIDE DEF q
      <4>2. q \in 1..p
        BY <4>1
      <4> QED
        BY <4>2 DEF q
    <3> QED
      BY <3>1, <3>2, <3>5
  <2>9. g \in [E -> Theirs] /\ \A i, j \in E: g[i] = g[j] => i = j
    <3>1. g \in [E -> Theirs]
      <4> DEFINE choice(j) == CHOOSE q \in 1..N: turn[q] = j
      <4>1. \A j \in E: choice(j) \in Theirs
        BY <2>8
      <4> HIDE DEF choice, Theirs, E
      <4>2. [j \in E |-> choice(j)] \in [E -> Theirs]
        BY <4>1
      <4> QED
        BY <4>2 DEF choice
    <3> HIDE DEF g, Theirs, E
    <3> QED
      BY <2>8, <3>1
  <2>10. IsFiniteSet(Theirs)
    <3>1. Theirs \subseteq 1..p /\ IsFiniteSet(1..p)
      BY Span
    <3> HIDE DEF Theirs
    <3> QED
      BY <3>1, Part
  <2> HIDE DEF E, D, Theirs, g
  <2>11. Cardinality(E) <= Cardinality(Theirs) /\ Cardinality(Theirs) \in Nat
             /\ Cardinality(E) \in Nat
    BY <2>9, <2>10, Fits, SMTT(20)
  <2> QED
    BY <1>7, <2>1, <2>6, <2>7, <2>11
<1> HIDE DEF Mine, Theirs, R
<1>10. Cardinality(Mine) <= Cardinality(Theirs) + 1
  BY <1>7, <1>8, <1>9
<1> QED
  BY <1>10 DEF Mine, Theirs, x, y, Shown

Archetype(meta, b) == Feed!Attrs(meta, b).archetype

LEMMA RoundRobinFacts ==
    ASSUME NEW X, NEW list \in Seq(X), NEW meta, \A b: Archetype(meta, b) \in Int
    PROVE  /\ Feed!RoundRobin(list, meta) \in Seq(X)
           /\ Len(Feed!RoundRobin(list, meta)) = Len(list)
           /\ Feed!ToSet(Feed!RoundRobin(list, meta)) = Feed!ToSet(list)
           /\ \A p \in 1..Len(list): \A k \in p + 1..Len(list):
                Cardinality({q \in 1..p : Archetype(meta, Feed!RoundRobin(list, meta)[q])
                                              = Archetype(meta, Feed!RoundRobin(list, meta)[p])})
                <= Cardinality({q \in 1..p : Archetype(meta, Feed!RoundRobin(list, meta)[q])
                                              = Archetype(meta, Feed!RoundRobin(list, meta)[k])})
                    + 1
<1> DEFINE N == Len(list)
           kind == [i \in 1..N |-> Archetype(meta, list[i])]
           Turn(n) ==
               CHOOSE i \in 1..N :
                   Feed!Cardinality({j \in 1..N : Feed!ComesBefore(list, meta, j, i)}) = n - 1
           turn == [n \in 1..N |-> Turn(n)]
           mixed == [n \in 1..N |-> list[Turn(n)]]
           Pos(i) == Cardinality({j \in 1..N : Before(kind, j, i)})
<1>0. N \in Nat /\ DOMAIN list = 1..N /\ (\A i \in 1..N: list[i] \in X)
  BY LenProperties, ElementOfSeq
<1>1. kind \in [1..N -> Int]
  OBVIOUS
<1>2. \A i \in 1..N: Feed!Round(list, meta, i) = Nth(kind, i)
  <2> TAKE i \in 1..N
  <2>1. \A j \in 1..i: j \in 1..N /\ kind[j] = Archetype(meta, list[j])
    BY <1>0
  <2>2. {j \in 1..i : Feed!Attrs(meta, list[j]).archetype = Feed!Attrs(meta, list[i]).archetype}
            = {j \in 1..i : kind[j] = kind[i]}
    BY <2>1 DEF Archetype
  <2> QED
    BY <2>2, Counted DEF Feed!Round, Nth
<1>3. \A i, j \in 1..N: Feed!ComesBefore(list, meta, i, j) <=> Before(kind, i, j)
  BY <1>2 DEF Feed!ComesBefore, Before, Archetype
<1>4. \A i \in 1..N: Cardinality({j \in 1..N : Feed!ComesBefore(list, meta, j, i)}) = Pos(i)
  <2> TAKE i \in 1..N
  <2>1. {j \in 1..N : Feed!ComesBefore(list, meta, j, i)} = {j \in 1..N : Before(kind, j, i)}
    BY <1>3
  <2> QED
    BY <2>1
<1> HIDE DEF kind
<1>5. /\ \A n \in 1..N: \E i \in 1..N: Pos(i) = n - 1
      /\ \A i, j \in 1..N: Before(kind, i, j) => Pos(i) < Pos(j)
      /\ \A i \in 1..N: Pos(i) \in 0..(N - 1)
  BY <1>0, <1>1, TurnsExist
<1> HIDE DEF Pos
<1>6. \A n \in 1..N: turn[n] \in 1..N /\ Pos(turn[n]) = n - 1
  <2> TAKE n \in 1..N
  <2>1. \E i \in 1..N: Feed!Cardinality({j \in 1..N : Feed!ComesBefore(list, meta, j, i)}) = n - 1
    BY <1>4, <1>5, Counted
  <2>2. Turn(n) \in 1..N
            /\ Cardinality({j \in 1..N : Feed!ComesBefore(list, meta, j, Turn(n))}) = n - 1
    BY <2>1, Counted
  <2>3. turn[n] = Turn(n)
    OBVIOUS
  <2> HIDE DEF turn, Turn
  <2> QED
    BY <1>4, <2>2, <2>3
<1>7. Turned(N, kind, turn)
  <2>1. turn \in [1..N -> 1..N]
    <3>1. \A n \in 1..N: Turn(n) \in 1..N
      BY <1>6
    <3> HIDE DEF Turn
    <3> QED
      BY <3>1
  <2> HIDE DEF turn
  <2>2. \A i \in 1..N: Pos(i) \in Int
    <3> TAKE i \in 1..N
    <3> QED
      BY <1>5
  <2>3. \A i, j \in 1..N: Pos(i) = Pos(j) => i = j
    <3> TAKE i, j \in 1..N
    <3>1. Pos(i) \in Int /\ Pos(j) \in Int
      BY <1>5
    <3>2. Before(kind, i, j) \/ Before(kind, j, i) \/ i = j
      BY <1>0, <1>1, BeforeIs
    <3>3. (Before(kind, i, j) => Pos(i) < Pos(j)) /\ (Before(kind, j, i) => Pos(j) < Pos(i))
      BY <1>5
    <3> QED
      BY <3>1, <3>2, <3>3
  <2>4. \A p, q \in 1..N: p < q => Before(kind, turn[p], turn[q])
    <3> SUFFICES ASSUME NEW p \in 1..N, NEW q \in 1..N, p < q
                 PROVE  Before(kind, turn[p], turn[q])
      OBVIOUS
    <3>1. turn[p] \in 1..N /\ turn[q] \in 1..N /\ Pos(turn[p]) < Pos(turn[q])
              /\ Pos(turn[p]) \in Int
      BY <1>6
    <3>2. turn[p] # turn[q] /\ ~Before(kind, turn[q], turn[p])
      <4>1. Before(kind, turn[q], turn[p]) => Pos(turn[q]) < Pos(turn[p])
        BY <1>5, <3>1
      <4>2. Pos(turn[q]) \in Int
        BY <2>2, <3>1
      <4> QED
        BY <3>1, <4>1, <4>2
    <3> QED
      BY <1>0, <1>1, <3>1, <3>2, BeforeIs
  <2>5. \A i \in 1..N: \E p \in 1..N: turn[p] = i
    <3> TAKE i \in 1..N
    <3>1. Pos(i) \in 0..(N - 1)
      BY <1>5
    <3> DEFINE p == Pos(i) + 1
    <3>2. p \in 1..N /\ p - 1 = Pos(i)
      BY <1>0, <3>1
    <3>3. turn[p] \in 1..N /\ Pos(turn[p]) = Pos(i)
      BY <1>6, <3>2
    <3> HIDE DEF p
    <3> QED
      BY <2>3, <3>2, <3>3
  <2> QED
    BY <2>1, <2>4, <2>5 DEF Turned
<1>8. Feed!RoundRobin(list, meta) = mixed
  BY Counted DEF Feed!RoundRobin
<1>9. \A n \in 1..N: turn[n] \in 1..N /\ mixed[n] = list[turn[n]]
  <2> TAKE n \in 1..N
  <2>1. mixed[n] = list[Turn(n)] /\ turn[n] = Turn(n)
    OBVIOUS
  <2> QED
    BY <1>6, <2>1
<1>10. DOMAIN mixed = 1..N /\ mixed \in [1..N -> X]
  <2>1. \A n \in 1..N: list[Turn(n)] \in X
    BY <1>0, <1>6
  <2> HIDE DEF Turn
  <2> QED
    BY <2>1
<1>11. mixed \in Seq(X) /\ Len(mixed) = N
  <2> HIDE DEF mixed, N
  <2> QED
    BY <1>0, <1>10
<1> HIDE DEF mixed, turn
<1>12. Feed!ToSet(mixed) = Feed!ToSet(list)
  <2>1. ASSUME NEW b \in Feed!ToSet(mixed)
        PROVE  b \in Feed!ToSet(list)
    <3>1. PICK n \in 1..N: mixed[n] = b
      BY <1>10 DEF Feed!ToSet
    <3> QED
      BY <1>0, <1>9, <3>1 DEF Feed!ToSet
  <2>2. ASSUME NEW b \in Feed!ToSet(list)
        PROVE  b \in Feed!ToSet(mixed)
    <3>1. PICK i \in 1..N: list[i] = b
      BY <1>0 DEF Feed!ToSet
    <3>2. PICK n \in 1..N: turn[n] = i
      BY <1>7 DEF Turned
    <3>3. mixed[n] = b
      BY <1>9, <3>1, <3>2
    <3> QED
      BY <1>10, <3>3 DEF Feed!ToSet
  <2> QED
    BY <2>1, <2>2
<1>13. \A q \in 1..N: Archetype(meta, mixed[q]) = kind[turn[q]]
  <2> TAKE q \in 1..N
  <2>1. turn[q] \in 1..N /\ mixed[q] = list[turn[q]]
    BY <1>9
  <2> QED
    BY <2>1 DEF kind
<1>14. ASSUME NEW p \in 1..N, NEW k \in p + 1..N
       PROVE  Cardinality({q \in 1..p : Archetype(meta, mixed[q]) = Archetype(meta, mixed[p])})
              <= Cardinality({q \in 1..p : Archetype(meta, mixed[q])
                  = Archetype(meta, mixed[k])}) + 1
  <2>1. k \in 1..N /\ \A q \in 1..p: q \in 1..N
    BY <1>0
  <2>2. Shown(kind, turn, p, p) <= Shown(kind, turn, p, k) + 1
    <3> HIDE DEF N
    <3> QED
      BY <1>0, <1>1, <1>7, InTurn
  <2>3. {q \in 1..p : Archetype(meta, mixed[q]) = Archetype(meta, mixed[p])}
            = {q \in 1..p : kind[turn[q]] = kind[turn[p]]}
    BY <1>13, <2>1
  <2>4. {q \in 1..p : Archetype(meta, mixed[q]) = Archetype(meta, mixed[k])}
            = {q \in 1..p : kind[turn[q]] = kind[turn[k]]}
    BY <1>13, <2>1
  <2> QED
    BY <2>2, <2>3, <2>4 DEF Shown
<1> QED
  BY <1>8, <1>11, <1>12, <1>14

-----------------------------------------------------------------------------
(* The gender guardrail. *)

LEMMA LastOf ==
    ASSUME NEW n \in Nat, NEW T, T \subseteq 1..n, T # {}
    PROVE  Feed!Demote(T) \in T /\ \A k \in T: k <= Feed!Demote(T)
<1> DEFINE U == {n - k : k \in T}
<1>1. U \subseteq Nat /\ U # {}
  <2>1. \A k \in T: k \in 1..n /\ n - k \in Nat
    OBVIOUS
  <2> QED
    BY <2>1
<1>2. PICK u \in U: \A v \in U: u <= v
  BY <1>1, LeastElement
<1>3. PICK j \in T: u = n - j
  BY <1>2
<1>4. \A k \in T: k <= j
  <2> TAKE k \in T
  <2>1. n - k \in U /\ k \in Nat /\ j \in Nat
    OBVIOUS
  <2>2. n - j <= n - k
    BY <1>2, <1>3, <2>1
  <2> QED
    BY <2>1, <2>2
<1> QED
  BY <1>4 DEF Feed!Demote

LEMMA FirstOf ==
    ASSUME NEW T, T \subseteq Nat, T # {}
    PROVE  Feed!Promote(T) \in T
<1>1. \E x \in T: \A y \in T: x <= y
  BY LeastElement
<1> QED
  BY <1>1 DEF Feed!Promote

\* The final of more than m places lies beyond the m-th.
LEMMA BeyondThe ==
    ASSUME NEW n \in Nat, NEW m \in Nat, NEW T, T \subseteq 1..n, Cardinality(T) > m
    PROVE  T # {} /\ Feed!Demote(T) \in T /\ Feed!Demote(T) > m
<1>1. T # {}
  BY FS_EmptySet
<1>2. Feed!Demote(T) \in T /\ \A k \in T: k <= Feed!Demote(T)
  BY <1>1, LastOf
<1> DEFINE d == Feed!Demote(T)
<1> HIDE DEF d
<1>3. d \in 1..n /\ T \subseteq 1..d
  <2>1. d \in 1..n /\ \A k \in T: k \in 1..n /\ k <= d
    BY <1>2 DEF d
  <2> QED
    BY <2>1
<1>4. IsFiniteSet(1..d) /\ Cardinality(1..d) = d
  BY <1>3, Span
<1>5. Cardinality(T) <= d /\ Cardinality(T) \in Nat
  BY <1>3, <1>4, Part
<1> QED
  BY <1>1, <1>2, <1>3, <1>5 DEF d

LEMMA TakenFacts ==
    ASSUME NEW n \in Nat, NEW X, NEW list \in [1..n -> X], NEW meta
    PROVE  /\ \A g: /\ Feed!Taken(list, meta, g) \subseteq 1..n
                        /\ IsFiniteSet(Feed!Taken(list, meta, g))
                    /\ Cardinality(Feed!Taken(list, meta, g)) \in Nat
           /\ \A g, h: g # h =>
                Cardinality(Feed!Taken(list, meta, g)) + Cardinality(Feed!Taken(list, meta, h))
                    <= n
<1>1. ASSUME NEW g
      PROVE  /\ Feed!Taken(list, meta, g) \subseteq 1..n /\ IsFiniteSet(Feed!Taken(list, meta, g))
             /\ Cardinality(Feed!Taken(list, meta, g)) \in Nat
  <2>1. Feed!Taken(list, meta, g) \subseteq 1..n /\ IsFiniteSet(1..n)
    BY Span DEF Feed!Taken
  <2> QED
    BY <2>1, Part
<1>2. ASSUME NEW g, NEW h, g # h
      PROVE  Cardinality(Feed!Taken(list, meta, g)) + Cardinality(Feed!Taken(list, meta, h)) <= n
  <2> DEFINE A == Feed!Taken(list, meta, g)
             B == Feed!Taken(list, meta, h)
  <2>1. A \cap B = {}
    BY <1>2 DEF Feed!Taken
  <2>2. A \cup B \subseteq 1..n /\ IsFiniteSet(1..n) /\ Cardinality(1..n) = n
    BY <1>1, Span
  <2>3. IsFiniteSet(A) /\ IsFiniteSet(B) /\ Cardinality(A) \in Nat /\ Cardinality(B) \in Nat
    BY <1>1
  <2> HIDE DEF A, B
  <2>4. Cardinality(A \cup B) = Cardinality(A) + Cardinality(B) - Cardinality(A \cap B)
    BY <2>3, FS_Union
  <2>5. Cardinality(A \cap B) = 0
    BY <2>1, FS_EmptySet
  <2>6. Cardinality(A \cup B) <= n
    BY <2>2, Part
  <2> QED
    BY <2>3, <2>4, <2>5, <2>6 DEF A, B
<1> QED
  BY <1>1, <1>2

\* A first screen and what comes below it.
Screens(X, n) == [prefix: [1..PrefixLen -> X], tail: [1..n -> X]]
Open(screen, meta) ==
    {g \in Feed!Dominant(screen.prefix, meta) : Feed!Candidates(screen.tail, meta, g) # {}}

LEMMA SwapFacts ==
    ASSUME Feed!ComposerAssumption, NEW n \in Nat, NEW X, NEW screen \in Screens(X, n), NEW meta,
           Open(screen, meta) # {}
    PROVE  LET after == Feed!SwapOnce(screen, meta)
           IN  /\ after \in Screens(X, n)
               /\ Feed!ToSet(after.prefix) \cup Feed!ToSet(after.tail)
                      = Feed!ToSet(screen.prefix) \cup Feed!ToSet(screen.tail)
               /\ \A i \in 1..SkillTopN: after.prefix[i] = screen.prefix[i]
               /\ \A h \in Feed!Dominant(after.prefix, meta):
                    /\ h \in Feed!Dominant(screen.prefix, meta)
                    /\ Cardinality(Feed!Taken(after.prefix, meta, h))
                           < Cardinality(Feed!Taken(screen.prefix, meta, h))
<1> DEFINE P == PrefixLen
           g == CHOOSE x \in Open(screen, meta) : TRUE
           theirs == Feed!Taken(screen.prefix, meta, g)
           out == Feed!Demote(theirs)
           in == Feed!Promote(Feed!Candidates(screen.tail, meta, g))
           after == [prefix |-> [screen.prefix EXCEPT ![out] = screen.tail[in]],
                     tail |-> [screen.tail EXCEPT ![in] = screen.prefix[out]]]
<1>0. /\ SkillTopN \in Nat /\ P \in Nat /\ MaxDominant \in Nat
      /\ SkillTopN <= MaxDominant /\ MaxDominant <= P /\ 2 * MaxDominant >= P
  BY DEF Feed!ComposerAssumption
<1>1. screen.prefix \in [1..P -> X] /\ screen.tail \in [1..n -> X]
  BY DEF Screens
<1>2. Feed!SwapOnce(screen, meta) = after
  BY DEF Feed!SwapOnce, Open
<1>3. g \in Open(screen, meta)
  OBVIOUS
<1>4. /\ g # Feed!Unknown /\ Cardinality(theirs) > MaxDominant
      /\ g \in Feed!Dominant(screen.prefix, meta) /\ Feed!Candidates(screen.tail, meta, g) # {}
  BY <1>3, Counted DEF Open, Feed!Dominant
<1>5. theirs \subseteq 1..P /\ IsFiniteSet(theirs) /\ Cardinality(theirs) \in Nat
  BY <1>0, <1>1, TakenFacts
<1>6. out \in theirs /\ out \in 1..P /\ out > MaxDominant
  <2> HIDE DEF theirs
  <2> QED
    BY <1>0, <1>4, <1>5, BeyondThe
<1>7. in \in 1..n /\ Feed!Attrs(meta, screen.tail[in]).gender # g
  <2>1. Feed!Candidates(screen.tail, meta, g) \subseteq 1..n
    BY <1>1 DEF Feed!Candidates
  <2>2. in \in Feed!Candidates(screen.tail, meta, g)
    <3> HIDE DEF g
    <3>1. Feed!Candidates(screen.tail, meta, g) \subseteq Nat
      BY <2>1
    <3> QED
      BY <1>4, <3>1, FirstOf
  <2> HIDE DEF in, g
  <2> QED
    BY <1>1, <2>1, <2>2 DEF Feed!Candidates, Feed!Taken
<1> HIDE DEF out, in
<1>8. /\ after.prefix \in [1..P -> X] /\ after.tail \in [1..n -> X]
      /\ after.prefix[out] = screen.tail[in] /\ after.tail[in] = screen.prefix[out]
      /\ \A i \in 1..P: i # out => after.prefix[i] = screen.prefix[i]
      /\ \A i \in 1..n: i # in => after.tail[i] = screen.tail[i]
  BY <1>1, <1>6, <1>7
<1>9. after \in Screens(X, n)
  BY <1>8 DEF Screens
<1> HIDE DEF after
<1>10. Feed!ToSet(after.prefix) \cup Feed!ToSet(after.tail)
           = Feed!ToSet(screen.prefix) \cup Feed!ToSet(screen.tail)
  <2>1. /\ Feed!ToSet(after.prefix) = {after.prefix[i] : i \in 1..P}
        /\ Feed!ToSet(after.tail) = {after.tail[i] : i \in 1..n}
        /\ Feed!ToSet(screen.prefix) = {screen.prefix[i] : i \in 1..P}
        /\ Feed!ToSet(screen.tail) = {screen.tail[i] : i \in 1..n}
    BY <1>1, <1>8 DEF Feed!ToSet
  <2>2. ASSUME NEW b \in Feed!ToSet(after.prefix) \cup Feed!ToSet(after.tail)
        PROVE  b \in Feed!ToSet(screen.prefix) \cup Feed!ToSet(screen.tail)
    BY <1>6, <1>7, <1>8, <2>1
  <2>3. ASSUME NEW b \in Feed!ToSet(screen.prefix) \cup Feed!ToSet(screen.tail)
        PROVE  b \in Feed!ToSet(after.prefix) \cup Feed!ToSet(after.tail)
    BY <1>6, <1>7, <1>8, <2>1
  <2> QED
    BY <2>2, <2>3
<1>11. \A i \in 1..SkillTopN: after.prefix[i] = screen.prefix[i]
  <2> TAKE i \in 1..SkillTopN
  <2>1. i \in 1..P /\ i # out
    BY <1>0, <1>6
  <2> QED
    BY <1>8, <2>1
<1>12. Feed!Taken(after.prefix, meta, g) = theirs \ {out}
  <2> HIDE DEF g
  <2>1. DOMAIN after.prefix = 1..P /\ DOMAIN screen.prefix = 1..P
    BY <1>1, <1>8
  <2> QED
    BY <1>6, <1>7, <1>8, <2>1 DEF Feed!Taken, theirs
<1>13. Cardinality(Feed!Taken(after.prefix, meta, g)) = Cardinality(theirs) - 1
  <2> HIDE DEF theirs, g
  <2> QED
    BY <1>5, <1>6, <1>12, FS_RemoveElement
<1>14. ASSUME NEW h \in Feed!Dominant(after.prefix, meta)
       PROVE  h = g
  <2> SUFFICES ASSUME h # g
               PROVE  FALSE
    OBVIOUS
  <2> HIDE DEF g, theirs
  <2>1. Cardinality(Feed!Taken(after.prefix, meta, h)) > MaxDominant
    BY Counted DEF Feed!Dominant
  <2>2. /\ Cardinality(Feed!Taken(after.prefix, meta, h)) \in Nat
        /\ Cardinality(Feed!Taken(after.prefix, meta, h))
             + Cardinality(Feed!Taken(after.prefix, meta, g)) <= P
    BY <1>0, <1>8, TakenFacts
  <2> QED
    BY <1>0, <1>4, <1>5, <1>13, <2>1, <2>2
<1>15. \A h \in Feed!Dominant(after.prefix, meta):
            /\ h \in Feed!Dominant(screen.prefix, meta)
            /\ Cardinality(Feed!Taken(after.prefix, meta, h))
                < Cardinality(Feed!Taken(screen.prefix, meta, h))
  <2> TAKE h \in Feed!Dominant(after.prefix, meta)
  <2>1. h = g
    BY <1>14
  <2> HIDE DEF g
  <2>2. Cardinality(theirs) - 1 < Cardinality(theirs)
    BY <1>5
  <2> QED
    BY <1>4, <1>13, <2>1, <2>2 DEF theirs
<1> QED
  BY <1>2, <1>9, <1>10, <1>11, <1>15

LEMMA GuardrailFacts ==
    ASSUME Feed!ComposerAssumption, NEW X, NEW ids \in Seq(X), NEW meta
    PROVE  /\ Feed!Guardrail(ids, meta) \in Seq(X)
           /\ Len(Feed!Guardrail(ids, meta)) = Len(ids)
           /\ Feed!ToSet(Feed!Guardrail(ids, meta)) = Feed!ToSet(ids)
           /\ \A i \in 1..Len(ids): i <= SkillTopN => Feed!Guardrail(ids, meta)[i] = ids[i]
           /\ Feed!NoGenderOwns(Feed!Guardrail(ids, meta), meta)
<1>0. /\ SkillTopN \in Nat /\ PrefixLen \in Nat /\ MaxDominant \in Nat /\ Len(ids) \in Nat
      /\ SkillTopN <= MaxDominant /\ MaxDominant <= PrefixLen
  BY DEF Feed!ComposerAssumption
<1>1. CASE Len(ids) <= PrefixLen
  <2>1. Feed!Guardrail(ids, meta) = ids
    BY <1>1 DEF Feed!Guardrail
  <2> QED
    BY <1>0, <1>1, <2>1 DEF Feed!NoGenderOwns
<1>2. CASE ~(Len(ids) <= PrefixLen)
  <2> DEFINE P == PrefixLen
             n == Len(ids) - P
             above == SubSeq(ids, 1, P)
             below == SubSeq(ids, P + 1, Len(ids))
             start == [prefix |-> above, tail |-> below]
             S == Screens(X, n)
             body == [p \in (1..P) \X S |-> Feed!SwapOnce(p[2], meta)]
             Loop(f) == f
                 = [i \in 0..P |-> IF i = 0 THEN start ELSE Feed!SwapOnce(f[i - 1], meta)]
             screen == CHOOSE f : Loop(f)
  <2>1. n \in Nat /\ n > 0 /\ P \in Nat /\ Len(ids) = P + n /\ ~(Len(ids) <= P)
    BY <1>0, <1>2
  <2>2. /\ above \in Seq(X) /\ Len(above) = P /\ \A i \in 1..P: above[i] = ids[i]
        /\ below \in Seq(X) /\ Len(below) = n
        /\ Feed!ToSet(above) \cup Feed!ToSet(below) = Feed!ToSet(ids)
    <3>1. P \in 0..Len(ids) /\ Len(ids) \in 0..Len(ids) /\ P + 1 \in Nat \ {0}
              /\ P + 1 <= Len(ids)
          /\ Len(ids) - (P + 1) + 1 = n
      BY <1>0, <2>1
    <3>2. /\ above \in Seq(X) /\ Len(above) = P /\ \A i \in 1..P: above[i] = ids[i]
          /\ \A b: b \in Feed!ToSet(above) <=> \E i \in 1..P: ids[i] = b
      <4>1. /\ above \in Seq(X) /\ Len(above) = IF 1 <= P THEN P - 1 + 1 ELSE 0
            /\ \A i \in 1..(P - 1 + 1): above[i] = ids[1 + i - 1]
            /\ \A b: b \in Feed!ToSet(above) <=> \E i \in 1..P: ids[i] = b
        BY <3>1, Sliced
      <4> QED
        BY <2>1, <4>1
    <3>3. /\ below \in Seq(X) /\ Len(below) = n
          /\ \A b: b \in Feed!ToSet(below) <=> \E i \in P + 1..Len(ids): ids[i] = b
      <4>1. /\ below \in Seq(X)
            /\ Len(below) = IF P + 1 <= Len(ids) THEN Len(ids) - (P + 1) + 1 ELSE 0
            /\ \A b: b \in Feed!ToSet(below) <=> \E i \in P + 1..Len(ids): ids[i] = b
        BY <3>1, Sliced
      <4> QED
        BY <3>1, <4>1
    <3> HIDE DEF above, below
    <3>4. \A i \in 1..Len(ids): i \in 1..P \/ i \in P + 1..Len(ids)
      BY <2>1
    <3>5. \A i: i \in 1..P \/ i \in P + 1..Len(ids) => i \in 1..Len(ids)
      BY <2>1
    <3>6. Feed!ToSet(above) \cup Feed!ToSet(below) = Feed!ToSet(ids)
      BY <3>2, <3>3, <3>4, <3>5, ToSetOfSeq
    <3> QED
      BY <3>2, <3>3, <3>6
  <2> HIDE DEF above, below
  <2>3. start \in S
    BY <2>1, <2>2 DEF Screens
  <2>4. \A s \in S: Feed!SwapOnce(s, meta) \in S
            /\ (Open(s, meta) = {} => Feed!SwapOnce(s, meta) = s)
    <3> TAKE s \in S
    <3>1. CASE Open(s, meta) = {}
      BY <3>1 DEF Feed!SwapOnce, Open
    <3>2. CASE Open(s, meta) # {}
      BY <2>1, <3>2, SwapFacts
    <3> QED
      BY <3>1, <3>2
  <2>5. body \in [(1..P) \X S -> S]
    <3> HIDE DEF S
    <3> QED
      BY <2>4
  <2>6. PICK f \in [0..P -> S]: Rounds(f, P, start, body)
    <3> HIDE DEF body, start, S
    <3> QED
      BY <2>1, <2>3, <2>5, RoundsExist
  <2>7. Loop(f)
    <3> HIDE DEF S, start
    <3>1. ASSUME NEW i \in 0..P
          PROVE  f[i] = IF i = 0 THEN start ELSE Feed!SwapOnce(f[i - 1], meta)
      <4>0. i # 0 => i \in 1..P /\ i - 1 \in 0..P
        BY <2>1
      <4>1. i # 0 => <<i, f[i - 1]>> \in (1..P) \X S
        BY <2>6, <4>0
      <4>2. i # 0 => body[<<i, f[i - 1]>>] = Feed!SwapOnce(f[i - 1], meta)
        BY <4>1
      <4> QED
        BY <4>2, <2>6 DEF Rounds
    <3>2. f = [i \in 0..P |-> f[i]]
      BY <2>6
    <3> QED
      BY <3>1, <3>2
  <2>8. Loop(screen)
    BY <2>7, Zenon
  <2>9. Feed!Guardrail(ids, meta) = screen[P].prefix \o screen[P].tail
    BY <1>2, Zenon DEF Feed!Guardrail, start, above, below
  <2> HIDE DEF screen, body, S, start
  <2>10. screen[0] = start
    BY <2>1, <2>8
  <2>11. \A i \in 1..P: screen[i] = Feed!SwapOnce(screen[i - 1], meta)
    <3>1. \A i \in 1..P: i \in 0..P /\ i # 0
      BY <2>1
    <3> QED
      BY <2>8, <3>1
  <2> DEFINE Share(s, g) == Cardinality(Feed!Taken(s.prefix, meta, g))
             Good(i) == LET s == screen[i]
                        IN  /\ s \in S
                                /\ Feed!ToSet(s.prefix) \cup Feed!ToSet(s.tail) = Feed!ToSet(ids)
                            /\ \A j \in 1..SkillTopN: s.prefix[j] = ids[j]
                            /\ \/ Open(s, meta) = {}
                               \/ \A h \in Feed!Dominant(s.prefix, meta): Share(s, h) + i <= P
             T == {i \in 0..P : Good(i)}
  <2>12. 0 \in T
    <3>1. \A h: Share(start, h) \in Nat /\ Share(start, h) <= P
      <4> TAKE h
      <4>1. start.prefix \in [1..P -> X]
        BY <2>3 DEF S, Screens
      <4>2. Feed!Taken(start.prefix, meta, h) \subseteq 1..P
        BY <2>1, <4>1, TakenFacts
      <4>3. IsFiniteSet(1..P) /\ Cardinality(1..P) = P
        BY <2>1, Span
      <4> QED
        BY <4>2, <4>3, Part
    <3>2. \A j \in 1..SkillTopN: start.prefix[j] = ids[j]
      <4>1. \A j \in 1..SkillTopN: j \in 1..P
        BY <1>0
      <4> QED
        BY <2>2, <4>1 DEF start
    <3>3. Feed!ToSet(start.prefix) \cup Feed!ToSet(start.tail) = Feed!ToSet(ids)
      BY <2>2 DEF start
    <3> HIDE DEF Share
    <3>4. \A h: Share(start, h) + 0 <= P
      BY <2>1, <3>1
    <3>5. 0 \in 0..P
      BY <2>1
    <3> QED
      BY <2>3, <2>10, <3>2, <3>3, <3>4, <3>5
  <2>13. ASSUME NEW i \in 1..P, i - 1 \in T
         PROVE  i \in T
    <3> DEFINE s == screen[i - 1]
               u == screen[i]
    <3>1. /\ s \in S /\ Feed!ToSet(s.prefix) \cup Feed!ToSet(s.tail) = Feed!ToSet(ids)
          /\ \A j \in 1..SkillTopN: s.prefix[j] = ids[j]
          /\ \/ Open(s, meta) = {}
             \/ \A h \in Feed!Dominant(s.prefix, meta): Share(s, h) + (i - 1) <= P
      BY <2>13
    <3>2. u = Feed!SwapOnce(s, meta) /\ u \in S
      BY <2>4, <2>11, <3>1
    <3>3. i \in 0..P
      BY <2>1
    <3> HIDE DEF s, u
    <3>4. CASE Open(s, meta) = {}
      <4>1. u = s
        BY <2>4, <3>1, <3>2, <3>4
      <4>2. Good(i)
        BY <3>1, <3>4, <4>1 DEF u
      <4> QED
        BY <3>3, <4>2
    <3>5. CASE Open(s, meta) # {}
      <4>1. /\ Feed!ToSet(u.prefix) \cup Feed!ToSet(u.tail)
                = Feed!ToSet(s.prefix) \cup Feed!ToSet(s.tail)
            /\ \A j \in 1..SkillTopN: u.prefix[j] = s.prefix[j]
            /\ \A h \in Feed!Dominant(u.prefix, meta):
                    h \in Feed!Dominant(s.prefix, meta) /\ Share(u, h) < Share(s, h)
        <5>1. s \in Screens(X, n)
          BY <3>1 DEF S
        <5> HIDE DEF n
        <5>2. LET after == Feed!SwapOnce(s, meta)
              IN  /\ after \in Screens(X, n)
                  /\ Feed!ToSet(after.prefix) \cup Feed!ToSet(after.tail)
                      = Feed!ToSet(s.prefix) \cup Feed!ToSet(s.tail)
                  /\ \A j \in 1..SkillTopN: after.prefix[j] = s.prefix[j]
                  /\ \A h \in Feed!Dominant(after.prefix, meta):
                        /\ h \in Feed!Dominant(s.prefix, meta)
                        /\ Cardinality(Feed!Taken(after.prefix, meta, h))
                            < Cardinality(Feed!Taken(s.prefix, meta, h))
          BY <2>1, <3>5, <5>1, SwapFacts
        <5> QED
          BY <3>2, <5>2
      <4>2. \A h: Share(s, h) \in Nat /\ Share(u, h) \in Nat
        <5>1. s.prefix \in [1..P -> X] /\ u.prefix \in [1..P -> X]
          BY <3>1, <3>2 DEF S, Screens
        <5> QED
          BY <2>1, <5>1, TakenFacts
      <4>3. \A h \in Feed!Dominant(u.prefix, meta): Share(u, h) + i <= P
        <5> TAKE h \in Feed!Dominant(u.prefix, meta)
        <5>1. Share(u, h) < Share(s, h) /\ Share(s, h) + (i - 1) <= P
          BY <3>1, <3>5, <4>1
        <5>2. Share(s, h) \in Nat /\ Share(u, h) \in Nat
          BY <4>2
        <5> HIDE DEF Share
        <5> QED
          BY <2>1, <5>1, <5>2
      <4>4. Good(i)
        <5> HIDE DEF Share
        <5> QED
          BY <3>1, <3>2, <4>1, <4>3 DEF u
      <4> QED
        BY <3>3, <4>4
    <3> QED
      BY <3>4, <3>5
  <2>14. P \in T
    <3>1. \A i \in 1..P: i - 1 \in T => i \in T
      BY <2>13
    <3>2. P \in 0..P
      BY <2>1
    <3> HIDE DEF T
    <3> QED
      BY <2>1, <2>12, <3>1, <3>2, RoundByRound
  <2> DEFINE final == screen[P]
  <2>15. /\ final \in S /\ Feed!ToSet(final.prefix) \cup Feed!ToSet(final.tail) = Feed!ToSet(ids)
         /\ \A j \in 1..SkillTopN: final.prefix[j] = ids[j]
         /\ \/ Open(final, meta) = {}
            \/ \A h \in Feed!Dominant(final.prefix, meta): Share(final, h) + P <= P
    BY <2>14
  <2> HIDE DEF final, T
  <2>16. Open(final, meta) = {}
    <3> SUFFICES ASSUME NEW h \in Open(final, meta)
                 PROVE  FALSE
      OBVIOUS
    <3>1. h \in Feed!Dominant(final.prefix, meta) /\ Share(final, h) > MaxDominant
      BY Counted DEF Open, Feed!Dominant
    <3>2. Share(final, h) \in Nat
      <4>1. final.prefix \in [1..P -> X]
        BY <2>15 DEF S, Screens
      <4> QED
        BY <2>1, <4>1, TakenFacts
    <3>3. Share(final, h) + P <= P
      BY <2>15, <3>1
    <3> HIDE DEF Share
    <3> QED
      BY <1>0, <3>1, <3>2, <3>3
  <2>17. /\ final.prefix \in Seq(X) /\ final.tail \in Seq(X)
         /\ Len(final.prefix) = P /\ Len(final.tail) = n
    <3>1. final.prefix \in [1..P -> X] /\ final.tail \in [1..n -> X]
      BY <2>15 DEF S, Screens
    <3> HIDE DEF P, n
    <3> QED
      BY <2>1, <3>1
  <2> DEFINE whole == final.prefix \o final.tail
  <2>18. /\ whole \in Seq(X) /\ Len(whole) = P + n
         /\ Feed!ToSet(whole) = Feed!ToSet(final.prefix) \cup Feed!ToSet(final.tail)
         /\ \A i \in 1..P: whole[i] = final.prefix[i]
         /\ \A i \in P + 1..P + n: whole[i] = final.tail[i - P]
    <3>1. /\ whole \in Seq(X) /\ Len(whole) = P + n
          /\ Feed!ToSet(whole) = Feed!ToSet(final.prefix) \cup Feed!ToSet(final.tail)
      BY <2>17, Joined
    <3>2. \A i \in 1..P + n: whole[i] = IF i <= P THEN final.prefix[i] ELSE final.tail[i - P]
      <4>1. \A i \in 1..Len(final.prefix) + Len(final.tail):
                whole[i] = IF i <= Len(final.prefix) THEN final.prefix[i]
                           ELSE final.tail[i - Len(final.prefix)]
        BY <2>17, ConcatProperties
      <4> HIDE DEF whole
      <4> QED
        BY <2>17, <4>1
    <3> HIDE DEF whole
    <3>3. \A i \in 1..P: whole[i] = final.prefix[i]
      <4> TAKE i \in 1..P
      <4>1. i \in 1..P + n /\ i <= P
        BY <2>1
      <4> QED
        BY <3>2, <4>1
    <3>4. \A i \in P + 1..P + n: whole[i] = final.tail[i - P]
      <4> TAKE i \in P + 1..P + n
      <4>1. i \in 1..P + n /\ ~(i <= P)
        BY <2>1
      <4> QED
        BY <3>2, <4>1
    <3> QED
      BY <3>1, <3>3, <3>4
  <2>19. Feed!Guardrail(ids, meta) = whole
    BY <2>9 DEF final
  <2> HIDE DEF whole
  <2>20. SubSeq(whole, 1, P) = final.prefix /\ SubSeq(whole, P + 1, Len(whole)) = final.tail
    <3>0. P \in 0..Len(whole) /\ Len(whole) \in 0..Len(whole) /\ P + 1 \in Nat \ {0}
              /\ P + 1 <= Len(whole)
          /\ Len(whole) - (P + 1) + 1 = n
      BY <2>1, <2>18
    <3>1. SubSeq(whole, 1, P) = final.prefix
      <4> DEFINE slice == SubSeq(whole, 1, P)
      <4>1. /\ slice \in Seq(X) /\ Len(slice) = IF 1 <= P THEN P - 1 + 1 ELSE 0
            /\ \A i \in 1..(P - 1 + 1): slice[i] = whole[1 + i - 1]
        BY <2>18, <3>0, Sliced
      <4> HIDE DEF slice
      <4>2. Len(slice) = P /\ \A i \in 1..P: slice[i] = whole[i]
        BY <2>1, <4>1
      <4>3. Len(slice) = Len(final.prefix) /\ \A i \in 1..Len(slice): slice[i] = final.prefix[i]
        BY <2>17, <2>18, <4>2
      <4>4. slice \in Seq(X) /\ final.prefix \in Seq(X)
        BY <2>17, <4>1
      <4>5. slice = final.prefix
        BY <4>3, <4>4, SeqEqual
      <4> QED
        BY <4>5, Zenon DEF slice
    <3>2. SubSeq(whole, P + 1, Len(whole)) = final.tail
      <4> DEFINE slice == SubSeq(whole, P + 1, Len(whole))
      <4>1. /\ slice \in Seq(X)
            /\ Len(slice) = IF P + 1 <= Len(whole) THEN Len(whole) - (P + 1) + 1 ELSE 0
            /\ \A i \in 1..(Len(whole) - (P + 1) + 1): slice[i] = whole[P + 1 + i - 1]
        BY <2>18, <3>0, Sliced
      <4> HIDE DEF slice
      <4>2. Len(slice) = n
        BY <3>0, <4>1
      <4>3. \A i \in 1..n: slice[i] = final.tail[i]
        <5> TAKE i \in 1..n
        <5>1. slice[i] = whole[P + 1 + i - 1]
          BY <3>0, <4>1
        <5>2. P + 1 + i - 1 = P + i /\ P + i \in P + 1..P + n /\ (P + i) - P = i
          BY <2>1
        <5>3. whole[P + i] = final.tail[(P + i) - P]
          BY <2>18, <5>2
        <5> QED
          BY <5>1, <5>2, <5>3
      <4>4. slice \in Seq(X) /\ final.tail \in Seq(X)
        BY <2>17, <4>1
      <4>5. Len(slice) = Len(final.tail) /\ \A i \in 1..Len(slice): slice[i] = final.tail[i]
        BY <2>17, <4>2, <4>3
      <4>6. slice = final.tail
        BY <4>4, <4>5, SeqEqual
      <4> QED
        BY <4>6, Zenon DEF slice
    <3> QED
      BY <3>1, <3>2
  <2>21. Feed!NoGenderOwns(whole, meta)
    BY <2>16, <2>20 DEF Feed!NoGenderOwns, Open
  <2>22. \A i \in 1..Len(ids): i <= SkillTopN => whole[i] = ids[i]
    <3> TAKE i \in 1..Len(ids)
    <3>1. i <= SkillTopN => i \in 1..P /\ i \in 1..SkillTopN
      BY <1>0
    <3> QED
      BY <2>15, <2>18, <3>1
  <2> QED
    BY <2>1, <2>15, <2>18, <2>19, <2>21, <2>22
<1> QED
  BY <1>1, <1>2

-----------------------------------------------------------------------------
(* The composer. *)

LEMMA SkillFacts ==
    ASSUME NEW X, NEW ids \in Seq(X), Distinct(ids), NEW meta
    PROVE  /\ Feed!Skilled(meta, ids) \in Seq(X) /\ Len(Feed!Skilled(meta, ids)) <= Len(ids)
           /\ Feed!SkillGuarantee(ids, meta) \in Seq(X)
           /\ Len(Feed!SkillGuarantee(ids, meta)) = Len(ids)
           /\ Feed!ToSet(Feed!SkillGuarantee(ids, meta)) = Feed!ToSet(ids)
           /\ \A i \in 1..Len(Feed!Skilled(meta, ids)): Feed!SkillGuarantee(ids, meta)[i]
               = Feed!Skilled(meta, ids)[i]
<1> DEFINE B == Feed!SkilledBots(meta, ids)
           D == Feed!ToSet(ids) \ B
           top == Feed!Kept(ids, B)
           rest == Feed!Kept(ids, D)
           first == top \o rest
<1>1. B \subseteq Feed!ToSet(ids)
  BY DEF Feed!SkilledBots
<1> HIDE DEF B
<1>2. top \in Seq(X) /\ Feed!ToSet(top) = B /\ Distinct(top)
  <2>1. Feed!ToSet(ids) \cap B = B
    BY <1>1
  <2> QED
    BY <2>1, KeptFacts
<1>3. rest \in Seq(X) /\ Feed!ToSet(rest) = D /\ Distinct(rest)
  <2>1. Feed!ToSet(ids) \cap D = D
    OBVIOUS
  <2> HIDE DEF D
  <2> QED
    BY <2>1, KeptFacts
<1>4. Feed!Skilled(meta, ids) = top /\ Feed!SkillGuarantee(ids, meta) = first
  BY DEF Feed!Skilled, Feed!SkillGuarantee, Feed!Without, B
<1> HIDE DEF top, rest
<1>5. first \in Seq(X) /\ Feed!ToSet(first) = Feed!ToSet(ids) /\ Distinct(first)
          /\ Len(first) = Len(top) + Len(rest)
  <2>1. B \cap D = {} /\ B \cup D = Feed!ToSet(ids)
    BY <1>1
  <2> HIDE DEF D
  <2>2. Feed!ToSet(top) \cap Feed!ToSet(rest) = {}
    BY <1>2, <1>3, <2>1
  <2>3. first \in Seq(X) /\ Feed!ToSet(first) = Feed!ToSet(top) \cup Feed!ToSet(rest)
            /\ Distinct(first)
        /\ Len(first) = Len(top) + Len(rest)
    BY <1>2, <1>3, <2>2, Joined
  <2> HIDE DEF first
  <2> QED
    BY <1>2, <1>3, <2>1, <2>3
<1>6. Len(first) = Len(ids)
  <2> HIDE DEF first
  <2> QED
    BY <1>5, DistinctCount
<1>7. \A i \in 1..Len(top): first[i] = top[i]
  <2>1. \A i \in 1..Len(top) + Len(rest): first[i]
            = IF i <= Len(top) THEN top[i] ELSE rest[i - Len(top)]
    BY <1>2, <1>3, ConcatProperties
  <2>2. Len(top) \in Nat /\ Len(rest) \in Nat
    BY <1>2, <1>3
  <2> HIDE DEF first
  <2> TAKE i \in 1..Len(top)
  <2>3. i \in 1..Len(top) + Len(rest) /\ i <= Len(top)
    BY <2>2
  <2> QED
    BY <2>1, <2>3
<1>8. Len(top) <= Len(ids)
  <2>1. Len(top) \in Nat /\ Len(rest) \in Nat
    BY <1>2, <1>3
  <2> HIDE DEF first
  <2> QED
    BY <1>5, <1>6, <2>1
<1> HIDE DEF first
<1> QED
  BY <1>2, <1>4, <1>5, <1>6, <1>7, <1>8

LEMMA LeadIs ==
    ASSUME SkillTopN \in Nat, NEW X, NEW ids \in Seq(X), Distinct(ids), NEW meta,
           NEW composed \in Seq(X), Len(composed) = Len(ids),
           \A i \in 1..Len(ids): i <= SkillTopN => composed[i] = Feed!SkillGuarantee(ids, meta)[i]
    PROVE  Feed!SkilledLead(ids, meta, composed)
<1> DEFINE top == Feed!Skilled(meta, ids)
           n == Feed!Smaller(SkillTopN, Len(top))
           s == SubSeq(composed, 1, n)
           t == SubSeq(top, 1, n)
<1>1. /\ top \in Seq(X) /\ Len(top) <= Len(ids) /\ Len(top) \in Nat /\ Len(ids) \in Nat
      /\ \A i \in 1..Len(top): Feed!SkillGuarantee(ids, meta)[i] = top[i]
  BY SkillFacts
<1> HIDE DEF top
<1>2. n \in 0..Len(top) /\ n \in 0..Len(composed) /\ n <= SkillTopN
  BY <1>1 DEF Feed!Smaller
<1> HIDE DEF n
<1>3. /\ s \in Seq(X) /\ Len(s) = (IF 1 <= n THEN n - 1 + 1 ELSE 0)
      /\ \A i \in 1..(n - 1 + 1): s[i] = composed[1 + i - 1]
  BY <1>2, Sliced
<1>4. /\ t \in Seq(X) /\ Len(t) = (IF 1 <= n THEN n - 1 + 1 ELSE 0)
      /\ \A i \in 1..(n - 1 + 1): t[i] = top[1 + i - 1]
  BY <1>1, <1>2, Sliced
<1> HIDE DEF s, t
<1>5. n \in Nat /\ Len(s) = n /\ Len(t) = n
  BY <1>2, <1>3, <1>4
<1>6. \A i \in 1..n: s[i] = t[i]
  <2> TAKE i \in 1..n
  <2>1. i \in 1..(n - 1 + 1) /\ 1 + i - 1 = i /\ i \in 1..Len(top) /\ i \in 1..Len(ids)
            /\ i <= SkillTopN
    BY <1>1, <1>2, <1>5
  <2> QED
    BY <1>1, <1>3, <1>4, <2>1
<1>7. s = t
  BY <1>3, <1>4, <1>5, <1>6, SeqEqual
<1> QED
  BY <1>7 DEF Feed!SkilledLead, s, t, n, top

IsShift(n, p, S, T) ==
    /\ S \subseteq n + 1..n + p /\ T \subseteq 1..p
    /\ \A q \in 1..p: q \in T <=> n + q \in S

LEMMA Shifted ==
    ASSUME NEW n \in Nat, NEW p \in Nat, NEW S, NEW T, IsShift(n, p, S, T)
    PROVE  Cardinality(S) = Cardinality(T)
<1> DEFINE f == [q \in T |-> n + q]
<1>1. f \in [T -> S]
  BY DEF IsShift
<1>2. \A q, r \in T: f[q] = f[r] => q = r
  BY DEF IsShift
<1>3. \A j \in S: \E q \in T: f[q] = j
  <2> TAKE j \in S
  <2>1. j - n \in 1..p /\ n + (j - n) = j
    BY DEF IsShift
  <2>2. j - n \in T /\ f[j - n] = j
    BY <2>1 DEF IsShift
  <2> QED
    BY <2>2
<1>4. IsFiniteSet(T)
  <2>1. IsFiniteSet(1..p)
    BY Span
  <2> QED
    BY <2>1, Part DEF IsShift
<1> HIDE DEF f
<1>5. f \in Bijection(T, S)
  BY <1>1, <1>2, <1>3 DEF Bijection, Injection, Surjection, IsInjective
<1> QED
  BY <1>4, <1>5, FS_Bijection DEF ExistsBijection

LEMMA MixFacts ==
    ASSUME SkillTopN \in Nat, NEW X, NEW first \in Seq(X), NEW meta,
           \A b: Archetype(meta, b) \in Int
    PROVE  LET n == Feed!Smaller(SkillTopN, Len(first))
               mixed == SubSeq(first, 1, n) \o Feed!RoundRobin(SubSeq(first, n + 1, Len(first)),
                   meta)
           IN  /\ mixed \in Seq(X) /\ Len(mixed) = Len(first)
               /\ Feed!ToSet(mixed) = Feed!ToSet(first)
               /\ \A i \in 1..Len(first): i <= SkillTopN => mixed[i] = first[i]
               /\ Feed!ArchetypesTakeTurns(mixed, meta)
<1> DEFINE L == Len(first)
           n == Feed!Smaller(SkillTopN, L)
           m == L - n
           top == SubSeq(first, 1, n)
           tail == SubSeq(first, n + 1, L)
           rr == Feed!RoundRobin(tail, meta)
           mixed == top \o rr
<1>0. L \in Nat /\ n \in 0..L /\ n \in Nat /\ m \in Nat /\ L = n + m /\ n <= SkillTopN
  BY DEF Feed!Smaller
<1>1. (L > SkillTopN => n = SkillTopN) /\ \A i \in 1..L: i <= SkillTopN => i <= n
  BY DEF Feed!Smaller
<1> HIDE DEF n
<1>2. /\ top \in Seq(X) /\ Len(top) = n /\ \A i \in 1..n: top[i] = first[i]
      /\ \A b: b \in Feed!ToSet(top) <=> \E i \in 1..n: first[i] = b
  <2>1. /\ top \in Seq(X) /\ Len(top) = (IF 1 <= n THEN n - 1 + 1 ELSE 0)
        /\ \A i \in 1..(n - 1 + 1): top[i] = first[1 + i - 1]
        /\ \A b: b \in Feed!ToSet(top) <=> \E i \in 1..n: first[i] = b
    BY <1>0, Sliced
  <2> HIDE DEF top
  <2> QED
    BY <1>0, <2>1
<1>3. /\ tail \in Seq(X) /\ Len(tail) = m
      /\ \A b: b \in Feed!ToSet(tail) <=> \E i \in n + 1..L: first[i] = b
  <2>1. n + 1 \in Nat \ {0} /\ L \in 0..Len(first)
    BY <1>0
  <2>2. /\ tail \in Seq(X) /\ Len(tail) = (IF n + 1 <= L THEN L - (n + 1) + 1 ELSE 0)
        /\ \A b: b \in Feed!ToSet(tail) <=> \E i \in n + 1..L: first[i] = b
    BY <2>1, Sliced
  <2>3. m = IF n + 1 <= L THEN L - (n + 1) + 1 ELSE 0
    <3> HIDE DEF L
    <3> QED
      BY <1>0
  <2> HIDE DEF tail, m
  <2> QED
    BY <2>2, <2>3
<1> HIDE DEF top, tail
<1>4. Feed!ToSet(top) \cup Feed!ToSet(tail) = Feed!ToSet(first)
  <2>1. \A i \in 1..L: i \in 1..n \/ i \in n + 1..L
    BY <1>0
  <2>2. \A i: i \in 1..n \/ i \in n + 1..L => i \in 1..L
    BY <1>0
  <2> QED
    BY <1>2, <1>3, <2>1, <2>2, ToSetOfSeq
<1>5. /\ rr \in Seq(X) /\ Len(rr) = Len(tail) /\ Feed!ToSet(rr) = Feed!ToSet(tail)
      /\ \A p \in 1..Len(tail): \A k \in p + 1..Len(tail):
            Cardinality({q \in 1..p : Archetype(meta, rr[q]) = Archetype(meta, rr[p])})
            <= Cardinality({q \in 1..p : Archetype(meta, rr[q]) = Archetype(meta, rr[k])}) + 1
  BY <1>3, RoundRobinFacts
<1> HIDE DEF rr
<1>6. /\ mixed \in Seq(X) /\ Len(mixed) = L /\ Feed!ToSet(mixed) = Feed!ToSet(first)
      /\ \A i \in 1..L: mixed[i] = IF i <= n THEN top[i] ELSE rr[i - n]
  <2>1. mixed \in Seq(X) /\ Len(mixed) = Len(top) + Len(rr)
            /\ Feed!ToSet(mixed) = Feed!ToSet(top) \cup Feed!ToSet(rr)
    <3>1. top \in Seq(X) /\ rr \in Seq(X)
      BY <1>2, <1>5
    <3> QED
      BY <3>1, Joined
  <2>2. \A i \in 1..Len(top) + Len(rr): mixed[i]
            = IF i <= Len(top) THEN top[i] ELSE rr[i - Len(top)]
    BY <1>2, <1>5, ConcatProperties
  <2>3. Len(top) = n /\ Len(rr) = m /\ Len(top) + Len(rr) = L
    BY <1>0, <1>2, <1>3, <1>5
  <2>4. Feed!ToSet(mixed) = Feed!ToSet(first) /\ Len(mixed) = L
    BY <1>4, <1>5, <2>1, <2>3
  <2> HIDE DEF mixed, L
  <2> QED
    BY <2>1, <2>2, <2>3, <2>4
<1> HIDE DEF mixed
<1>7. \A i \in 1..L: i <= SkillTopN => mixed[i] = first[i]
  <2> SUFFICES ASSUME NEW i \in 1..L, i <= SkillTopN
               PROVE  mixed[i] = first[i]
    OBVIOUS
  <2>1. i \in 1..n /\ i <= n
    BY <1>0, <1>1
  <2>2. mixed[i] = top[i]
    BY <1>6, <2>1
  <2> QED
    BY <1>2, <2>1, <2>2
<1>8. \A p \in 1..m: mixed[n + p] = rr[p]
  <2> TAKE p \in 1..m
  <2>1. n + p \in 1..L /\ ~(n + p <= n) /\ (n + p) - n = p
    BY <1>0
  <2>2. mixed[n + p] = rr[(n + p) - n]
    BY <1>6, <2>1
  <2> QED
    BY <2>1, <2>2
<1>9. ASSUME NEW i \in SkillTopN + 1..L, NEW k \in i + 1..L
      PROVE  Cardinality({j \in SkillTopN + 1..i : Feed!Attrs(meta, mixed[j]).archetype
                 = Feed!Attrs(meta, mixed[i]).archetype})
             <= Cardinality({j \in SkillTopN + 1..i : Feed!Attrs(meta, mixed[j]).archetype
                 = Feed!Attrs(meta, mixed[k]).archetype}) + 1
  <2> DEFINE p == i - n
             r == k - n
  <2>1. n = SkillTopN
    <3>1. L > SkillTopN
      BY <1>0
    <3> QED
      BY <1>1, <3>1
  <2>2. p \in 1..m /\ p \in Nat /\ r \in p + 1..m /\ r \in 1..m /\ n + p = i /\ n + r = k
    BY <1>0, <2>1
  <2> HIDE DEF p, r
  <2>3. ASSUME NEW a
        PROVE  Cardinality({j \in SkillTopN + 1..i : Feed!Attrs(meta, mixed[j]).archetype = a})
                  = Cardinality({q \in 1..p : Archetype(meta, rr[q]) = a})
    <3> DEFINE S == {j \in SkillTopN + 1..i : Feed!Attrs(meta, mixed[j]).archetype = a}
               T == {q \in 1..p : Archetype(meta, rr[q]) = a}
    <3>1. S \subseteq n + 1..n + p /\ T \subseteq 1..p
      BY <2>1, <2>2
    <3>2. \A q \in 1..p: q \in T <=> n + q \in S
      <4> TAKE q \in 1..p
      <4>1. q \in 1..m /\ n + q \in SkillTopN + 1..i
        BY <1>0, <2>1, <2>2
      <4>2. mixed[n + q] = rr[q]
        BY <1>8, <4>1
      <4> QED
        BY <4>1, <4>2 DEF Archetype
    <3> HIDE DEF S, T
    <3>3. n \in Nat /\ p \in Nat
      BY <1>0, <2>2
    <3>4. IsShift(n, p, S, T)
      BY <3>1, <3>2 DEF IsShift
    <3>5. Cardinality(S) = Cardinality(T)
      BY <3>3, <3>4, Shifted
    <3> QED
      BY <3>5 DEF S, T
  <2>4. Feed!Attrs(meta, mixed[i]).archetype = Archetype(meta, rr[p])
        /\ Feed!Attrs(meta, mixed[k]).archetype = Archetype(meta, rr[r])
    BY <1>8, <2>2 DEF Archetype
  <2>5. Cardinality({q \in 1..p : Archetype(meta, rr[q]) = Archetype(meta, rr[p])})
            <= Cardinality({q \in 1..p : Archetype(meta, rr[q]) = Archetype(meta, rr[r])}) + 1
    <3>1. p \in 1..Len(tail) /\ r \in p + 1..Len(tail)
      BY <1>3, <2>2
    <3> QED
      BY <1>5, <3>1
  <2> DEFINE Among(a) == Cardinality({j \in SkillTopN + 1..i :
                                          Feed!Attrs(meta, mixed[j]).archetype = a})
             Own(a) == Cardinality({q \in 1..p : Archetype(meta, rr[q]) = a})
  <2>6. \A a: Among(a) = Own(a)
    BY <2>3, Zenon
  <2>7. Own(Archetype(meta, rr[p])) <= Own(Archetype(meta, rr[r])) + 1
    BY <2>5, Zenon
  <2> HIDE DEF Among, Own
  <2>8. Among(Feed!Attrs(meta, mixed[i]).archetype)
            <= Among(Feed!Attrs(meta, mixed[k]).archetype) + 1
    BY <2>4, <2>6, <2>7
  <2> QED
    BY <2>8, Zenon DEF Among
<1>10. Feed!ArchetypesTakeTurns(mixed, meta)
  <2>1. \A i \in SkillTopN + 1..L: \A k \in i + 1..L:
          Feed!Cardinality({j \in SkillTopN + 1..i : Feed!Attrs(meta, mixed[j]).archetype
              = Feed!Attrs(meta, mixed[i]).archetype})
          <= Feed!Cardinality({j \in SkillTopN + 1..i : Feed!Attrs(meta, mixed[j]).archetype
              = Feed!Attrs(meta, mixed[k]).archetype}) + 1
    BY <1>9, Counted, Zenon
  <2>2. Len(mixed) = L
    BY <1>6
  <2> HIDE DEF L
  <2> QED
    BY <2>1, <2>2, Zenon DEF Feed!ArchetypesTakeTurns
<1>11. /\ mixed \in Seq(X) /\ Len(mixed) = Len(first)
       /\ Feed!ToSet(mixed) = Feed!ToSet(first)
       /\ \A i \in 1..Len(first): i <= SkillTopN => mixed[i] = first[i]
       /\ Feed!ArchetypesTakeTurns(mixed, meta)
  BY <1>6, <1>7, <1>10
<1> QED
  BY <1>11, Zenon DEF mixed, rr, top, tail, n

\* compose_diverse_order, of any list of distinct bots and any metadata: the same bots come
\* out, the first SkillTopN skilled ones lead; on a first screen no gender but the unknown
\* takes more than its share unless nobody is left below to swap in, and for everybody else
\* no archetype gets ahead of another by more than a bot.
THEOREM ComposeIsMixed ==
    ASSUME Feed!ComposerAssumption, NEW X, NEW ids \in Seq(X), Distinct(ids),
           NEW meta, \A b \in DOMAIN meta: meta[b].archetype \in Int, NEW cold
    PROVE  /\ Feed!Compose(ids, meta, cold) \in Seq(X)
           /\ Feed!FeedIsMixed(ids, meta, cold, Feed!Compose(ids, meta, cold))
<1>0. SkillTopN \in Nat /\ Len(ids) \in Nat
  BY DEF Feed!ComposerAssumption
<1>1. CASE ids = <<>> \/ DOMAIN meta = {}
  <2>1. Feed!Compose(ids, meta, cold) = ids
    BY <1>1 DEF Feed!Compose
  <2>2. ASSUME ids = <<>>
        PROVE  /\ Feed!SkilledLead(ids, meta, ids)
               /\ Feed!NoGenderOwns(ids, meta) /\ Feed!ArchetypesTakeTurns(ids, meta)
    <3>1. Len(ids) = 0
      BY <2>2
    <3>2. Feed!SkilledLead(ids, meta, ids)
      <4>1. \A i \in 1..Len(ids): i <= SkillTopN => ids[i] = Feed!SkillGuarantee(ids, meta)[i]
        BY <3>1
      <4> QED
        BY <1>0, <4>1, LeadIs
    <3>3. Feed!NoGenderOwns(ids, meta)
      BY <3>1 DEF Feed!NoGenderOwns, Feed!ComposerAssumption
    <3>4. Feed!ArchetypesTakeTurns(ids, meta)
      BY <1>0, <3>1, Counted DEF Feed!ArchetypesTakeTurns
    <3> QED
      BY <3>2, <3>3, <3>4
  <2> QED
    BY <1>1, <2>1, <2>2 DEF Feed!FeedIsMixed, Feed!SameBots
<1>2. CASE ~(ids = <<>> \/ DOMAIN meta = {})
  <2> DEFINE first == Feed!SkillGuarantee(ids, meta)
             n == Feed!Smaller(SkillTopN, Len(first))
             mixed == SubSeq(first, 1, n) \o Feed!RoundRobin(SubSeq(first, n + 1, Len(first)),
                 meta)
             composed == Feed!Compose(ids, meta, cold)
  <2>1. \A b: Archetype(meta, b) \in Int
    BY DEF Archetype, Feed!Attrs, Feed!Unclassified
  <2>2. first \in Seq(X) /\ Len(first) = Len(ids) /\ Feed!ToSet(first) = Feed!ToSet(ids)
    BY SkillFacts
  <2>3. composed = IF cold THEN Feed!Guardrail(mixed, meta) ELSE mixed
    BY <1>2 DEF Feed!Compose
  <2> HIDE DEF first, composed
  <2>4. /\ mixed \in Seq(X) /\ Len(mixed) = Len(first) /\ Feed!ToSet(mixed) = Feed!ToSet(first)
        /\ \A i \in 1..Len(first): i <= SkillTopN => mixed[i] = first[i]
        /\ Feed!ArchetypesTakeTurns(mixed, meta)
    BY <1>0, <2>1, <2>2, MixFacts
  <2> HIDE DEF mixed
  <2>5. /\ Feed!Guardrail(mixed, meta) \in Seq(X)
        /\ Len(Feed!Guardrail(mixed, meta)) = Len(mixed)
        /\ Feed!ToSet(Feed!Guardrail(mixed, meta)) = Feed!ToSet(mixed)
        /\ \A i \in 1..Len(mixed): i <= SkillTopN => Feed!Guardrail(mixed, meta)[i] = mixed[i]
        /\ Feed!NoGenderOwns(Feed!Guardrail(mixed, meta), meta)
    BY <2>4, GuardrailFacts
  <2>6. /\ composed \in Seq(X) /\ Len(composed) = Len(ids)
            /\ Feed!ToSet(composed) = Feed!ToSet(ids)
        /\ \A i \in 1..Len(ids): i <= SkillTopN => composed[i] = first[i]
        /\ IF cold THEN Feed!NoGenderOwns(composed, meta)
           ELSE Feed!ArchetypesTakeTurns(composed, meta)
    BY <2>2, <2>3, <2>4, <2>5
  <2>7. Feed!SkilledLead(ids, meta, composed)
    BY <1>0, <2>6, LeadIs DEF first
  <2> QED
    BY <2>6, <2>7 DEF Feed!FeedIsMixed, Feed!SameBots, composed
<1> QED
  BY <1>1, <1>2

\* Why a page may be taken in any arrangement of its list (Feed, ComposePage): the
\* composer only puts the list in another order, whatever the metadata say.
THEOREM ComposeArranges ==
    ASSUME Feed!ComposerAssumption, NEW X, NEW ids \in Seq(X), Distinct(ids),
           NEW meta, \A b \in DOMAIN meta: meta[b].archetype \in Int, NEW cold
    PROVE  Feed!Compose(ids, meta, cold) \in Feed!Arrangements(ids)
<1> DEFINE composed == Feed!Compose(ids, meta, cold)
           n == Len(ids)
<1>1. composed \in Seq(X) /\ Len(composed) = n /\ Feed!ToSet(composed) = Feed!ToSet(ids)
          /\ n \in Nat
  <2>1. composed \in Seq(X) /\ Feed!FeedIsMixed(ids, meta, cold, composed)
    BY ComposeIsMixed
  <2>2. Feed!SameBots(ids, composed)
    BY <2>1 DEF Feed!FeedIsMixed
  <2> HIDE DEF composed
  <2> QED
    BY <2>1, <2>2 DEF Feed!SameBots
<1> HIDE DEF composed
<1>2. DOMAIN composed = 1..n /\ DOMAIN ids = 1..n
  BY <1>1
<1>3. \A b \in Feed!ToSet(composed): \E i \in 1..n: composed[i] = b
  BY <1>1, <1>2, ToSetOfSeq
<1>4. composed \in [1..n -> Feed!ToSet(ids)]
  BY <1>1, <1>2, ToSetOfSeq
<1>5. IsFiniteSet(Feed!ToSet(ids)) /\ Cardinality(Feed!ToSet(ids)) = n
  BY <1>1, DistinctCount
<1>6. composed \in Surjection(1..n, Feed!ToSet(ids))
  BY <1>1, <1>3, <1>4 DEF Surjection
<1>7. IsFiniteSet(1..n) /\ Cardinality(1..n) = n
  <2>1. 1 \in Int /\ n \in Int
    BY <1>1
  <2> HIDE DEF n
  <2>2. /\ IsFiniteSet(1..n)
        /\ 1 <= n => Cardinality(1..n) = n - 1 + 1
        /\ 1 > n => Cardinality(1..n) = 0
    BY <2>1, Span
  <2> QED
    BY <1>1, <2>2
<1>8. composed \in Injection(1..n, Feed!ToSet(ids))
  BY <1>5, <1>6, <1>7, FS_Surjection
<1>9. \A i, j \in 1..n: composed[i] = composed[j] => i = j
  BY <1>8 DEF Injection, IsInjective
<1> QED
  BY <1>4, <1>5, <1>9, Counted DEF Feed!Arrangements, Feed!SetToSeqs, composed

LEMMA DivType == ASSUME NEW a \in Nat, NEW d \in Nat \ {0} PROVE a \div d \in Nat
    /\ (a \div d) * d <= a /\ a < (a \div d + 1) * d
OBVIOUS
LEMMA DivMono == ASSUME NEW a \in Nat, NEW b \in Nat, NEW d \in Nat \ {0},
    a <= b PROVE a \div d <= b \div d
OBVIOUS
LEMMA DivBound == ASSUME NEW a \in Nat, NEW u \in Nat, NEW d \in Nat \ {0},
    a <= u * d PROVE a \div d <= u
OBVIOUS
LEMMA DivAnti == ASSUME NEW a \in Nat, NEW d \in Nat \ {0}, NEW e \in Nat \ {0},
    d <= e PROVE a \div e <= a \div d
OBVIOUS
LEMMA MulMono == ASSUME NEW a \in Nat, NEW b \in Nat, NEW d \in Nat, a <= b PROVE a * d <= b * d
OBVIOUS

LEMMA BoundedAbove ==
    ASSUME NEW S, S \subseteq Nat, IsFiniteSet(S)
    PROVE  \E m \in Nat: \A s \in S: s <= m
<1>1. PICK n \in Nat: ExistsBijection(1..n, S)
  BY FS_NatBijection
<1>2. PICK f \in Bijection(1..n, S): TRUE
  BY <1>1 DEF ExistsBijection
<1>3. f \in [1..n -> S] /\ \A s \in S: \E i \in 1..n: f[i] = s
  BY <1>2 DEF Bijection, Surjection
<1> DEFINE T == {i \in 0..n : \E m \in Nat: \A j \in 1..i: f[j] <= m}
<1>4. 0 \in T
  OBVIOUS
<1>5. ASSUME NEW i \in 1..n, i - 1 \in T
      PROVE  i \in T
  <2>1. PICK m \in Nat: \A j \in 1..(i - 1): f[j] <= m
    BY <1>5
  <2>2. f[i] \in Nat
    BY <1>3
  <2> DEFINE k == IF f[i] <= m THEN m ELSE f[i]
  <2>3. k \in Nat /\ f[i] <= k /\ m <= k
    BY <2>2
  <2> HIDE DEF k
  <2>4. \A j \in 1..i: f[j] <= k
    <3> TAKE j \in 1..i
    <3>1. CASE j = i
      BY <2>3, <3>1
    <3>2. CASE j # i
      <4>1. j \in 1..(i - 1) /\ f[j] \in Nat
        <5>1. j \in 1..(i - 1) /\ j \in 1..n
          BY <3>2
        <5> QED
          BY <1>3, <5>1
      <4>2. f[j] <= m
        BY <2>1, <4>1
      <4> QED
        BY <2>3, <4>1, <4>2
    <3> QED
      BY <3>1, <3>2
  <2>5. i \in 0..n
    OBVIOUS
  <2> QED
    BY <2>3, <2>4, <2>5
<1>6. n \in T
  <2>1. \A i \in 1..n: i - 1 \in T => i \in T
    BY <1>5
  <2>2. n \in 0..n
    OBVIOUS
  <2> HIDE DEF T
  <2> QED
    BY <1>4, <2>1, <2>2, RoundByRound
<1>7. PICK m \in Nat: \A j \in 1..n: f[j] <= m
  BY <1>6
<1> QED
  BY <1>3, <1>7

LEMMA GreatestOf ==
    ASSUME NEW S, S \subseteq Nat, IsFiniteSet(S), S # {}
    PROVE  Scores!Max(S) \in S /\ \A s \in S: s <= Scores!Max(S)
<1> DEFINE U == {m \in Nat : \A s \in S: s <= m}
<1>1. U \subseteq Nat /\ U # {}
  BY BoundedAbove
<1>2. PICK m \in U: \A k \in U: m <= k
  BY <1>1, LeastElement
<1>3. m \in S
  <2> SUFFICES ASSUME m \notin S
               PROVE  FALSE
    OBVIOUS
  <2>1. \A s \in S: s \in Nat /\ s < m
    <3> TAKE s \in S
    <3>1. s \in Nat /\ s <= m /\ s # m
      OBVIOUS
    <3> QED
      BY <3>1
  <2>2. m \in Nat /\ m > 0
    <3>1. PICK s \in S: TRUE
      OBVIOUS
    <3>2. s \in Nat /\ s < m /\ m \in Nat
      BY <2>1
    <3> QED
      BY <3>2
  <2>3. \A s \in S: s <= m - 1
    <3> TAKE s \in S
    <3>1. s \in Nat /\ s < m
      BY <2>1
    <3> QED
      BY <2>2, <3>1
  <2>4. m - 1 \in U
    BY <2>2, <2>3
  <2>5. m <= m - 1
    BY <1>2, <2>4
  <2> QED
    BY <2>2, <2>5
<1>4. \A s \in S: m >= s
  BY <1>2
<1>5. Scores!Max(S) \in S /\ \A s \in S: Scores!Max(S) >= s
  BY <1>3, <1>4 DEF Scores!Max
<1> HIDE DEF U
<1>6. Scores!Max(S) \in Nat
  BY <1>5
<1>7. \A s \in S: s <= Scores!Max(S)
  <2> TAKE s \in S
  <2>1. s \in Nat /\ Scores!Max(S) >= s
    BY <1>5
  <2> QED
    BY <1>6, <2>1
<1> QED
  BY <1>5, <1>7

LEMMA LesserOf ==
    ASSUME NEW m \in Nat, NEW n \in Nat
    PROVE  Scores!Min({m, n}) = IF m <= n THEN m ELSE n
<1> DEFINE l == IF m <= n THEN m ELSE n
<1>1. l \in {m, n} /\ \A y \in {m, n}: l <= y
  OBVIOUS
<1>2. \A x \in {m, n}: (\A y \in {m, n}: x <= y) => x = l
  OBVIOUS
<1> HIDE DEF l
<1>3. Scores!Min({m, n}) = l
  BY <1>1, <1>2 DEF Scores!Min
<1> QED
  BY <1>3 DEF l

LEMMA ImageFinite ==
    ASSUME NEW D, IsFiniteSet(D), NEW X, NEW f \in [D -> X]
    PROVE  IsFiniteSet({f[x] : x \in D}) /\ {f[x] : x \in D} \subseteq X
<1> DEFINE T == {f[x] : x \in D}
<1>1. f \in Surjection(D, T)
  BY DEF Surjection
<1> QED
  BY <1>1, FS_Surjection

-----------------------------------------------------------------------------
(* Scores. *)

BelowOf(values, v) == {u \in values : u < v}

LEMMA PercentileFacts ==
    ASSUME NEW values, IsFiniteSet(values), values \subseteq Nat, NEW v \in values
    PROVE  /\ Scores!Percentile(values, v) \in 0..Unit
           /\ \A w \in values: v <= w
               => Scores!Percentile(values, v) <= Scores!Percentile(values, w)
<1> DEFINE steps == Cardinality(values) - 1
<1>0. Unit \in Nat \ {0} /\ Unit \div 2 \in 0..Unit
  BY UnitIs DEF Scores!ScoresAssumption
<1>1. ASSUME NEW w \in values
      PROVE  /\ BelowOf(values, w) \in SUBSET values /\ IsFiniteSet(BelowOf(values, w))
                 /\ Cardinality(values) \in Nat
             /\ Cardinality(BelowOf(values, w)) \in Nat
                 /\ Cardinality(BelowOf(values, w)) <= steps
  <2>1. BelowOf(values, w) \subseteq values /\ w \notin BelowOf(values, w)
    BY DEF BelowOf
  <2>2. /\ IsFiniteSet(BelowOf(values, w)) /\ Cardinality(BelowOf(values, w)) \in Nat
            /\ Cardinality(values) \in Nat
        /\ Cardinality(BelowOf(values, w)) < Cardinality(values)
    BY <2>1, Part
  <2> QED
    BY <2>1, <2>2
<1>2. \A w \in values:
        Scores!Percentile(values, w) =
            IF steps <= 0 THEN Unit \div 2
            ELSE (Cardinality(BelowOf(values, w)) * Unit) \div steps
  BY ScoresCounted DEF Scores!Percentile, BelowOf
<1>3. ASSUME NEW w \in values, v <= w
      PROVE  Cardinality(BelowOf(values, v)) <= Cardinality(BelowOf(values, w))
  <2>1. BelowOf(values, v) \subseteq BelowOf(values, w)
    <3>1. \A u \in values: u < v => u < w
      <4> TAKE u \in values
      <4>1. u \in Nat /\ v \in Nat /\ w \in Nat
        OBVIOUS
      <4> QED
        BY <1>3, <4>1
    <3> QED
      BY <3>1 DEF BelowOf
  <2> QED
    BY <1>1, <2>1, Part
<1>4. CASE steps <= 0
  <2>1. \A w \in values: Scores!Percentile(values, w) = Unit \div 2
    BY <1>2, <1>4
  <2> HIDE DEF steps
  <2> QED
    BY <1>0, <2>1
<1>5. CASE ~(steps <= 0)
  <2>1. steps \in Nat \ {0}
    BY <1>1, <1>5
  <2>2. \A w \in values: Scores!Percentile(values, w)
            = (Cardinality(BelowOf(values, w)) * Unit) \div steps
    BY <1>2, <1>5
  <2> HIDE DEF steps
  <2>3. Scores!Percentile(values, v) \in 0..Unit
    <3> DEFINE n == Cardinality(BelowOf(values, v))
    <3>1. n \in Nat /\ n <= steps
      BY <1>1
    <3> HIDE DEF n
    <3>2. n * Unit \in Nat /\ n * Unit <= Unit * steps
      BY <1>0, <2>1, <3>1, MulMono
    <3>3. (n * Unit) \div steps \in Nat /\ (n * Unit) \div steps <= Unit
      BY <1>0, <2>1, <3>2, DivType, DivBound
    <3> QED
      BY <1>0, <2>2, <3>3 DEF n
  <2>4. ASSUME NEW w \in values, v <= w
        PROVE  Scores!Percentile(values, v) <= Scores!Percentile(values, w)
    <3> DEFINE n == Cardinality(BelowOf(values, v))
               m == Cardinality(BelowOf(values, w))
    <3>1. n \in Nat /\ m \in Nat /\ n <= m
      BY <1>1, <1>3, <2>4
    <3> HIDE DEF n, m
    <3>2. n * Unit \in Nat /\ m * Unit \in Nat /\ n * Unit <= m * Unit
      BY <1>0, <3>1, MulMono
    <3>3. (n * Unit) \div steps <= (m * Unit) \div steps
      BY <2>1, <3>2, DivMono
    <3> QED
      BY <2>2, <3>3 DEF n, m
  <2> QED
    BY <2>3, <2>4
<1> QED
  BY <1>4, <1>5

\* What the queries may return of a bot, and the row that is merged from it.
Found ==
    [conversations: Nat, messages: Nat, users: Nat \cup {Scores!Absent},
     streak: Nat \cup {Scores!Absent}, age: Nat, recent: Nat \cup {Scores!Absent},
     prior: Nat \cup {Scores!Absent}, quality: (Nat \ {0}) \cup {Scores!Absent}]
Row ==
    [conversations: Nat, messages: Nat, users: Nat, streak: Nat, age: Nat, recent: Nat, prior: Nat,
     quality: Nat]

LEMMA MergeFacts ==
    ASSUME NEW D, NEW found \in [D -> Found]
    PROVE  /\ Scores!Merge(found) \in [D -> Row]
           /\ \A b \in D: /\ Scores!Merge(found)[b].conversations = found[b].conversations
                          /\ Scores!Merge(found)[b].messages = found[b].messages
                          /\ Scores!Merge(found)[b].age = found[b].age
                          /\ Scores!Merge(found)[b].users = Scores!Default(found[b].users, 0)
                          /\ Scores!Merge(found)[b].streak = Scores!Default(found[b].streak, 0)
                          /\ Scores!Merge(found)[b].recent = Scores!Default(found[b].recent, 0)
                          /\ Scores!Merge(found)[b].prior = Scores!Default(found[b].prior, 0)
                          /\ Scores!Merge(found)[b].quality
                              = Scores!Default(found[b].quality, Scores!NoScore)
<1> DEFINE row(b) == [found[b] EXCEPT !.recent = Scores!Default(@, 0), !.prior
    = Scores!Default(@, 0),
                         !.quality = Scores!MergedQuality(@), !.streak = Scores!Default(@, 0),
                         !.users = Scores!Default(@, 0)]
<1>1. Scores!Merge(found) = [b \in D |-> row(b)]
  BY DEF Scores!Merge
<1>2. ASSUME NEW b \in D
      PROVE  /\ row(b) \in Row
             /\ row(b).conversations = found[b].conversations
             /\ row(b).messages = found[b].messages
             /\ row(b).age = found[b].age
             /\ row(b).users = Scores!Default(found[b].users, 0)
             /\ row(b).streak = Scores!Default(found[b].streak, 0)
             /\ row(b).recent = Scores!Default(found[b].recent, 0)
             /\ row(b).prior = Scores!Default(found[b].prior, 0)
             /\ row(b).quality = Scores!Default(found[b].quality, Scores!NoScore)
  <2>1. found[b] \in Found
    OBVIOUS
  <2>2. Scores!MergedQuality(found[b].quality) = Scores!Default(found[b].quality, Scores!NoScore)
    BY <2>1 DEF Found, Scores!MergedQuality, Scores!Default, Scores!Absent
  <2>3. /\ Scores!Default(found[b].users, 0) \in Nat /\ Scores!Default(found[b].streak, 0) \in Nat
        /\ Scores!Default(found[b].recent, 0) \in Nat /\ Scores!Default(found[b].prior, 0) \in Nat
        /\ Scores!Default(found[b].quality, Scores!NoScore) \in Nat
        /\ found[b].conversations \in Nat /\ found[b].messages \in Nat /\ found[b].age \in Nat
    BY <2>1 DEF Found, Scores!Default, Scores!Absent, Scores!NoScore
  <2>4. /\ row(b).conversations = found[b].conversations
        /\ row(b).messages = found[b].messages
        /\ row(b).age = found[b].age
        /\ row(b).users = Scores!Default(found[b].users, 0)
        /\ row(b).streak = Scores!Default(found[b].streak, 0)
        /\ row(b).recent = Scores!Default(found[b].recent, 0)
        /\ row(b).prior = Scores!Default(found[b].prior, 0)
        /\ row(b).quality = Scores!Default(found[b].quality, Scores!NoScore)
    BY <2>1, <2>2 DEF Found
  <2>5. row(b) \in Row
    BY <2>1, <2>2, <2>3 DEF Found, Row
  <2> QED
    BY <2>4, <2>5
<1> HIDE DEF row
<1> QED
  BY <1>1, <1>2

LEMMA MomentumFacts ==
    ASSUME NEW r \in Nat, NEW p \in Nat
    PROVE  /\ Scores!Momentum(r, p) \in 0..Unit
           /\ \A s \in Nat, q \in Nat: s <= r /\ p <= q
               => Scores!Momentum(s, q) <= Scores!Momentum(r, p)
<1>0. Unit \in Nat \ {0}
  BY UnitIs DEF Scores!ScoresAssumption
<1>1. ASSUME NEW s \in Nat, NEW q \in Nat \ {0}
      PROVE  LET n == (s * Unit) \div q
             IN  /\ n \in Nat
                 /\ Scores!Momentum(s, q) = (IF n <= 2 * Unit THEN n ELSE 2 * Unit) \div 2
  <2>1. s * Unit \in Nat
    BY <1>0
  <2> DEFINE n == (s * Unit) \div q
  <2>2. n \in Nat
    BY <2>1
  <2>3. Scores!Momentum(s, q) = Scores!Min({n, 2 * Unit}) \div 2
    BY DEF Scores!Momentum
  <2> HIDE DEF n
  <2>4. Scores!Min({n, 2 * Unit}) = IF n <= 2 * Unit THEN n ELSE 2 * Unit
    BY <1>0, <2>2, LesserOf
  <2> QED
    BY <2>2, <2>3, <2>4 DEF n
<1>2. ASSUME NEW s \in Nat, NEW q \in Nat
      PROVE  Scores!Momentum(s, q) \in 0..Unit
  <2>1. CASE q = 0
    BY <1>0, <2>1 DEF Scores!Momentum
  <2>2. CASE q # 0
    <3> DEFINE n == (s * Unit) \div q
    <3>1. n \in Nat /\ Scores!Momentum(s, q) = (IF n <= 2 * Unit THEN n ELSE 2 * Unit) \div 2
      BY <1>1, <2>2
    <3> HIDE DEF n
    <3> QED
      BY <1>0, <3>1
  <2> QED
    BY <2>1, <2>2
<1>3. ASSUME NEW s \in Nat, NEW q \in Nat, s <= r, p <= q
      PROVE  Scores!Momentum(s, q) <= Scores!Momentum(r, p)
  <2>1. CASE p = 0
    <3>1. CASE r = 0
      <4>1. s = 0
        BY <1>3, <3>1
      <4>2. Scores!Momentum(s, q) = 0
        <5>1. CASE q = 0
          BY <4>1, <5>1 DEF Scores!Momentum
        <5>2. CASE q # 0
          <6> DEFINE n == (s * Unit) \div q
          <6>1. n \in Nat
                    /\ Scores!Momentum(s, q) = (IF n <= 2 * Unit THEN n ELSE 2 * Unit) \div 2
            BY <1>1, <5>2
          <6>2. n = 0
            BY <1>0, <4>1, <5>2
          <6> HIDE DEF n
          <6> QED
            BY <1>0, <6>1, <6>2
        <5> QED
          BY <5>1, <5>2
      <4> QED
        BY <1>0, <1>2, <4>2
    <3>2. CASE r # 0
      <4>1. Scores!Momentum(r, p) = Unit
        BY <2>1, <3>2 DEF Scores!Momentum
      <4>2. Scores!Momentum(s, q) \in 0..Unit
        BY <1>2
      <4> QED
        BY <1>0, <4>1, <4>2
    <3> QED
      BY <3>1, <3>2
  <2>2. CASE p # 0
    <3> DEFINE n == (s * Unit) \div q
               m == (r * Unit) \div p
    <3>0. q \in Nat \ {0} /\ p \in Nat \ {0}
      BY <1>3, <2>2
    <3>1. n \in Nat /\ Scores!Momentum(s, q) = (IF n <= 2 * Unit THEN n ELSE 2 * Unit) \div 2
      BY <1>1, <3>0
    <3>2. m \in Nat /\ Scores!Momentum(r, p) = (IF m <= 2 * Unit THEN m ELSE 2 * Unit) \div 2
      BY <1>1, <3>0
    <3>3. n <= m
      <4>1. s * Unit \in Nat /\ r * Unit \in Nat /\ s * Unit <= r * Unit
        BY <1>0, <1>3, MulMono
      <4>2. (s * Unit) \div q <= (s * Unit) \div p
        BY <1>3, <3>0, <4>1, DivAnti
      <4>3. (s * Unit) \div p <= (r * Unit) \div p
        BY <3>0, <4>1, DivMono
      <4>4. (s * Unit) \div q \in Nat /\ (s * Unit) \div p \in Nat /\ (r * Unit) \div p \in Nat
        BY <3>0, <4>1, DivType
      <4> QED
        BY <4>2, <4>3, <4>4
    <3> HIDE DEF n, m
    <3> QED
      BY <1>0, <3>1, <3>2, <3>3
  <2> QED
    BY <2>1, <2>2
<1> QED
  BY <1>2, <1>3

Share(rows, b, signal) == Scores!Percentile({rows[x][signal] : x \in DOMAIN rows}, rows[b][signal])
DepthShare(rows, b) == Scores!Percentile({Scores!Depth(rows[x]) : x \in DOMAIN rows},
    Scores!Depth(rows[b]))

LEMMA ScoreIs ==
    ASSUME NEW found, NEW b, NEW rows, rows = Scores!Merge(found)
    PROVE  Scores!Score(found, b) =
             Scores!Blend(4 * Share(rows, b, "conversations") + 4 * Share(rows, b, "messages")
                       + 2 * Share(rows, b, "users"),
                   DepthShare(rows, b), Share(rows, b, "quality"), Share(rows, b, "streak"),
                   Scores!Newness(rows, b), Scores!Momentum(rows[b].recent, rows[b].prior),
                   Unit - Share(rows, b, "messages"))
BY DEF Scores!Score, Share, DepthShare

LEMMA ShareFacts ==
    ASSUME NEW D, IsFiniteSet(D), NEW rows \in [D -> Row], NEW b \in D, NEW c \in D,
           NEW signal \in {"conversations", "messages", "users", "streak", "quality"}
    PROVE  /\ Share(rows, b, signal) \in 0..Unit
           /\ rows[c][signal] <= rows[b][signal]
               => Share(rows, c, signal) <= Share(rows, b, signal)
<1> DEFINE f == [x \in D |-> rows[x][signal]]
           values == {rows[x][signal] : x \in DOMAIN rows}
<1>1. \A x \in D: rows[x][signal] \in Nat
  BY DEF Row
<1>2. f \in [D -> Nat]
  BY <1>1
<1>3. values = {f[x] : x \in D}
  OBVIOUS
<1>4. rows[b][signal] \in values /\ rows[c][signal] \in values
  OBVIOUS
<1> HIDE DEF f, values
<1>5. IsFiniteSet(values) /\ values \subseteq Nat
  BY <1>2, <1>3, ImageFinite
<1> QED
  BY <1>4, <1>5, PercentileFacts DEF Share, values

LEMMA DepthFacts ==
    ASSUME NEW D, IsFiniteSet(D), NEW rows \in [D -> Row], NEW b \in D, NEW c \in D
    PROVE  /\ DepthShare(rows, b) \in 0..Unit
           /\ rows[c].messages <= rows[b].messages
               /\ rows[c].conversations = rows[b].conversations
                => DepthShare(rows, c) <= DepthShare(rows, b)
<1> DEFINE f == [x \in D |-> Scores!Depth(rows[x])]
           values == {Scores!Depth(rows[x]) : x \in DOMAIN rows}
<1>0. Unit \in Nat \ {0}
  BY UnitIs DEF Scores!ScoresAssumption
<1>1. \A x \in D: /\ Scores!AtLeastOne(rows[x].conversations) \in Nat \ {0}
                      /\ rows[x].messages \in Nat
                  /\ rows[x].messages * Unit \in Nat
  BY <1>0 DEF Row, Scores!AtLeastOne
<1>2. \A x \in D: Scores!Depth(rows[x]) \in Nat
  BY <1>1, DivType DEF Scores!Depth
<1>3. f \in [D -> Nat]
  BY <1>2
<1>4. values = {f[x] : x \in D} /\ Scores!Depth(rows[b]) \in values
          /\ Scores!Depth(rows[c]) \in values
  OBVIOUS
<1> HIDE DEF f, values
<1>5. IsFiniteSet(values) /\ values \subseteq Nat
  BY <1>3, <1>4, ImageFinite
<1>6. ASSUME rows[c].messages <= rows[b].messages, rows[c].conversations = rows[b].conversations
      PROVE  Scores!Depth(rows[c]) <= Scores!Depth(rows[b])
  <2>1. rows[c].messages * Unit <= rows[b].messages * Unit
    BY <1>0, <1>1, <1>6, MulMono
  <2> QED
    BY <1>1, <1>6, <2>1, DivMono DEF Scores!Depth
<1> QED
  BY <1>4, <1>5, <1>6, PercentileFacts DEF DepthShare, values

LEMMA NewnessFacts ==
    ASSUME NEW D, IsFiniteSet(D), NEW rows \in [D -> Row], NEW b \in D, NEW c \in D
    PROVE  /\ Scores!Newness(rows, b) \in 0..Unit
           /\ rows[b].age <= rows[c].age => Scores!Newness(rows, c) <= Scores!Newness(rows, b)
<1> DEFINE f == [x \in D |-> rows[x].age]
           ages == {rows[x].age : x \in DOMAIN rows}
           eldest == Scores!Max(ages)
           n == Scores!AtLeastOne(eldest)
<1>0. Unit \in Nat \ {0}
  BY UnitIs DEF Scores!ScoresAssumption
<1>1. \A x \in D: rows[x].age \in Nat
  BY DEF Row
<1>2. f \in [D -> Nat]
  BY <1>1
<1>3. ages = {f[x] : x \in D} /\ \A x \in D: rows[x].age \in ages
  OBVIOUS
<1> HIDE DEF f, ages
<1>4. IsFiniteSet(ages) /\ ages \subseteq Nat /\ ages # {}
  BY <1>2, <1>3, ImageFinite
<1>5. eldest \in Nat /\ \A x \in D: rows[x].age <= eldest
  BY <1>3, <1>4, GreatestOf
<1> HIDE DEF eldest
<1>6. n \in Nat \ {0} /\ \A x \in D: rows[x].age <= n
  BY <1>1, <1>5 DEF Scores!AtLeastOne
<1>7. \A x \in D: Scores!Newness(rows, x) = Unit - (rows[x].age * Unit) \div n
  BY DEF Scores!Newness, ages, eldest
<1> HIDE DEF n
<1>8. \A x \in D: (rows[x].age * Unit) \div n \in 0..Unit
  <2> TAKE x \in D
  <2> DEFINE a == rows[x].age
  <2>1. a \in Nat /\ a <= n
    BY <1>1, <1>6
  <2> HIDE DEF a
  <2>2. a * Unit \in Nat /\ a * Unit <= Unit * n
    BY <1>0, <1>6, <2>1, MulMono
  <2>3. (a * Unit) \div n \in Nat /\ (a * Unit) \div n <= Unit
    BY <1>0, <1>6, <2>2, DivType, DivBound
  <2> QED
    BY <1>0, <2>3 DEF a
<1>9. ASSUME rows[b].age <= rows[c].age
      PROVE  (rows[b].age * Unit) \div n <= (rows[c].age * Unit) \div n
  <2>1. /\ rows[b].age * Unit \in Nat /\ rows[c].age * Unit \in Nat
        /\ rows[b].age * Unit <= rows[c].age * Unit
    BY <1>0, <1>1, <1>9, MulMono
  <2> QED
    BY <1>6, <2>1, DivMono
<1>10. /\ (rows[b].age * Unit) \div n \in 0..Unit /\ (rows[c].age * Unit) \div n \in 0..Unit
       /\ Scores!Newness(rows, b) = Unit - (rows[b].age * Unit) \div n
       /\ Scores!Newness(rows, c) = Unit - (rows[c].age * Unit) \div n
  BY <1>7, <1>8
<1> QED
  BY <1>0, <1>9, <1>10

\* compute_scores, of any table the queries may return: every score is a share of the
\* weights, and a bot that no signal puts below another is not scored below it.
THEOREM ScoresAreFair ==
    ASSUME NEW D, IsFiniteSet(D), NEW found \in [D -> Found]
    PROVE  Scores!BetterIsNotBelow(found) /\ Scores!ScoresAreShares(found)
<1> DEFINE rows == Scores!Merge(found)
<1>0. Unit \in Nat \ {0}
  BY UnitIs DEF Scores!ScoresAssumption
<1>1. /\ rows \in [D -> Row]
      /\ \A b \in D: /\ rows[b].conversations = found[b].conversations
                     /\ rows[b].messages = found[b].messages
                     /\ rows[b].age = found[b].age
                     /\ rows[b].users = Scores!Default(found[b].users, 0)
                     /\ rows[b].streak = Scores!Default(found[b].streak, 0)
                     /\ rows[b].recent = Scores!Default(found[b].recent, 0)
                     /\ rows[b].prior = Scores!Default(found[b].prior, 0)
                     /\ rows[b].quality = Scores!Default(found[b].quality, Scores!NoScore)
  BY MergeFacts
<1>2. \A b: Scores!Score(found, b) =
             Scores!Blend(4 * Share(rows, b, "conversations") + 4 * Share(rows, b, "messages")
                       + 2 * Share(rows, b, "users"),
                   DepthShare(rows, b), Share(rows, b, "quality"), Share(rows, b, "streak"),
                   Scores!Newness(rows, b), Scores!Momentum(rows[b].recent, rows[b].prior),
                   Unit - Share(rows, b, "messages"))
  BY ScoreIs
<1> HIDE DEF rows
<1>3. ASSUME NEW b \in D
      PROVE  /\ Share(rows, b, "conversations") \in 0..Unit
                 /\ Share(rows, b, "messages") \in 0..Unit
             /\ Share(rows, b, "users") \in 0..Unit /\ Share(rows, b, "quality") \in 0..Unit
             /\ Share(rows, b, "streak") \in 0..Unit
             /\ DepthShare(rows, b) \in 0..Unit /\ Scores!Newness(rows, b) \in 0..Unit
             /\ Scores!Momentum(rows[b].recent, rows[b].prior) \in 0..Unit
  <2>1. rows[b].recent \in Nat /\ rows[b].prior \in Nat
    BY <1>1 DEF Row
  <2>2. Scores!Momentum(rows[b].recent, rows[b].prior) \in 0..Unit
    BY <2>1, MomentumFacts
  <2>3. DepthShare(rows, b) \in 0..Unit /\ Scores!Newness(rows, b) \in 0..Unit
    BY <1>1, DepthFacts, NewnessFacts
  <2>4. \A signal \in {"conversations", "messages", "users", "streak", "quality"}:
            Share(rows, b, signal) \in 0..Unit
    BY <1>1, ShareFacts
  <2> QED
    BY <2>2, <2>3, <2>4
<1>4. Scores!ScoresAreShares(found)
  <2> SUFFICES ASSUME NEW b \in D
               PROVE  Scores!Score(found, b) \in 0..2000 * Unit
    BY DEF Scores!ScoresAreShares
  <2> DEFINE p1 == Share(rows, b, "conversations")
             p2 == Share(rows, b, "messages")
             p3 == Share(rows, b, "users")
             p4 == DepthShare(rows, b)
             p5 == Share(rows, b, "quality")
             p6 == Share(rows, b, "streak")
             p7 == Scores!Newness(rows, b)
             p8 == Scores!Momentum(rows[b].recent, rows[b].prior)
  <2>1. /\ p1 \in 0..Unit /\ p2 \in 0..Unit /\ p3 \in 0..Unit /\ p4 \in 0..Unit
        /\ p5 \in 0..Unit /\ p6 \in 0..Unit /\ p7 \in 0..Unit /\ p8 \in 0..Unit
    BY <1>3
  <2>2. Scores!Score(found, b)
            = Scores!Blend(4 * p1 + 4 * p2 + 2 * p3, p4, p5, p6, p7, p8, Unit - p2)
    BY <1>2
  <2> HIDE DEF p1, p2, p3, p4, p5, p6, p7, p8
  <2>3. Scores!Blend(4 * p1 + 4 * p2 + 2 * p3, p4, p5, p6, p7, p8, Unit - p2) \in 0..2000 * Unit
    BY <1>0, <2>1 DEF Scores!Blend
  <2> QED
    BY <2>2, <2>3
<1>5. ASSUME NEW b \in D, NEW c \in D, Scores!AsGood(found, b, c)
      PROVE  Scores!Score(found, c) <= Scores!Score(found, b)
  <2>1. found[b] \in Found /\ found[c] \in Found
    OBVIOUS
  <2>2. /\ rows[b].conversations = rows[c].conversations
        /\ rows[c].messages <= rows[b].messages /\ rows[b].age <= rows[c].age
    BY <1>1, <1>5, <2>1 DEF Scores!AsGood, Found
  <2>3. /\ rows[c].users <= rows[b].users /\ rows[c].streak <= rows[b].streak
        /\ rows[c].recent <= rows[b].recent /\ rows[b].prior <= rows[c].prior
    BY <1>1, <1>5, <2>1 DEF Scores!AsGood, Found, Scores!Default, Scores!Absent
  <2>4. rows[c].quality <= rows[b].quality
    BY <1>1, <1>5, <2>1 DEF Scores!AsGood, Found, Scores!Default, Scores!Absent, Scores!NoScore
  <2>5. Share(rows, b, "conversations") = Share(rows, c, "conversations")
    <3>1. rows[b]["conversations"] = rows[c]["conversations"]
      BY <2>2
    <3> QED
      BY <3>1 DEF Share
  <2>6. /\ Share(rows, c, "messages") <= Share(rows, b, "messages")
        /\ Share(rows, c, "users") <= Share(rows, b, "users")
        /\ Share(rows, c, "quality") <= Share(rows, b, "quality")
        /\ Share(rows, c, "streak") <= Share(rows, b, "streak")
    <3>1. \A signal \in {"conversations", "messages", "users", "streak", "quality"}:
             rows[c][signal] <= rows[b][signal]
                 => Share(rows, c, signal) <= Share(rows, b, signal)
      BY <1>1, ShareFacts
    <3> QED
      BY <2>2, <2>3, <2>4, <3>1
  <2>7. DepthShare(rows, c) <= DepthShare(rows, b)
            /\ Scores!Newness(rows, c) <= Scores!Newness(rows, b)
    BY <1>1, <2>2, DepthFacts, NewnessFacts
  <2>8. Scores!Momentum(rows[c].recent, rows[c].prior)
            <= Scores!Momentum(rows[b].recent, rows[b].prior)
    <3>1. /\ rows[b].recent \in Nat /\ rows[b].prior \in Nat
          /\ rows[c].recent \in Nat /\ rows[c].prior \in Nat
      BY <1>1 DEF Row
    <3> QED
      BY <2>3, <3>1, MomentumFacts
  <2> DEFINE p1 == Share(rows, b, "conversations")
             p2 == Share(rows, b, "messages")
             p3 == Share(rows, b, "users")
             p4 == DepthShare(rows, b)
             p5 == Share(rows, b, "quality")
             p6 == Share(rows, b, "streak")
             p7 == Scores!Newness(rows, b)
             p8 == Scores!Momentum(rows[b].recent, rows[b].prior)
             q2 == Share(rows, c, "messages")
             q3 == Share(rows, c, "users")
             q4 == DepthShare(rows, c)
             q5 == Share(rows, c, "quality")
             q6 == Share(rows, c, "streak")
             q7 == Scores!Newness(rows, c)
             q8 == Scores!Momentum(rows[c].recent, rows[c].prior)
  <2>9. /\ p1 \in 0..Unit /\ p2 \in 0..Unit /\ p3 \in 0..Unit /\ p4 \in 0..Unit
        /\ p5 \in 0..Unit /\ p6 \in 0..Unit /\ p7 \in 0..Unit /\ p8 \in 0..Unit
        /\ q2 \in 0..Unit /\ q3 \in 0..Unit /\ q4 \in 0..Unit
        /\ q5 \in 0..Unit /\ q6 \in 0..Unit /\ q7 \in 0..Unit /\ q8 \in 0..Unit
    BY <1>3
  <2>10. q2 <= p2 /\ q3 <= p3 /\ q4 <= p4 /\ q5 <= p5 /\ q6 <= p6 /\ q7 <= p7 /\ q8 <= p8
    BY <2>6, <2>7, <2>8
  <2>11. /\ Scores!Score(found, b)
             = Scores!Blend(4 * p1 + 4 * p2 + 2 * p3, p4, p5, p6, p7, p8, Unit - p2)
         /\ Scores!Score(found, c)
             = Scores!Blend(4 * p1 + 4 * q2 + 2 * q3, q4, q5, q6, q7, q8, Unit - q2)
    BY <1>2, <2>5
  <2> HIDE DEF p1, p2, p3, p4, p5, p6, p7, p8, q2, q3, q4, q5, q6, q7, q8
  <2>12. Scores!Blend(4 * p1 + 4 * q2 + 2 * q3, q4, q5, q6, q7, q8, Unit - q2)
             <= Scores!Blend(4 * p1 + 4 * p2 + 2 * p3, p4, p5, p6, p7, p8, Unit - p2)
    BY <1>0, <2>9, <2>10 DEF Scores!Blend
  <2> QED
    BY <2>11, <2>12
<1>6. Scores!BetterIsNotBelow(found)
  <2> SUFFICES ASSUME NEW b \in D, NEW c \in D, Scores!AsGood(found, b, c)
               PROVE  Scores!Score(found, b) >= Scores!Score(found, c)
    BY DEF Scores!BetterIsNotBelow
  <2>1. Scores!Score(found, c) <= Scores!Score(found, b)
    BY <1>5
  <2>2. Scores!Score(found, b) \in 0..2000 * Unit /\ Scores!Score(found, c) \in 0..2000 * Unit
    BY <1>4 DEF Scores!ScoresAreShares
  <2>3. 2000 * Unit \in Nat
    BY UnitIs DEF Scores!ScoresAssumption
  <2> QED
    BY <2>1, <2>2, <2>3
<1> QED
  BY <1>4, <1>6

-----------------------------------------------------------------------------
(* The loops together: a step of one part leaves the others as they are.   *)

PartsMove ==
    /\ [Next]_vars /\ [Proactive!Next]_(Proactive!vars) /\ [Feed!Next]_(Feed!vars)
    /\ UNCHANGED <<part, sample>>

LEMMA OnePartMoves == [LoopsNext]_loopsVars => PartsMove
<1> SUFFICES ASSUME [LoopsNext]_loopsVars
             PROVE  PartsMove
  OBVIOUS
<1>1. /\ UNCHANGED takeoverVars => UNCHANGED vars
      /\ UNCHANGED engagementVars => UNCHANGED Proactive!vars
      /\ UNCHANGED feedVars => UNCHANGED Feed!vars
  BY DEF takeoverVars, engagementVars, feedVars, Feed!vars, Feed!history,
         Proactive!vars, Proactive!convVars, Proactive!skillVars, Proactive!loopVars
<1>2. CASE UNCHANGED loopsVars
  BY <1>1, <1>2 DEF PartsMove, loopsVars
<1>3. CASE InEngagement(Proactive!Next)
  BY <1>1, <1>3 DEF PartsMove, InEngagement
<1>4. CASE InTakeover(Next)
  BY <1>1, <1>4 DEF PartsMove, InTakeover
<1>5. CASE InFeed(Feed!Next)
  BY <1>1, <1>5 DEF PartsMove, InFeed
<1> QED
  BY <1>2, <1>3, <1>4, <1>5 DEF LoopsNext

\* What holds of the takeovers, of the engagement loop and of the feed by themselves holds
\* where they run in one program: a behaviour of the loops is one of each of its parts.
THEOREM LoopsRunTheirParts ==
    LoopsSpec => Spec /\ Proactive!Spec /\ Feed!Spec
<1>1. LoopsInit => Init /\ Proactive!Init /\ Feed!Init
  BY DEF LoopsInit
<1>2. [LoopsNext]_loopsVars
        => [Next]_vars /\ [Proactive!Next]_(Proactive!vars) /\ [Feed!Next]_(Feed!vars)
  BY OnePartMoves DEF PartsMove
<1> QED
  BY <1>1, <1>2, PTL DEF LoopsSpec, Spec, Proactive!Spec, Feed!Spec

Chosen ==
    /\ part \in {"engagement", "takeover", "feed", "order", "scores"}
    /\ sample \in Samples

LEMMA ChoiceStands == LoopsSpec => []Chosen
<1>1. LoopsInit => Chosen
  BY DEF LoopsInit, Chosen
<1>2. Chosen /\ [LoopsNext]_loopsVars => Chosen'
  BY OnePartMoves DEF PartsMove, Chosen, Samples
<1> QED
  BY <1>1, <1>2, PTL DEF LoopsSpec

\* Each part keeps the types of its rows, clocks and program counters.
THEOREM LoopsTypeCorrect == LoopsSpec => []LoopsTypeOK
<1>1. TypeOK /\ Proactive!TypeOK /\ FeedInv /\ Chosen => LoopsTypeOK
  BY DEF LoopsTypeOK, Chosen, FeedInv
<1> QED
  BY <1>1, LoopsRunTheirParts, ChatTypeCorrect, EngagementTypeCorrect, FeedInvHolds,
     ChoiceStands, PTL

\* discovery_feed.py:14: with any number of bots, requests and rankers, a session is not
\* shown a bot twice unless two of its requests overlapped or Redis failed; and whatever
\* is marked as seen was on a page.
THEOREM FeedDoesNotRepeat == LoopsSpec => []NothingShownTwice
<1>1. FeedInv => NothingShownTwice
  BY DEF FeedInv, Offered, NothingShownTwice, Feed!NothingShownTwice, Feed!SeenWasOffered
<1> QED
  BY <1>1, LoopsRunTheirParts, FeedInvHolds, PTL

LEMMA FourAreDistinct == Four \in Seq(Nat) /\ Distinct(Four)
BY DEF Four, Distinct

LEMMA MetaTyped ==
    ASSUME NEW meta \in Metas
    PROVE  \A b \in DOMAIN meta: meta[b].archetype \in Int
<1> DEFINE Trait == [skilled: BOOLEAN, archetype: {1, 2}, gender: {"f", "m", Feed!Unknown}]
           Labelled == [skilled: BOOLEAN, archetype: {1, 2}, gender: {"f", "m"}]
<1>1. /\ \A row \in Trait: row.archetype \in Int
      /\ \A row \in Labelled: row.archetype \in Int
  OBVIOUS
<1>2. \/ meta \in [{1, 2, 4} -> Trait] \/ meta \in [{2, 3} -> Trait] \/ meta \in [{} -> Trait]
      \/ meta \in [1..4 -> Labelled]
  BY DEF Metas
<1> HIDE DEF Trait, Labelled
<1> QED
  BY <1>1, <1>2

LEMMA SignalsTyped == Signals \subseteq Found /\ Third \in Found
BY DEF Signals, Third, Found, Scores!Absent

\* discovery_feed.py and feed_ranker.py:93: the order of a page is mixed as its docstrings
\* promise, and what is better about a bot never puts it lower.  ComposeIsMixed and
\* ScoresAreFair say it of every list, every metadata and every table of signals.
THEOREM FeedStaysFair == LoopsSpec => []FeedIsFair
<1>1. ASSUME Chosen, part = "order"
      PROVE  Feed!FeedIsMixed(Four, sample.meta, sample.cold,
                              Feed!Compose(Four, sample.meta, sample.cold))
  <2>1. sample.meta \in Metas
    BY <1>1 DEF Chosen, Samples
  <2>2. Feed!ComposerAssumption
    BY FeedConstants DEF Feed!FeedAssumption
  <2> QED
    BY <2>1, <2>2, FourAreDistinct, MetaTyped, ComposeIsMixed
<1>2. ASSUME Chosen, part = "scores"
      PROVE  Scores!BetterIsNotBelow(sample) /\ Scores!ScoresAreShares(sample)
  <2>1. PICK a \in Signals, b \in Signals: sample = <<a, b, Third>>
    BY <1>2 DEF Chosen, Samples
  <2>2. sample \in [1..3 -> Found]
    <3>1. a \in Found /\ b \in Found /\ Third \in Found
      BY <2>1, SignalsTyped
    <3> QED
      BY <2>1, <3>1
  <2>3. IsFiniteSet(1..3)
    <3>1. 1 \in Int /\ 3 \in Int
      OBVIOUS
    <3> QED
      BY <3>1, Span
  <2> QED
    BY <2>2, <2>3, ScoresAreFair
<1>3. Chosen => FeedIsFair
  BY <1>1, <1>2 DEF FeedIsFair
<1> QED
  BY <1>3, ChoiceStands, PTL

\* message_repo.py:84 and :75: one loop sends at most three welcome-backs and one nudge
\* to a user who does not answer, whatever else happens in the conversation meanwhile.
THEOREM OneLoopKeepsCaps ==
    ASSUME NEW l, Loops = {l}
    PROVE  LoopsSpec => []CapsKept
<1>1. OneLoopInv(l) => CapsKept
  BY DEF OneLoopInv, WelcomesInv, NudgesInv, CapsKept, Proactive!CapsKept,
         Proactive!WelcomesCapped, Proactive!NudgesCapped
<1> QED
  BY <1>1, OneLoopInductive, LoopsRunTheirParts, PTL

\* One loop sends at most the welcome-back it had begun when the user turned them off.
THEOREM OneLoopObeysOff ==
    ASSUME NEW l, Loops = {l}
    PROVE  LoopsSpec => []OffIsObeyed
<1>1. OneLoopInv(l) => OffIsObeyed
  BY DEF OneLoopInv, OffInv, OffIsObeyed, Proactive!OffIsObeyed
<1> QED
  BY <1>1, OneLoopInductive, LoopsRunTheirParts, PTL

InTime == \A l \in Loops: Proactive!CheckinInsert(l) /\ open /\ ~slipped => since = Base

\* proactive.py:537: one loop keeps the skill's cadence between two check-ins, unless the
\* schedule could not be advanced after the first.
THEOREM OneLoopSpacesCheckins ==
    ASSUME NEW l, Loops = {l}
    PROVE  LoopsSpec => CheckinsApart
<1>1. OneLoopInv(l) => [InTime]_(Proactive!vars)
  BY DEF OneLoopInv, SpacingInv, Proactive!CheckinInsert, InTime
<1> QED
  BY <1>1, OneLoopInductive, LoopsRunTheirParts, PTL
     DEF CheckinsApart, Proactive!CheckinsApart, InTime
=============================================================================
