---------------------------- MODULE CollageProofs ----------------------------
(***************************************************************************)
(* Proofs about the collages of MCMedia, for any number of calls, users,   *)
(* bots and days: a batch is asked for once per bot and day, what is       *)
(* served is a finished collage of our own, and the day's budget is        *)
(* overrun by the generators at work at once only.                         *)
(***************************************************************************)
EXTENDS MCMedia, TLAPS, FiniteSetTheorems, WellFoundedInduction, NaturalsInduction

\* An instance counts as its module does.
LEMMA CountsAlike ==
    /\ \A S: Images!Cardinality(S) = Cardinality(S)
    /\ \A S: Images!IsFiniteSet(S) <=> IsFiniteSet(S)
BY DEF Images!Cardinality, Cardinality, Images!IsFiniteSet, IsFiniteSet

-----------------------------------------------------------------------------
(* The inductive invariant.                                                *)

\* A call works on a bot, and on a day that has begun.
Works(c) == Images!Running(c) \/ Images!At(c, "ready") => call[c].bot \in Bots
    /\ call[c].day \in 1..day

\* The generator of a bot and day, from the insert of the row to its decision.
Generating == {"budget", "generate", "mirror", "complete", "fail"}
Generates(c) == call[c].pc \in Generating
SameRow(c, d) == call[c].bot = call[d].bot /\ call[c].day = call[d].day

\* The row is the lock: it stays reserved while its only generator lives.
RowIsLock ==
    /\ \A c \in Calls: Generates(c) => Images!Row(c) = "reserved"
    /\ \A c, d \in Calls: Generates(c) /\ Generates(d) /\ SameRow(c, d) => c = d

\* A batch is behind a row, and behind its generator when that is past it.
Batched ==
    /\ Images!OneBatchPerDay
    /\ \A b \in Bots, d \in Images!Days: collage[b][d] = "none" => batches[b][d] = 0
    /\ \A c \in Calls: call[c].pc \in {"budget", "generate"}
        => batches[call[c].bot][call[c].day] = 0

\* What is booked as a success is in the bucket.
Owned ==
    /\ \A b \in Bots, d \in Images!Days: collage[b][d] = "succeeded" => <<b, d>> \in kept
    /\ \A c \in Calls: Images!At(c, "complete") => <<call[c].bot, call[c].day>> \in kept
    /\ \A c \in Calls: Images!At(c, "ready") => call[c].served \in Images!Days
    /\ Images!ServedIsOwned

\* A generator counts as at work on a day's budget from its check to its decision.
CheckedWhileAtWork ==
    \A c \in Calls: checked[c] # Images!NoDay
        => call[c].pc \in {"generate", "mirror", "complete", "fail"}
\* Until a check went wrong every success to come has been checked against its own day.
ChecksItsDay ==
    ~unsure => \A c \in Calls: call[c].pc \in {"generate", "mirror", "complete"}
        => checked[c] = call[c].day
PeakIsPeak == \A d \in Images!Days: Cardinality(Images!Generators(d)) <= peak[d]
\* What is booked and what is at work, together: a success only moves one to the other side.
Overrun ==
    ~unsure => \A d \in Images!Days:
        LET load == Images!Spent(d) + Cardinality(Images!Generators(d)) IN
        load > 0 => load <= HardCap - 1 + peak[d]

LockInv == Images!TypeOK /\ (\A c \in Calls: Works(c)) /\ RowIsLock /\ Batched /\ Owned
BudgetInv == CheckedWhileAtWork /\ ChecksItsDay /\ PeakIsPeak /\ Overrun
CollageInv == LockInv /\ BudgetInv

-----------------------------------------------------------------------------
(* Facts about the operators.                                              *)

CallRec ==
    [pc: Images!Steps \cup Images!Ended, bot: Bots \cup {Images!NoBot},
     day: Images!Days \cup {Images!NoDay}, polls: 0..Polls, served: Images!Days \cup {Images!NoDay}]

LEMMA LeastElement ==
    ASSUME NEW T, T \subseteq Nat, T # {}
    PROVE  \E x \in T: \A y \in T: x <= y
<1>1. PICK x \in T: \A y \in T: ~(<<y, x>> \in OpToRel(<, Nat))
  BY NatLessThanWellFounded, WFMin, Zenon
<1>2. \A y \in T: ~(y < x)
  BY <1>1 DEF OpToRel
<1> QED
  BY <1>2

\* Max of a set of days that is not empty.
LEMMA MaxOfDays ==
    ASSUME NEW n \in Nat, NEW S, S \subseteq 1..n, S # {}
    PROVE  Images!Max(S) \in S /\ \A x \in S: x <= Images!Max(S)
<1> DEFINE U == {k \in Nat: \A x \in S: x <= k}
<1>0. U \subseteq Nat /\ n \in U
  OBVIOUS
<1>1. PICK k \in U: \A u \in U: k <= u
  BY <1>0, LeastElement
<1>2. k \in S
  <2> SUFFICES ASSUME k \notin S
               PROVE  FALSE
    OBVIOUS
  <2>0. PICK x: x \in S
    OBVIOUS
  <2>1. x \in S /\ x \in Nat /\ x >= 1
    BY <2>0
  <2>2. k \in Nat /\ k >= 1
    BY <1>1, <2>1
  <2>3. \A y \in S: y <= k - 1
    BY <1>1, <2>2
  <2>4. k - 1 \in U
    BY <2>2, <2>3
  <2> QED
    BY <1>1, <2>2, <2>4
<1>3. \E x \in S: \A z \in S: x >= z
  BY <1>2
<1>4. Images!Max(S) \in S /\ \A z \in S: Images!Max(S) >= z
  BY <1>3 DEF Images!Max
<1> QED
  BY <1>4

LEMMA MaxOfTwo ==
    ASSUME NEW m \in Nat, NEW n \in Nat
    PROVE  Images!Max({m, n}) \in {m, n} /\ m <= Images!Max({m, n}) /\ n <= Images!Max({m, n})
<1>1. \E x \in {m, n}: \A y \in {m, n}: x >= y
  OBVIOUS
<1>2. Images!Max({m, n}) \in {m, n} /\ \A y \in {m, n}: Images!Max({m, n}) >= y
  BY <1>1 DEF Images!Max
<1> QED
  BY <1>2

\* The sets that are counted.
LEMMA Counted ==
    ASSUME Images!CollageAssumption, Images!TypeOK, NEW d \in Images!Days
    PROVE  /\ IsFiniteSet(Images!Generators(d)) /\ Cardinality(Images!Generators(d)) \in Nat
           /\ Cardinality(Images!Generators(d)) <= Cardinality(Calls)
               /\ Cardinality(Calls) \in Nat
           /\ IsFiniteSet({b \in Bots: collage[b][d] = "succeeded"}) /\ Images!Spent(d) \in Nat
<1>1. IsFiniteSet(Calls) /\ IsFiniteSet(Bots) /\ Images!Generators(d) \in SUBSET Calls
      /\ {b \in Bots: collage[b][d] = "succeeded"} \in SUBSET Bots
  BY CountsAlike DEF Images!CollageAssumption, Images!Generators
<1> QED
  BY <1>1, FS_Subset, FS_CardinalityType, CountsAlike DEF Images!Spent

\* A step is one call's; most of them only read the tables.
Reads(c) == Images!Look(c) \/ Images!Poll(c) \/ Images!ServeFallback(c)
    \/ \E b \in Bots: Images!Pregen(c, b)
Taps(c) == \E u \in Users, b \in Bots: Images!Request(c, u, b)
Decides(c) == Images!Complete(c) \/ Images!MarkFailed(c)
Acts(c) ==
    \/ Reads(c) \/ Taps(c) \/ Images!Reserve(c) \/ Images!CheckBudget(c) \/ Images!Generate(c)
        \/ Images!Mirror(c)
    \/ Decides(c) \/ Images!Die(c)

LEMMA NextIs == Images!Next => Images!Midnight \/ \E c \in Calls: Acts(c)
BY DEF Images!Next, Images!Arrive, Images!Step, Acts, Reads, Taps, Decides

\* Who changes what.
LEMMA Touches ==
    ASSUME NEW c \in Calls, Acts(c)
    PROVE  /\ day' = day
           /\ ~Images!Reserve(c) /\ ~Decides(c) => collage' = collage
           /\ ~Taps(c) => quota' = quota
           /\ ~Images!Mirror(c) => kept' = kept
           /\ ~Images!Generate(c) => batches' = batches
           /\ ~Images!CheckBudget(c) => peak' = peak /\ unsure' = unsure
           /\ ~Images!CheckBudget(c) /\ ~Decides(c) /\ ~Images!Die(c) => checked' = checked
<1>1. CASE Reads(c)
  BY <1>1 DEF Reads, Images!Look, Images!Poll, Images!ServeFallback, Images!Pregen, Images!genVars
<1>2. CASE Taps(c) \/ Images!Reserve(c)
  BY <1>2 DEF Taps, Images!Request, Images!Reserve, Images!genVars
<1>3. CASE Images!CheckBudget(c) \/ Images!Generate(c) \/ Images!Mirror(c)
  BY <1>3, CountsAlike DEF Images!CheckBudget, Images!Generate, Images!Mirror, Images!genVars
<1>4. CASE Decides(c) \/ Images!Die(c)
  BY <1>4 DEF Decides, Images!Complete, Images!MarkFailed, Images!Decide, Images!Die
<1> QED
  BY <1>1, <1>2, <1>3, <1>4 DEF Acts

\* What an answer may be.
LEMMA Answers ==
    ASSUME Images!CollageAssumption, Images!TypeOK, NEW b \in Bots
    PROVE  /\ Images!Recent(b) \subseteq Images!Days
           /\ Images!Recent(b) # {} => Images!Max(Images!Recent(b)) \in Images!Recent(b)
BY MaxOfDays, CountsAlike DEF Images!Recent, Images!Days, Images!CollageAssumption

\* Where a call goes.
Entered(c) ==
    /\ Images!At(c, "new") /\ call'[c].pc \in {"look", "unserved"}
        /\ call'[c].day \in {day, Images!NoDay}
    /\ call'[c].pc = "look" => call'[c].day = day /\ call'[c].bot \in Bots
Goes(c, from, to) ==
    /\ call[c].pc = from /\ call'[c].pc \in to
    /\ call'[c].pc # "unserved" => call'[c].bot = call[c].bot /\ call'[c].day = call[c].day
LEMMA CallStep ==
    ASSUME Images!CollageAssumption, Images!TypeOK, NEW c \in Calls, Acts(c),
           Images!Running(c) => call[c].bot \in Bots /\ call[c].day \in Images!Days
    PROVE  /\ call' \in [Calls -> CallRec] /\ \A d \in Calls \ {c}: call'[d] = call[d]
           /\ \/ Taps(c) /\ Entered(c)
              \/ (\E b \in Bots: Images!Pregen(c, b)) /\ Entered(c)
              \/ Images!Look(c) /\ Goes(c, "look", {"reserve", "ready", "fallback", "poll"})
              \/ Images!Reserve(c) /\ Goes(c, "reserve", {"budget", "poll"})
              \/ Images!CheckBudget(c) /\ Goes(c, "budget", {"generate", "fail"})
              \/ Images!Generate(c) /\ Goes(c, "generate", {"mirror", "fail"})
              \/ Images!Mirror(c) /\ Goes(c, "mirror", {"complete", "fail"})
              \/ Images!Complete(c) /\ Goes(c, "complete", {"ready"})
              \/ Images!MarkFailed(c) /\ Goes(c, "fail", {"fallback"})
              \/ Images!ServeFallback(c) /\ Goes(c, "fallback", {"ready", "unserved"})
              \/ Images!Poll(c) /\ Goes(c, "poll", {"poll", "ready", "fallback", "unserved"})
              \/ Images!Die(c) /\ Images!Running(c) /\ call'[c].pc = "unserved"
<1>0. call[c] \in CallRec /\ call \in [Calls -> CallRec] /\ day \in Images!Days /\ Polls \in Nat
  BY CountsAlike DEF Images!TypeOK, CallRec, Images!CollageAssumption
<1>a. Images!NoCall \in CallRec /\ [Images!NoCall EXCEPT !.pc = "unserved"] \in CallRec
  BY <1>0 DEF Images!NoCall, CallRec, Images!Steps, Images!Ended
<1> USE DEF Images!At, Images!Goto, Images!Unserved, Images!Serve, Images!Enter,
    Images!StartPolling, Images!WaitOn, Entered, Goes
<1>1. ASSUME NEW b \in Bots, Images!Enter(c, b)
      PROVE  /\ call' \in [Calls -> CallRec] /\ call'[c].pc = "look"
             /\ call'[c].day = day /\ call'[c].bot = b
  <2>1. [Images!NoCall EXCEPT !.pc = "look", !.bot = b, !.day = day] \in CallRec
    BY <1>0, <1>a DEF Images!NoCall, CallRec, Images!Steps
  <2> QED
    BY <1>0, <1>1, <2>1 DEF CallRec, Images!NoCall
<1>2. ASSUME Images!Unserved(c)
      PROVE  call' \in [Calls -> CallRec] /\ call'[c].pc = "unserved"
                 /\ call'[c].day = Images!NoDay
  BY <1>0, <1>a, <1>2 DEF CallRec, Images!NoCall
<1>3. CASE Taps(c) \/ \E b \in Bots: Images!Pregen(c, b)
  BY <1>1, <1>2, <1>3, Zenon DEF Taps, Images!Request, Images!Pregen, Images!Arrives
<1>4. ASSUME NEW to \in Images!Steps, Images!Goto(c, to)
      PROVE  call' \in [Calls -> CallRec] /\ call'[c].pc = to
             /\ call'[c].bot = call[c].bot /\ call'[c].day = call[c].day
  BY <1>0, <1>4 DEF CallRec
<1>5. ASSUME NEW d \in Images!Days, Images!Serve(c, d)
      PROVE  call' \in [Calls -> CallRec] /\ call'[c].pc = "ready"
             /\ call'[c].bot = call[c].bot /\ call'[c].day = call[c].day
  <2> DEFINE r == [call[c] EXCEPT !.pc = "ready", !.served = d, !.polls = 0]
  <2>0. "ready" \in Images!Steps \cup Images!Ended /\ 0 \in 0..Polls
            /\ d \in Images!Days \cup {Images!NoDay}
    BY <1>0 DEF Images!Ended
  <2>1. r \in CallRec
    BY <1>0, <2>0 DEF CallRec
  <2>2. r.pc = "ready" /\ r.bot = call[c].bot /\ r.day = call[c].day
    BY <1>0 DEF CallRec
  <2>3. call' = [call EXCEPT ![c] = r]
    BY <1>0, <1>5
  <2> QED
    BY <1>0, <2>1, <2>2, <2>3
<1>6. ASSUME Images!StartPolling(c)
      PROVE  call' \in [Calls -> CallRec] /\ call'[c].pc = "poll"
             /\ call'[c].bot = call[c].bot /\ call'[c].day = call[c].day
  <2> DEFINE r == [call[c] EXCEPT !.pc = "poll", !.polls = Polls]
  <2>0. "poll" \in Images!Steps \cup Images!Ended /\ Polls \in 0..Polls
    BY <1>0 DEF Images!Steps
  <2>1. r \in CallRec
    BY <1>0, <2>0 DEF CallRec
  <2>2. r.pc = "poll" /\ r.bot = call[c].bot /\ r.day = call[c].day
    BY <1>0 DEF CallRec
  <2>3. call' = [call EXCEPT ![c] = r]
    BY <1>0, <1>6
  <2> QED
    BY <1>0, <2>1, <2>2, <2>3
<1>7. CASE Images!Look(c)
  BY <1>0, <1>4, <1>5, <1>6, <1>7, Zenon DEF Images!Look, Images!Steps, Images!Running
<1>8. CASE Images!Reserve(c)
  BY <1>0, <1>4, <1>6, <1>8 DEF Images!Reserve, Images!Steps
<1>9. CASE Images!CheckBudget(c) \/ Images!Generate(c) \/ Images!Mirror(c)
  BY <1>0, <1>4, <1>9, CountsAlike DEF Images!CheckBudget, Images!Generate, Images!Mirror,
      Images!Steps
<1>10. CASE Images!Complete(c) \/ Images!MarkFailed(c)
  BY <1>0, <1>4, <1>5, <1>10, Zenon DEF Images!Complete, Images!MarkFailed, Images!Steps, Images!Running
<1>11. CASE Images!ServeFallback(c)
  <2>1. call[c].bot \in Bots
    BY <1>11 DEF Images!ServeFallback, Images!Running, Images!Steps
  <2>2. \/ Images!Unserved(c)
        \/ \E d \in Images!Days: Images!Serve(c, d)
    BY <1>11, <2>1, Answers, Zenon DEF Images!ServeFallback
  <2>3. Images!At(c, "fallback")
    BY <1>11 DEF Images!ServeFallback
  <2> QED
    BY <1>0, <1>2, <1>5, <1>11, <2>2, <2>3, Zenon
<1>12. CASE Images!Poll(c)
  <2>1. CASE ~Images!TimeUp(c) /\ Images!WaitOn(c)
    <3>1. call[c].polls - 1 \in 0..Polls
      BY <1>0, <2>1 DEF Images!TimeUp, CallRec
    <3> QED
      BY <1>0, <1>12, <2>1, <3>1 DEF Images!Poll, CallRec
  <2> QED
    BY <1>0, <1>2, <1>4, <1>5, <1>12, <2>1, Zenon DEF Images!Poll, Images!Running, Images!Steps
<1>13. CASE Images!Die(c)
  BY <1>0, <1>2, <1>13 DEF Images!Die
<1> QED
  BY <1>3, <1>7, <1>8, <1>9, <1>10, <1>11, <1>12, <1>13 DEF Acts, Reads, Decides

-----------------------------------------------------------------------------
(* The row as a lock.                                                      *)

LEMMA RunningOn ==
    ASSUME Images!CollageAssumption, LockInv, NEW c \in Calls
    PROVE  Images!Running(c) \/ Images!At(c, "ready") => call[c].bot \in Bots
               /\ call[c].day \in Images!Days /\ call[c].day <= day
BY CountsAlike DEF LockInv, Images!TypeOK, Works, Images!Days, Images!CollageAssumption

LEMMA WorksStep ==
    ASSUME Images!CollageAssumption, LockInv, NEW c \in Calls, Acts(c)
    PROVE  \A d \in Calls: Works(d)'
<1>0. day' = day /\ day \in Nat /\ day \in 1..day
  BY Touches, CountsAlike DEF LockInv, Images!TypeOK, Images!Days, Images!CollageAssumption
<1>1. /\ call' \in [Calls -> CallRec] /\ \A d \in Calls \ {c}: call'[d] = call[d]
      /\ day' = day /\ day \in 1..day
  BY <1>0, CallStep, RunningOn DEF LockInv
<1>2. \A d \in Calls \ {c}: Works(d)'
  BY <1>1 DEF LockInv, Works, Images!Running, Images!At
<1>3. Entered(c) => Works(c)'
  BY <1>1 DEF Entered, Works, Images!Running, Images!At, Images!Steps
<1>4. ASSUME NEW from \in Images!Steps \ {"new"}, NEW to, Goes(c, from, to)
      PROVE  Works(c)'
  BY <1>1, <1>4, RunningOn DEF Goes, Works, Images!Running, Images!At, Images!Steps, LockInv
<1>5. Works(c)'
  BY <1>1, <1>3, <1>4, CallStep, RunningOn DEF LockInv, Images!Steps, Works, Images!Running,
      Images!At
<1> QED
  BY <1>2, <1>5

\* A generator that is one after the step was one, or has just inserted the row.
LEMMA GeneratorStep ==
    ASSUME Images!CollageAssumption, LockInv, NEW c \in Calls, Acts(c)
    PROVE  /\ Generates(c)' =>
                /\ Generates(c)
                    \/ (Images!Reserve(c) /\ Images!Row(c) = "none" /\ call'[c].pc = "budget")
                /\ call'[c].bot = call[c].bot /\ call'[c].day = call[c].day
                /\ call[c].bot \in Bots /\ call[c].day \in Images!Days /\ ~Decides(c)
           /\ \A d \in Calls \ {c}: call'[d] = call[d]
<1> USE DEF Generates, Generating
<1>1. Images!TypeOK /\ \A d \in Calls \ {c}: call'[d] = call[d]
  BY CallStep, RunningOn DEF LockInv
<1>2. Images!Reserve(c) /\ call'[c].pc = "budget" => Images!Row(c) = "none"
  BY <1>1, CountsAlike DEF Images!Reserve, Images!StartPolling, Images!At, Images!TypeOK
<1>3. Decides(c) => call'[c].pc \in {"ready", "fallback"}
  BY <1>1, CountsAlike DEF Decides, Images!Complete, Images!MarkFailed, Images!Goto,
      Images!Serve, Images!TypeOK
<1>4. ASSUME call'[c].pc \in Generating
      PROVE  /\ call[c].pc \in Generating \/ (Images!Reserve(c) /\ call'[c].pc = "budget")
             /\ call'[c].bot = call[c].bot /\ call'[c].day = call[c].day
             /\ call[c].bot \in Bots /\ call[c].day \in Images!Days
  <2> DEFINE Same == call'[c].bot = call[c].bot /\ call'[c].day = call[c].day
  <2>1. \/ Images!Reserve(c) /\ call[c].pc = "reserve" /\ call'[c].pc = "budget" /\ Same
        \/ call[c].pc \in Generating /\ Same
    BY <1>1, <1>4, CallStep, RunningOn DEF LockInv, Entered, Goes
  <2>2. Images!Running(c)
    BY <2>1 DEF Images!Running, Images!Steps
  <2> QED
    BY <2>1, <2>2, RunningOn
<1> QED
  BY <1>1, <1>2, <1>3, <1>4

\* How a row changes.
LEMMA RowStep ==
    ASSUME Images!CollageAssumption, LockInv, NEW c \in Calls, Acts(c)
    PROVE  \/ collage' = collage /\ ~Decides(c)
           \/ /\ Images!Reserve(c) /\ Images!Row(c) = "none" /\ call[c].bot \in Bots
               /\ call[c].day \in Images!Days
              /\ collage' = [collage EXCEPT ![call[c].bot][call[c].day] = "reserved"]
           \/ /\ Decides(c) /\ call[c].bot \in Bots /\ call[c].day \in Images!Days
              /\ collage' = [collage EXCEPT ![call[c].bot][call[c].day] =
                            IF Images!Complete(c) THEN "succeeded" ELSE "failed"]
<1>1. CASE Images!Reserve(c)
  BY <1>1, RunningOn DEF Images!Reserve, Images!At, Images!Running, Images!Steps, Images!SetRow,
      Decides, Images!Complete, Images!MarkFailed
<1>2. CASE Decides(c)
  <2>1. Images!Row(c) = "reserved" /\ call[c].bot \in Bots /\ call[c].day \in Images!Days
    BY <1>2, RunningOn DEF Decides, Images!Complete, Images!MarkFailed, Images!At,
        Images!Running, Images!Steps, LockInv, RowIsLock, Generates, Generating
  <2> QED
    BY <1>2, <2>1 DEF Decides, Images!Complete, Images!MarkFailed, Images!Decide, Images!SetRow,
        Images!At
<1> QED
  BY <1>1, <1>2, Touches

LEMMA LockStep ==
    ASSUME Images!CollageAssumption, LockInv, NEW c \in Calls, Acts(c)
    PROVE  RowIsLock'
<1>g. /\ Generates(c)' =>
           /\ Generates(c)
               \/ (Images!Reserve(c) /\ Images!Row(c) = "none" /\ call'[c].pc = "budget")
           /\ call'[c].bot = call[c].bot /\ call'[c].day = call[c].day
           /\ call[c].bot \in Bots /\ call[c].day \in Images!Days /\ ~Decides(c)
      /\ \A d \in Calls \ {c}: call'[d] = call[d]
  BY GeneratorStep
<1>0. collage \in [Bots -> [Images!Days -> Images!States]]
  BY CountsAlike DEF LockInv, Images!TypeOK
<1>1. \A d \in Calls: Generates(d) => call[d].bot \in Bots /\ call[d].day \in Images!Days
          /\ Images!Row(d) = "reserved"
  BY RunningOn DEF Generates, Generating, Images!Running, Images!Steps, LockInv, RowIsLock
\* No two generators.
<1>2. ASSUME NEW d \in Calls, NEW e \in Calls, Generates(d)', Generates(e)', SameRow(d, e)'
      PROVE  d = e
  <2>1. CASE Generates(d) /\ Generates(e)
    <3>1. SameRow(d, e)
      BY <1>2, <1>g DEF SameRow
    <3> QED
      BY <2>1, <3>1 DEF LockInv, RowIsLock
  <2>2. CASE ~Generates(d) \/ ~Generates(e)
    <3>1. SameRow(d, e) /\ (~Generates(d) => d = c /\ Images!Row(c) = "none")
          /\ (~Generates(e) => e = c /\ Images!Row(c) = "none")
      BY <1>2, <1>g DEF SameRow, Generates
    <3> QED
      BY <1>1, <2>2, <3>1 DEF SameRow, Images!Row
  <2> QED
    BY <2>1, <2>2
\* The row of a generator stays reserved.
<1>3. ASSUME NEW d \in Calls, Generates(d)'
      PROVE  Images!Row(d)' = "reserved"
  <2> DEFINE b == call[d].bot
             n == call[d].day
  <2>1. /\ b \in Bots /\ n \in Images!Days /\ call'[d].bot = b /\ call'[d].day = n
        /\ (Images!Row(d) = "reserved" \/ (d = c /\ Images!Reserve(c) /\ Images!Row(c) = "none"))
        /\ (d = c => ~Decides(c))
    <3>1. CASE d = c
      BY <1>1, <1>3, <1>g, <3>1
    <3>2. CASE d # c
      <4>1. call'[d] = call[d]
        BY <1>g, <3>2
      <4>2. Generates(d)
        BY <1>3, <4>1 DEF Generates
      <4> QED
        BY <1>1, <3>2, <4>1, <4>2
    <3> QED
      BY <3>1, <3>2
  <2>2. CASE collage' = collage /\ ~Decides(c)
    <3>1. d = c /\ Images!Reserve(c) /\ Images!Row(c) = "none" => collage'[b][n] = "reserved"
      BY <1>0, <2>1, RunningOn DEF Images!Reserve, Images!SetRow, Images!Row
    <3> QED
      BY <2>1, <2>2, <3>1 DEF Images!Row
  <2>3. CASE Images!Reserve(c) /\ Images!Row(c) = "none" /\ call[c].bot \in Bots
            /\ call[c].day \in Images!Days
             /\ collage' = [collage EXCEPT ![call[c].bot][call[c].day] = "reserved"]
    BY <1>0, <2>1, <2>3 DEF Images!Row
  <2>4. CASE Decides(c) /\ call[c].bot \in Bots /\ call[c].day \in Images!Days
             /\ collage' = [collage EXCEPT ![call[c].bot][call[c].day] =
                           IF Images!Complete(c) THEN "succeeded" ELSE "failed"]
    <3>1. d # c /\ Generates(d)
      BY <1>1, <1>3, <1>g, <2>1, <2>4 DEF Decides, Images!Complete, Images!MarkFailed,
          Images!At, Generates, Images!Reserve
    <3>2. Generates(c)
      BY <2>4 DEF Decides, Images!Complete, Images!MarkFailed, Images!At, Generates, Generating
    <3>3. ~SameRow(c, d)
      BY <3>1, <3>2 DEF LockInv, RowIsLock
    <3>4. collage'[b][n] = collage[b][n]
      BY <1>0, <2>1, <2>4, <3>3 DEF SameRow
    <3> QED
      BY <1>1, <2>1, <3>1, <3>4 DEF Images!Row
  <2> QED
    BY <2>2, <2>3, <2>4, RowStep
<1> QED
  BY <1>2, <1>3 DEF RowIsLock

-----------------------------------------------------------------------------
(* What is asked for, and what is served.                                  *)

LEMMA RowOnce ==
    ASSUME Images!CollageAssumption, LockInv, NEW c \in Calls, Acts(c), NEW b \in Bots,
           NEW d \in Images!Days
    PROVE  /\ collage'[b][d] = "none" => collage[b][d] = "none"
           /\ collage[b][d] = "succeeded" => collage'[b][d] = "succeeded"
           /\ collage'[b][d] = "succeeded" =>
                collage[b][d] = "succeeded"
                    \/ (Images!Complete(c) /\ b = call[c].bot /\ d = call[c].day)
<1>1. collage \in [Bots -> [Images!Days -> Images!States]]
  BY CountsAlike DEF LockInv, Images!TypeOK
<1>2. CASE collage' = collage /\ ~Decides(c)
  BY <1>2
<1>3. CASE Images!Reserve(c) /\ Images!Row(c) = "none" /\ call[c].bot \in Bots
          /\ call[c].day \in Images!Days
           /\ collage' = [collage EXCEPT ![call[c].bot][call[c].day] = "reserved"]
  BY <1>1, <1>3 DEF Images!Row
<1>4. CASE Decides(c) /\ call[c].bot \in Bots /\ call[c].day \in Images!Days
           /\ collage' = [collage EXCEPT ![call[c].bot][call[c].day] =
                         IF Images!Complete(c) THEN "succeeded" ELSE "failed"]
  <2>1. collage[call[c].bot][call[c].day] = "reserved"
    BY <1>4 DEF Decides, Images!Complete, Images!MarkFailed, Images!At, LockInv, RowIsLock,
        Images!Row, Generates, Generating
  <2> QED
    BY <1>1, <1>4, <2>1
<1> QED
  BY <1>2, <1>3, <1>4, RowStep

LEMMA BatchedStep ==
    ASSUME Images!CollageAssumption, LockInv, NEW c \in Calls, Acts(c)
    PROVE  Batched'
<1>1. batches \in [Bots -> [Images!Days -> 0..Cardinality(Calls)]]
          /\ collage \in [Bots -> [Images!Days -> Images!States]]
  BY CountsAlike DEF LockInv, Images!TypeOK
<1>2. Cardinality(Calls) \in Nat
  BY FS_CardinalityType, CountsAlike DEF Images!CollageAssumption
<1> DEFINE b == call[c].bot
           n == call[c].day
<1>3. CASE Images!Generate(c)
  <2>1. Images!At(c, "generate") /\ b \in Bots /\ n \in Images!Days /\ collage' = collage
    BY <1>3, RunningOn, Touches DEF Images!Generate, Images!At, Images!Running, Images!Steps,
        Images!Reserve, Decides, Images!Complete, Images!MarkFailed
  <2>2. batches[b][n] = 0 /\ collage[b][n] = "reserved"
    BY <2>1 DEF Images!At, LockInv, Batched, RowIsLock, Generates, Generating, Images!Row
  <2>3. batches' = [batches EXCEPT ![b][n] = 1]
    BY <1>1, <1>3, <2>1, <2>2 DEF Images!Generate
  <2>4. Images!OneBatchPerDay'
    BY <1>1, <1>2, <2>1, <2>3 DEF LockInv, Batched, Images!OneBatchPerDay
  <2>5. \A x \in Bots, d \in Images!Days: collage'[x][d] = "none" => batches'[x][d] = 0
    BY <1>1, <2>1, <2>2, <2>3 DEF LockInv, Batched
  <2>6. ASSUME NEW e \in Calls, call'[e].pc \in {"budget", "generate"}
        PROVE  batches'[call'[e].bot][call'[e].day] = 0
    <3>1. e # c /\ call'[e] = call[e]
      <4>1. call'[c].pc \in {"mirror", "fail"}
        BY <1>3, CountsAlike DEF Images!Generate, Images!Goto, LockInv, Images!TypeOK
      <4> QED
        BY <2>6, <4>1, GeneratorStep
    <3>2. Generates(e) /\ Generates(c) /\ call[e].bot \in Bots /\ call[e].day \in Images!Days
      BY <2>1, <2>6, <3>1, RunningOn DEF Generates, Generating, Images!At, Images!Running,
          Images!Steps
    <3>3. ~SameRow(e, c)
      BY <3>1, <3>2 DEF LockInv, RowIsLock
    <3>4. batches[call[e].bot][call[e].day] = 0
      BY <2>6, <3>1 DEF LockInv, Batched
    <3> QED
      BY <1>1, <2>1, <2>3, <3>1, <3>2, <3>3, <3>4 DEF SameRow
  <2> QED
    BY <2>4, <2>5, <2>6 DEF Batched
<1>4. CASE ~Images!Generate(c)
  <2>1. batches' = batches
    BY <1>4, Touches
  <2>2. ASSUME NEW e \in Calls, call'[e].pc \in {"budget", "generate"}
        PROVE  batches'[call'[e].bot][call'[e].day] = 0
    <3>1. CASE e # c
      BY <2>1, <2>2, <3>1, GeneratorStep DEF LockInv, Batched
    <3>2. CASE e = c
      <4>1. /\ Generates(c) \/ (Images!Reserve(c) /\ Images!Row(c) = "none")
            /\ call'[c].bot = b /\ call'[c].day = n /\ b \in Bots /\ n \in Images!Days
        BY <2>2, <3>2, GeneratorStep DEF Generates, Generating
      <4>2. CASE Images!Reserve(c) /\ Images!Row(c) = "none"
        BY <2>1, <3>2, <4>1, <4>2 DEF LockInv, Batched, Images!Row
      <4>3. CASE Generates(c)
        <5>1. call[c].pc = "budget"
          BY <1>4, <2>2, <3>2, <4>3, CallStep, RunningOn DEF Generates, Generating, Entered,
              Goes, Images!At, LockInv
        <5> QED
          BY <2>1, <3>2, <4>1, <5>1 DEF LockInv, Batched
      <4> QED
        BY <4>1, <4>2, <4>3
    <3> QED
      BY <3>1, <3>2
  <2>3. \A x \in Bots, d \in Images!Days: collage'[x][d] = "none" => batches'[x][d] = 0
    BY <2>1, RowOnce DEF LockInv, Batched
  <2> QED
    BY <2>1, <2>2, <2>3 DEF Batched, LockInv, Images!OneBatchPerDay
<1> QED
  BY <1>3, <1>4

\* What a call is given.
LEMMA ServedStep ==
    ASSUME Images!CollageAssumption, LockInv, NEW c \in Calls, Acts(c), Images!At(c, "ready")'
    PROVE  /\ call[c].bot \in Bots /\ call'[c].bot = call[c].bot /\ call'[c].day = call[c].day
           /\ call'[c].served \in Images!Days /\ call'[c].served >= call[c].day - Fallback
           /\ \/ collage[call[c].bot][call'[c].served] = "succeeded"
              \/ Images!Complete(c) /\ call'[c].served = call[c].day
<1>1. call \in [Calls -> CallRec] /\ day \in Nat /\ Fallback \in Nat
  BY CountsAlike DEF LockInv, Images!TypeOK, CallRec, Images!Days, Images!CollageAssumption
<1>2. \/ (Images!Look(c) \/ Images!Poll(c)) /\ Images!Row(c) = "succeeded"
          /\ Images!Serve(c, call[c].day)
      \/ Images!Complete(c) /\ Images!Serve(c, call[c].day)
      \/ /\ Images!ServeFallback(c) /\ Images!Recent(call[c].bot) # {}
         /\ Images!Serve(c, Images!Max(Images!Recent(call[c].bot)))
  <2>1. Images!Look(c) \/ Images!Poll(c) \/ Images!Complete(c) \/ Images!ServeFallback(c)
    BY <1>1, CallStep, RunningOn DEF Entered, Goes, Images!At, LockInv
  <2>2. /\ call'[c].pc = "ready" /\ ~Images!StartPolling(c) /\ ~Images!Unserved(c)
            /\ ~Images!Goto(c, "reserve") /\ ~Images!Goto(c, "fallback")
        /\ call[c].pc = "poll" => ~Images!WaitOn(c)
    BY <1>1 DEF Images!At, Images!StartPolling, Images!Unserved, Images!NoCall, Images!WaitOn,
        Images!Goto, CallRec
  <2>3. Images!Look(c) => Images!Row(c) = "succeeded" /\ Images!Serve(c, call[c].day)
    BY <2>2 DEF Images!Look
  <2>4. Images!Poll(c) => Images!Row(c) = "succeeded" /\ Images!Serve(c, call[c].day)
    BY <2>2 DEF Images!Poll, Images!At
  <2>5. Images!Complete(c) => Images!Serve(c, call[c].day)
    BY DEF Images!Complete
  <2>6. Images!ServeFallback(c) => Images!Recent(call[c].bot) # {}
            /\ Images!Serve(c, Images!Max(Images!Recent(call[c].bot)))
    BY <2>2 DEF Images!ServeFallback
  <2> QED
    BY <2>1, <2>3, <2>4, <2>5, <2>6
<1>3. call[c].bot \in Bots /\ call[c].day \in Images!Days /\ call[c].day <= day
          /\ call[c].day \in Nat
  BY <1>2, RunningOn DEF Images!Running, Images!Steps, Images!At, Images!Look, Images!Poll,
      Images!Complete, Images!ServeFallback, Images!Days
<1>4. ASSUME NEW d \in Images!Days, Images!Serve(c, d)
      PROVE  call'[c].served = d /\ call'[c].bot = call[c].bot /\ call'[c].day = call[c].day
  BY <1>1, <1>4 DEF Images!Serve, CallRec
<1>5. CASE Images!ServeFallback(c) /\ Images!Recent(call[c].bot) # {}
          /\ Images!Serve(c, Images!Max(Images!Recent(call[c].bot)))
  <2>1. Images!Max(Images!Recent(call[c].bot)) \in Images!Recent(call[c].bot)
            /\ Images!Recent(call[c].bot) \subseteq Images!Days
    BY <1>3, <1>5, Answers DEF LockInv
  <2> DEFINE m == Images!Max(Images!Recent(call[c].bot))
  <2>2. m \in Images!Days /\ m \in Nat /\ collage[call[c].bot][m] = "succeeded"
            /\ m >= day - Fallback
    BY <2>1 DEF Images!Recent, Images!Days
  <2> HIDE DEF m
  <2>3. m >= call[c].day - Fallback
    BY <1>1, <1>3, <2>2
  <2>4. Images!Serve(c, m)
    BY <1>5 DEF m
  <2> QED
    BY <1>3, <1>4, <2>2, <2>3, <2>4
<1>6. CASE Images!Serve(c, call[c].day) /\ (Images!Complete(c) \/ Images!Row(c) = "succeeded")
  BY <1>1, <1>3, <1>4, <1>6 DEF Images!Row
<1> QED
  BY <1>2, <1>5, <1>6

LEMMA OwnedStep ==
    ASSUME Images!CollageAssumption, LockInv, NEW c \in Calls, Acts(c)
    PROVE  Owned'
<1>1. kept \subseteq kept' /\ (~Images!Mirror(c) => kept' = kept)
  BY Touches DEF Images!Mirror
<1>2. \A d \in Calls \ {c}: call'[d] = call[d]
  BY GeneratorStep
<1>3. Images!At(c, "complete")' => <<call'[c].bot, call'[c].day>> \in kept'
  <2> SUFFICES ASSUME call'[c].pc = "complete"
               PROVE  <<call'[c].bot, call'[c].day>> \in kept'
    BY DEF Images!At
  <2>1. Images!Mirror(c) /\ Goes(c, "mirror", {"complete", "fail"})
    BY CallStep, RunningOn DEF Entered, Goes, LockInv
  <2>2. ~Images!Goto(c, "fail")
    BY CallStep, RunningOn, CountsAlike DEF Images!Goto, LockInv, Images!TypeOK
  <2> QED
    BY <2>1, <2>2 DEF Images!Mirror, Goes
<1>4. \A b \in Bots, d \in Images!Days: collage'[b][d] = "succeeded" => <<b, d>> \in kept'
  <2> SUFFICES ASSUME NEW b \in Bots, NEW d \in Images!Days, collage'[b][d] = "succeeded"
               PROVE  <<b, d>> \in kept
    BY <1>1
  <2>1. collage[b][d] = "succeeded" \/ (Images!Complete(c) /\ b = call[c].bot /\ d = call[c].day)
    BY RowOnce
  <2> QED
    BY <2>1 DEF LockInv, Owned, Images!Complete
<1>5. ASSUME NEW d \in Calls, Images!At(d, "ready")'
      PROVE  /\ call'[d].served \in Images!Days /\ call'[d].bot \in Bots
             /\ collage'[call'[d].bot][call'[d].served] = "succeeded"
             /\ call'[d].served >= call'[d].day - Fallback
  <2>1. CASE d # c
    <3>1. Images!At(d, "ready") /\ call'[d] = call[d]
      BY <1>2, <1>5, <2>1 DEF Images!At
    <3>2. /\ call[d].served \in Images!Days /\ call[d].bot \in Bots
          /\ collage[call[d].bot][call[d].served] = "succeeded"
          /\ call[d].served >= call[d].day - Fallback
      BY <3>1, RunningOn DEF LockInv, Owned, Images!ServedIsOwned
    <3> QED
      BY <3>1, <3>2, RowOnce
  <2>2. CASE d = c
    <3>1. CASE collage[call[c].bot][call'[c].served] = "succeeded"
      BY <1>5, <2>2, <3>1, ServedStep, RowOnce
    <3>2. CASE Images!Complete(c) /\ call'[c].served = call[c].day
      <4>1. collage'[call[c].bot][call[c].day] = "succeeded"
        <5>1. ~Images!Reserve(c) /\ Decides(c)
                  /\ collage \in [Bots -> [Images!Days -> Images!States]]
          BY <3>2, CountsAlike DEF Decides, Images!Complete, Images!Reserve, Images!At, LockInv,
              Images!TypeOK
        <5>2. call[c].bot \in Bots /\ call[c].day \in Images!Days
          BY <5>1, RowStep
        <5>3. collage' = [collage EXCEPT ![call[c].bot][call[c].day] =
                         IF Images!Complete(c) THEN "succeeded" ELSE "failed"]
          BY <5>1, RowStep
        <5>4. collage' = [collage EXCEPT ![call[c].bot][call[c].day] = "succeeded"]
          BY <3>2, <5>3
        <5> QED
          BY <5>1, <5>2, <5>4
      <4> QED
        BY <1>5, <2>2, <3>2, <4>1, ServedStep
    <3> QED
      BY <1>5, <2>2, <3>1, <3>2, ServedStep
  <2> QED
    BY <2>1, <2>2
<1>6. Images!ServedIsOwned' /\ \A d \in Calls: Images!At(d, "ready")'
          => call'[d].served \in Images!Days
  BY <1>4, <1>5 DEF Images!ServedIsOwned
<1>7. \A d \in Calls: Images!At(d, "complete")' => <<call'[d].bot, call'[d].day>> \in kept'
  <2> SUFFICES ASSUME NEW d \in Calls, d # c, Images!At(d, "complete")'
               PROVE  <<call'[d].bot, call'[d].day>> \in kept
    BY <1>1, <1>3
  <2> QED
    BY <1>2 DEF LockInv, Owned, Images!At
<1> QED
  BY <1>4, <1>6, <1>7 DEF Owned, Images!At

-----------------------------------------------------------------------------
(* The budget.                                                             *)

AtWork == {"generate", "mirror", "complete", "fail"}

\* A check is taken by a call that comes to work, and lasts until it decides or dies.
LEMMA CheckStep ==
    ASSUME Images!CollageAssumption, LockInv, BudgetInv, NEW c \in Calls, Acts(c)
    PROVE  /\ checked' \in [Calls -> Images!Days \cup {Images!NoDay}]
           /\ \/ /\ checked' = checked /\ (checked[c] # Images!NoDay => call'[c].pc \in AtWork)
                 /\ ~Decides(c)
                 /\ call'[c].pc \in {"generate", "mirror", "complete"} =>
                        /\ call[c].pc \in {"generate", "mirror"} /\ call'[c].day = call[c].day
                        /\ unsure' = unsure
              \/ /\ checked' = [checked EXCEPT ![c] = day] /\ checked[c] = Images!NoDay
                 /\ Images!CheckBudget(c) /\ call'[c].pc = "generate"
                     /\ call'[c].day = call[c].day
                 /\ peak'
                     = [peak EXCEPT ![day]
                         = Images!Max({@, Cardinality(Images!Generators(day)) + 1})]
                 /\ ~unsure' => Images!UnderCap(day) /\ call[c].day = day
              \/ /\ checked' = [checked EXCEPT ![c] = Images!NoDay]
                  /\ call'[c].pc \notin {"generate", "mirror", "complete"}
                 /\ (Decides(c) \/ collage' = collage) /\ ~Images!CheckBudget(c)
<1> USE DEF AtWork
<1>1. Images!TypeOK /\ day \in Images!Days
          /\ checked \in [Calls -> Images!Days \cup {Images!NoDay}] /\ call \in [Calls -> CallRec]
  BY CountsAlike DEF LockInv, Images!TypeOK, CallRec
<1>2. checked[c] # Images!NoDay => call[c].pc \in AtWork
  BY DEF BudgetInv, CheckedWhileAtWork
<1>3. CASE Images!CheckBudget(c)
  <2>1. call[c].pc = "budget" /\ checked[c] = Images!NoDay
    BY <1>2, <1>3, CountsAlike DEF Images!CheckBudget, Images!At
  <2>2. call'[c].day = call[c].day /\ call'[c].pc \in {"generate", "fail"}
    BY <1>1, <1>3, CountsAlike DEF Images!CheckBudget, Images!Goto, CallRec
  <2>3. CASE Images!Goto(c, "generate")
    <3>1. call'[c].pc = "generate"
      BY <1>1, <2>3 DEF Images!Goto
    <3>2. ~Images!Goto(c, "fail")
      BY <1>1, <3>1 DEF Images!Goto, CallRec
    <3>3. /\ checked' = [checked EXCEPT ![c] = day]
          /\ peak'
              = [peak EXCEPT ![day] = Images!Max({@, Cardinality(Images!Generators(day)) + 1})]
          /\ ~unsure' => Images!UnderCap(day) /\ call[c].day = day
      BY <1>3, <3>2, CountsAlike DEF Images!CheckBudget
    <3>4. checked' \in [Calls -> Images!Days \cup {Images!NoDay}]
      BY <1>1, <3>3
    <3> QED
      BY <1>3, <2>1, <2>2, <3>1, <3>3, <3>4
  <2>4. CASE ~Images!Goto(c, "generate")
    <3>1. checked' = checked /\ Images!Goto(c, "fail") /\ ~Decides(c)
      BY <1>3, <2>1, <2>4, CountsAlike DEF Images!CheckBudget, Decides, Images!Complete,
          Images!MarkFailed, Images!At
    <3>2. call'[c].pc = "fail"
      BY <1>1, <3>1 DEF Images!Goto, CallRec
    <3> QED
      BY <1>1, <3>1, <3>2
  <2> QED
    BY <2>3, <2>4
<1>4. CASE (Decides(c) \/ Images!Die(c)) /\ ~Images!CheckBudget(c)
  <2>1. checked' = [checked EXCEPT ![c] = Images!NoDay]
    BY <1>4 DEF Decides, Images!Complete, Images!MarkFailed, Images!Decide, Images!Die
  <2>2. call'[c].pc \notin {"generate", "mirror", "complete"}
    BY <1>1, <1>4 DEF Decides, Images!Complete, Images!MarkFailed, Images!Die, Images!Unserved,
        Images!Serve, Images!Goto, Images!NoCall, CallRec
  <2>3. Decides(c) \/ collage' = collage
    BY <1>4 DEF Images!Die
  <2>4. checked' \in [Calls -> Images!Days \cup {Images!NoDay}]
    BY <1>1, <2>1
  <2> QED
    BY <1>4, <2>1, <2>2, <2>3, <2>4
<1>5. CASE ~Images!CheckBudget(c) /\ ~Decides(c) /\ ~Images!Die(c)
  <2>1. checked' = checked /\ unsure' = unsure
    BY <1>5, Touches
  <2>2. checked[c] # Images!NoDay => call'[c].pc \in AtWork
    BY <1>1, <1>2, <1>5, CallStep, RunningOn DEF Entered, Goes, Images!At, Decides
  <2>3. call'[c].pc \in {"generate", "mirror", "complete"} =>
          call[c].pc \in {"generate", "mirror"} /\ call'[c].day = call[c].day
    BY <1>1, <1>5, CallStep, RunningOn DEF Entered, Goes, Decides
  <2> QED
    BY <1>1, <1>5, <2>1, <2>2, <2>3
<1> QED
  BY <1>3, <1>4, <1>5

LEMMA TypeStep ==
    ASSUME Images!CollageAssumption, LockInv, BudgetInv, NEW c \in Calls, Acts(c)
    PROVE  Images!TypeOK'
<1>1. Images!TypeOK /\ Cardinality(Calls) \in Nat /\ Cardinality(Calls) >= 1
          /\ day \in Images!Days
  BY FS_EmptySet, FS_CardinalityType, CountsAlike DEF LockInv, Images!CollageAssumption,
      Images!TypeOK
<1>2. call' \in [Calls -> CallRec]
  BY CallStep, RunningOn DEF LockInv
<1>3. checked' \in [Calls -> Images!Days \cup {Images!NoDay}] /\ day' \in Images!Days
  BY <1>1, CheckStep, Touches
<1>4. collage' \in [Bots -> [Images!Days -> Images!States]]
  <2>1. \/ collage' = collage
        \/ /\ call[c].bot \in Bots /\ call[c].day \in Images!Days
           /\ \E state \in Images!States: collage'
               = [collage EXCEPT ![call[c].bot][call[c].day] = state]
    BY RowStep DEF Images!States
  <2>2. collage \in [Bots -> [Images!Days -> Images!States]]
    BY <1>1, CountsAlike DEF Images!TypeOK
  <2>3. ASSUME NEW b \in Bots, NEW d \in Images!Days, NEW state \in Images!States,
               collage' = [collage EXCEPT ![b][d] = state]
        PROVE  collage' \in [Bots -> [Images!Days -> Images!States]]
    BY <2>2, <2>3
  <2> QED
    BY <2>1, <2>2, <2>3
<1>5. quota' \subseteq Users \X Bots \X Images!Days
  <2>1. quota' = quota \/ \E u \in Users, b \in Bots: quota' = quota \cup {<<u, b, day>>}
    BY Touches DEF Taps, Images!Request
  <2>2. \A u \in Users, b \in Bots: <<u, b, day>> \in Users \X Bots \X Images!Days
    BY <1>1
  <2>3. quota \subseteq Users \X Bots \X Images!Days
    BY <1>1, CountsAlike DEF Images!TypeOK
  <2> QED
    BY <2>1, <2>2, <2>3
<1>6. kept' \subseteq Bots \X Images!Days
  BY <1>1, Touches, RunningOn, CountsAlike DEF Images!TypeOK, Images!Mirror, Images!At,
      Images!Running, Images!Steps
<1>7. batches' \in [Bots -> [Images!Days -> 0..Cardinality(Calls)]]
  <2>1. CASE Images!Generate(c)
    <3>1. batches[call[c].bot][call[c].day] = 0 /\ call[c].bot \in Bots
              /\ call[c].day \in Images!Days
      BY <2>1, RunningOn DEF LockInv, Batched, Images!Generate, Images!At, Images!Running,
          Images!Steps
    <3>2. batches' = [batches EXCEPT ![call[c].bot][call[c].day] = 1]
      BY <1>1, <2>1, <3>1, CountsAlike DEF Images!Generate, Images!TypeOK
    <3> QED
      BY <1>1, <3>1, <3>2, CountsAlike DEF Images!TypeOK
  <2> QED
    BY <1>1, <2>1, Touches, CountsAlike DEF Images!TypeOK
<1>8. peak' \in [Images!Days -> 0..Cardinality(Calls)]
  <2>1. CASE peak'
            = [peak EXCEPT ![day] = Images!Max({@, Cardinality(Images!Generators(day)) + 1})]
             /\ checked[c] = Images!NoDay
    <3>1. Images!Generators(day) \subseteq Calls \ {c} /\ IsFiniteSet(Calls)
      BY <1>1, <2>1, CountsAlike DEF Images!Generators, Images!CollageAssumption, Images!NoDay,
          Images!Days
    <3>2. Cardinality(Images!Generators(day)) <= Cardinality(Calls) - 1
              /\ Cardinality(Images!Generators(day)) \in Nat
      BY <1>1, <3>1, FS_Subset, FS_RemoveElement, FS_CardinalityType
    <3>3. peak[day] \in Nat /\ Cardinality(Images!Generators(day)) + 1 \in Nat
          /\ peak[day] <= Cardinality(Calls)
      BY <1>1, <3>2, CountsAlike DEF Images!TypeOK
    <3>4. Images!Max({peak[day], Cardinality(Images!Generators(day)) + 1}) \in 0..Cardinality(Calls)
      BY <1>1, <3>2, <3>3, MaxOfTwo
    <3> QED
      BY <1>1, <2>1, <3>4, CountsAlike DEF Images!TypeOK
  <2>2. CASE peak' = peak
    BY <1>1, <2>2, CountsAlike DEF Images!TypeOK
  <2>3. CASE Images!CheckBudget(c)
    <3>1. peak' = peak
              \/ peak'
                  = [peak EXCEPT ![day]
                      = Images!Max({@, Cardinality(Images!Generators(day)) + 1})]
      BY <2>3, CountsAlike DEF Images!CheckBudget
    <3>2. checked[c] = Images!NoDay
      BY <2>3, CountsAlike DEF Images!CheckBudget, Images!At, BudgetInv, CheckedWhileAtWork
    <3> QED
      BY <2>1, <2>2, <3>1, <3>2
  <2> QED
    BY <2>2, <2>3, Touches
<1>9. unsure' \in BOOLEAN
  BY <1>1, Touches, CountsAlike DEF Images!TypeOK, Images!CheckBudget
<1> QED
  BY <1>2, <1>3, <1>4, <1>5, <1>6, <1>7, <1>8, <1>9, CountsAlike DEF Images!TypeOK, CallRec

\* The generators at work on a day, one more or one less.
LEMMA OneMoreAtWork ==
    ASSUME Images!CollageAssumption, Images!TypeOK, NEW c \in Calls, checked[c] = Images!NoDay,
           day \in Images!Days,
           checked' = [checked EXCEPT ![c] = day], NEW d \in Images!Days
    PROVE  Cardinality(Images!Generators(d)')
               = Cardinality(Images!Generators(d)) + (IF d = day THEN 1 ELSE 0)
<1>1. checked \in [Calls -> Images!Days \cup {Images!NoDay}] /\ Images!NoDay \notin Images!Days
  BY CountsAlike DEF Images!TypeOK, Images!Days, Images!NoDay
<1>2. Images!Generators(d)'
          = (IF d = day THEN Images!Generators(d) \cup {c} ELSE Images!Generators(d))
              /\ c \notin Images!Generators(d)
  BY <1>1 DEF Images!Generators
<1>3. IsFiniteSet(Images!Generators(d)) /\ Cardinality(Images!Generators(d)) \in Nat
  BY Counted
<1>4. Cardinality(Images!Generators(d) \cup {c}) = Cardinality(Images!Generators(d)) + 1
  BY <1>2, <1>3, FS_AddElement
<1> QED
  BY <1>2, <1>3, <1>4

LEMMA OneLessAtWork ==
    ASSUME Images!CollageAssumption, Images!TypeOK, NEW c \in Calls,
           checked' = [checked EXCEPT ![c] = Images!NoDay], NEW d \in Images!Days
    PROVE  Cardinality(Images!Generators(d)')
               = Cardinality(Images!Generators(d)) - (IF checked[c] = d THEN 1 ELSE 0)
<1>1. checked \in [Calls -> Images!Days \cup {Images!NoDay}] /\ Images!NoDay \notin Images!Days
  BY CountsAlike DEF Images!TypeOK, Images!Days, Images!NoDay
<1>2. Images!Generators(d)' = Images!Generators(d) \ {c}
          /\ (c \in Images!Generators(d) <=> checked[c] = d)
  BY <1>1 DEF Images!Generators
<1>3. IsFiniteSet(Images!Generators(d)) /\ Cardinality(Images!Generators(d)) \in Nat
  BY Counted
<1>4. Cardinality(Images!Generators(d) \ {c}) =
        IF c \in Images!Generators(d) THEN Cardinality(Images!Generators(d)) - 1
        ELSE Cardinality(Images!Generators(d))
  BY <1>3, FS_RemoveElement
<1> QED
  BY <1>2, <1>3, <1>4

\* What a day has booked, one more when a generator completes.
LEMMA SpentStep ==
    ASSUME Images!CollageAssumption, LockInv, NEW c \in Calls, Acts(c), Images!TypeOK',
           NEW d \in Images!Days
    PROVE  /\ Images!Spent(d)' \in Nat /\ Images!Spent(d)' <= Images!Spent(d) + 1
           /\ ~(Images!Complete(c) /\ call[c].day = d) => Images!Spent(d)' = Images!Spent(d)
<1> DEFINE S == {b \in Bots: collage[b][d] = "succeeded"}
           T == {b \in Bots: collage'[b][d] = "succeeded"}
<1>1. Images!Spent(d) = Cardinality(S) /\ Images!Spent(d)' = Cardinality(T)
  BY CountsAlike DEF Images!Spent
<1>2. IsFiniteSet(S) /\ Cardinality(S) \in Nat
  BY <1>1, Counted DEF LockInv
<1>3. \A b \in T: b \in S \/ (Images!Complete(c) /\ call[c].day = d /\ b = call[c].bot)
  BY RowOnce
<1>4. S \subseteq T
  BY RowOnce
<1> HIDE DEF S, T
<1>5. CASE ~(Images!Complete(c) /\ call[c].day = d)
  <2>1. S = T
    BY <1>3, <1>4, <1>5
  <2>2. Images!Spent(d)' = Images!Spent(d) /\ Images!Spent(d) \in Nat
    BY <1>1, <1>2, <2>1
  <2> QED
    BY <2>2
<1>6. CASE Images!Complete(c) /\ call[c].day = d
  <2>1. T = S \/ T = S \cup {call[c].bot}
    BY <1>3, <1>4, <1>6
  <2>2. Cardinality(T) \in Nat /\ Cardinality(T) <= Cardinality(S) + 1
    <3>1. Cardinality(S \cup {call[c].bot})
              = IF call[c].bot \in S THEN Cardinality(S) ELSE Cardinality(S) + 1
      BY <1>2, FS_AddElement
    <3>2. CASE T = S
      BY <1>2, <3>2
    <3>3. CASE T = S \cup {call[c].bot}
      <4>1. Cardinality(T) = Cardinality(S) \/ Cardinality(T) = Cardinality(S) + 1
        BY <3>1, <3>3
      <4> QED
        BY <1>2, <4>1
    <3> QED
      BY <2>1, <3>2, <3>3
  <2> QED
    BY <1>1, <1>6, <2>2
<1> QED
  BY <1>5, <1>6

LEMMA BudgetStep ==
    ASSUME Images!CollageAssumption, LockInv, BudgetInv, NEW c \in Calls, Acts(c), Images!TypeOK'
    PROVE  BudgetInv'
<1>1. Images!TypeOK /\ day \in Images!Days /\ \A d \in Calls \ {c}: call'[d] = call[d]
  BY GeneratorStep, CountsAlike DEF LockInv, Images!TypeOK
<1>2. checked \in [Calls -> Images!Days \cup {Images!NoDay}]
          /\ checked' \in [Calls -> Images!Days \cup {Images!NoDay}]
      /\ peak \in [Images!Days -> 0..Cardinality(Calls)] /\ Cardinality(Calls) \in Nat
      /\ HardCap \in Nat /\ Images!NoDay \notin Images!Days
  BY <1>1, CheckStep, FS_CardinalityType, CountsAlike DEF Images!TypeOK,
      Images!CollageAssumption, Images!Days, Images!NoDay
<1>3. \A d \in Calls \ {c}: checked'[d] = checked[d]
  BY <1>2, CheckStep
<1>4. (unsure => unsure') /\ unsure \in BOOLEAN
  BY <1>1, Touches, CountsAlike DEF Images!TypeOK, Images!CheckBudget
<1>5. CheckedWhileAtWork'
  <2>1. checked'[c] # Images!NoDay => call'[c].pc \in AtWork
    BY <1>2, CheckStep DEF AtWork
  <2> QED
    BY <1>1, <1>3, <2>1 DEF BudgetInv, CheckedWhileAtWork, AtWork
<1>6. ChecksItsDay'
  <2> SUFFICES ASSUME ~unsure', NEW d \in Calls,
      call'[d].pc \in {"generate", "mirror", "complete"}
               PROVE  checked'[d] = call'[d].day
    BY DEF ChecksItsDay
  <2>1. CASE d # c
    BY <1>1, <1>3, <1>4, <2>1 DEF BudgetInv, ChecksItsDay
  <2>2. CASE d = c
    BY <1>2, <1>4, <2>2, CheckStep DEF BudgetInv, ChecksItsDay
  <2> QED
    BY <2>1, <2>2
<1>7. ASSUME NEW d \in Images!Days
      PROVE  /\ Cardinality(Images!Generators(d)') <= peak'[d]
             /\ ~unsure' => (Images!Spent(d)' + Cardinality(Images!Generators(d)') > 0 =>
                                Images!Spent(d)' + Cardinality(Images!Generators(d)')
                                    <= HardCap - 1 + peak'[d])
  <2>1. /\ Images!Spent(d) \in Nat /\ Images!Spent(d)' \in Nat
            /\ Images!Spent(d)' <= Images!Spent(d) + 1
        /\ ~(Images!Complete(c) /\ call[c].day = d) => Images!Spent(d)' = Images!Spent(d)
        /\ Cardinality(Images!Generators(d)) \in Nat /\ peak[d] \in Nat
    <3>1. Images!Spent(d) \in Nat /\ Cardinality(Images!Generators(d)) \in Nat
      BY <1>1, Counted
    <3>2. /\ Images!Spent(d)' \in Nat /\ Images!Spent(d)' <= Images!Spent(d) + 1
          /\ ~(Images!Complete(c) /\ call[c].day = d) => Images!Spent(d)' = Images!Spent(d)
      BY SpentStep
    <3>3. peak[d] \in Nat
      BY <1>2
    <3> QED
      BY <3>1, <3>2, <3>3
  <2>2. /\ Cardinality(Images!Generators(d)) <= peak[d]
        /\ ~unsure => (Images!Spent(d) + Cardinality(Images!Generators(d)) > 0 =>
                          Images!Spent(d) + Cardinality(Images!Generators(d))
                              <= HardCap - 1 + peak[d])
    BY DEF BudgetInv, PeakIsPeak, Overrun
  <2>3. CASE checked' = checked /\ ~Decides(c)
    <3>1. Images!Generators(d)' = Images!Generators(d) /\ peak' = peak
      <4>1. ~Images!CheckBudget(c) => peak' = peak
        BY Touches
      <4>2. Images!CheckBudget(c) => peak' = peak
        BY <1>2, <2>3, CountsAlike DEF Images!CheckBudget, Images!At, BudgetInv,
            CheckedWhileAtWork
      <4> QED
        BY <2>3, <4>1, <4>2 DEF Images!Generators
    <3>2. ~Images!Complete(c)
      BY <2>3 DEF Decides
    <3> QED
      BY <1>4, <2>1, <2>2, <3>1, <3>2
  <2>4. CASE /\ checked' = [checked EXCEPT ![c] = day] /\ checked[c] = Images!NoDay
                 /\ Images!CheckBudget(c)
             /\ peak'
                 = [peak EXCEPT ![day] = Images!Max({@, Cardinality(Images!Generators(day)) + 1})]
             /\ ~unsure' => Images!UnderCap(day)
    <3>1. ~Images!Complete(c)
      BY <2>4, CountsAlike DEF Images!CheckBudget, Images!Complete, Images!At
    <3>2. Cardinality(Images!Generators(d)')
              = Cardinality(Images!Generators(d)) + (IF day = d THEN 1 ELSE 0)
      BY <1>1, <2>4, OneMoreAtWork
    <3>3. CASE d # day
      <4>1. peak'[d] = peak[d]
        BY <1>2, <2>4, <3>3
      <4> QED
        BY <1>4, <2>1, <2>2, <3>1, <3>2, <3>3, <4>1
    <3>4. CASE d = day
      <4>1. peak'[d] = Images!Max({peak[d], Cardinality(Images!Generators(d)) + 1})
        BY <1>2, <2>4, <3>4
      <4>2. peak'[d] \in Nat /\ Cardinality(Images!Generators(d)) + 1 <= peak'[d]
        BY <2>1, <4>1, MaxOfTwo
      <4>3. ~unsure' => Images!Spent(d) < HardCap
        BY <2>4, <3>4 DEF Images!UnderCap
      <4> QED
        BY <1>2, <2>1, <3>1, <3>2, <3>4, <4>2, <4>3
    <3> QED
      BY <3>3, <3>4
  <2>5. CASE checked' = [checked EXCEPT ![c] = Images!NoDay]
            /\ (Decides(c) \/ collage' = collage) /\ ~Images!CheckBudget(c)
    <3>1. Cardinality(Images!Generators(d)')
              = Cardinality(Images!Generators(d)) - (IF checked[c] = d THEN 1 ELSE 0)
      BY <1>1, <2>5, OneLessAtWork
    <3>2. peak' = peak /\ unsure' = unsure
      BY <2>5, Touches
    <3>3. ~unsure /\ Images!Complete(c) => checked[c] = call[c].day
      BY DEF Images!Complete, Images!At, BudgetInv, ChecksItsDay
    <3> QED
      BY <1>2, <1>4, <2>1, <2>2, <3>1, <3>2, <3>3
  <2>6. CASE Images!CheckBudget(c)
    BY <2>3, <2>4, <2>6, CheckStep
  <2>7. CASE ~Images!CheckBudget(c)
    BY <2>3, <2>5, <2>7, CheckStep
  <2> QED
    BY <2>6, <2>7
<1>8. PeakIsPeak' /\ Overrun'
  BY <1>7 DEF PeakIsPeak, Overrun
<1> QED
  BY <1>5, <1>6, <1>8 DEF BudgetInv

-----------------------------------------------------------------------------
LEMMA StepKeeps == Images!CollageAssumption /\ CollageInv /\ [Images!Next]_(Images!vars)
    => CollageInv'
<1> SUFFICES ASSUME Images!CollageAssumption, CollageInv, [Images!Next]_(Images!vars)
             PROVE  CollageInv'
  OBVIOUS
<1>1. CASE UNCHANGED Images!vars
  <2>1. Images!TypeOK' /\ CheckedWhileAtWork' /\ ChecksItsDay'
    BY <1>1, CountsAlike DEF Images!vars, CollageInv, LockInv, BudgetInv, Images!TypeOK,
        CheckedWhileAtWork, ChecksItsDay
  <2>2. (\A c \in Calls: Works(c))' /\ RowIsLock'
    BY <1>1 DEF Images!vars, CollageInv, LockInv, Works, Images!Running, Images!At, RowIsLock,
        Generates, SameRow, Images!Row
  <2>3. Batched' /\ Owned'
    BY <1>1 DEF Images!vars, CollageInv, LockInv, Batched, Images!OneBatchPerDay, Owned,
        Images!ServedIsOwned, Images!At
  <2>4. \A d \in Images!Days: Images!Generators(d)' = Images!Generators(d)
            /\ Images!Spent(d)' = Images!Spent(d)
    BY <1>1, CountsAlike DEF Images!vars, Images!Generators, Images!Spent
  <2>5. PeakIsPeak' /\ Overrun'
    BY <1>1, <2>4 DEF Images!vars, CollageInv, BudgetInv, PeakIsPeak, Overrun
  <2> QED
    BY <2>1, <2>2, <2>3, <2>5 DEF CollageInv, LockInv, BudgetInv
<1>2. CASE Images!Midnight
  <2>1. day' = day + 1 /\ day' \in Images!Days /\ day \in Nat
        /\ UNCHANGED <<collage, quota, kept, call, batches, checked, peak, unsure>>
    BY <1>2, CountsAlike DEF Images!Midnight, Images!genVars, CollageInv, LockInv,
        Images!TypeOK, Images!Days, Images!CollageAssumption
  <2>2. Images!TypeOK' /\ CheckedWhileAtWork' /\ ChecksItsDay'
    BY <2>1, CountsAlike DEF CollageInv, LockInv, BudgetInv, Images!TypeOK, CheckedWhileAtWork,
        ChecksItsDay
  <2>3. (\A c \in Calls: Works(c))' /\ RowIsLock'
    BY <2>1 DEF CollageInv, LockInv, Works, Images!Running, Images!At, RowIsLock, Generates,
        SameRow, Images!Row
  <2>4. Batched' /\ Owned'
    BY <2>1 DEF CollageInv, LockInv, Batched, Images!OneBatchPerDay, Owned,
        Images!ServedIsOwned, Images!At
  <2>5. \A d \in Images!Days: Images!Generators(d)' = Images!Generators(d)
            /\ Images!Spent(d)' = Images!Spent(d)
    BY <2>1, CountsAlike DEF Images!Generators, Images!Spent
  <2>6. PeakIsPeak' /\ Overrun'
    BY <2>1, <2>5 DEF CollageInv, BudgetInv, PeakIsPeak, Overrun
  <2> QED
    BY <2>2, <2>3, <2>4, <2>6 DEF CollageInv, LockInv, BudgetInv
<1>3. ASSUME NEW c \in Calls, Acts(c)
      PROVE  CollageInv'
  <2>1. Images!TypeOK' /\ (\A d \in Calls: Works(d)')
    BY <1>3, TypeStep, WorksStep DEF CollageInv
  <2>2. RowIsLock' /\ Batched' /\ Owned' /\ BudgetInv'
    BY <1>3, <2>1, LockStep, BatchedStep, OwnedStep, BudgetStep DEF CollageInv
  <2> QED
    BY <2>1, <2>2 DEF CollageInv, LockInv
<1> QED
  BY <1>1, <1>2, <1>3, NextIs

LEMMA Start == Images!CollageAssumption /\ Images!Init => CollageInv
<1> SUFFICES ASSUME Images!CollageAssumption, Images!Init
             PROVE  CollageInv
  OBVIOUS
<1>1. 1 \in Images!Days /\ Cardinality(Calls) \in Nat /\ Images!NoCall \in CallRec
  BY FS_CardinalityType, CountsAlike DEF Images!CollageAssumption, Images!Days, Images!NoCall,
      CallRec, Images!Steps
<1>2. \A c \in Calls: call[c].pc = "new"
  BY CountsAlike DEF Images!Init, Images!NoCall
<1>3. Images!TypeOK
  <2>1. call \in [Calls -> CallRec]
    BY <1>1, CountsAlike DEF Images!Init
  <2>2. collage \in [Bots -> [Images!Days -> Images!States]] /\ day \in Images!Days
    BY <1>1, CountsAlike DEF Images!Init, Images!States
  <2>3. batches \in [Bots -> [Images!Days -> 0..Cardinality(Calls)]]
            /\ peak \in [Images!Days -> 0..Cardinality(Calls)]
    BY <1>1, CountsAlike DEF Images!Init
  <2>4. quota = {} /\ kept = {} /\ checked \in [Calls -> Images!Days \cup {Images!NoDay}]
            /\ unsure \in BOOLEAN
    BY CountsAlike DEF Images!Init
  <2> QED
    BY <2>1, <2>2, <2>3, <2>4, CountsAlike DEF Images!TypeOK, CallRec
<1>4. (\A c \in Calls: Works(c)) /\ RowIsLock /\ CheckedWhileAtWork /\ ChecksItsDay
  BY <1>2, CountsAlike DEF Works, Images!Running, Images!At, RowIsLock, Generates, Generating,
      CheckedWhileAtWork, ChecksItsDay, Images!Init
<1>5. Batched /\ Owned
  BY <1>2, CountsAlike DEF Batched, Images!OneBatchPerDay, Owned, Images!ServedIsOwned,
      Images!At, Images!Init
<1>6. \A d \in Images!Days: Images!Generators(d) = {}
          /\ {b \in Bots: collage[b][d] = "succeeded"} = {} /\ peak[d] = 0
  BY CountsAlike DEF Images!Init, Images!Generators, Images!Days, Images!NoDay
<1>7. \A d \in Images!Days: Cardinality(Images!Generators(d)) = 0 /\ Images!Spent(d) = 0
          /\ peak[d] = 0
  BY <1>6, FS_EmptySet, CountsAlike DEF Images!Spent
<1>8. PeakIsPeak /\ Overrun
  BY <1>7 DEF PeakIsPeak, Overrun
<1> QED
  BY <1>3, <1>4, <1>5, <1>8 DEF CollageInv, LockInv, BudgetInv

LEMMA Inductive ==
    ASSUME Images!CollageAssumption
    PROVE  Images!Spec => []CollageInv
<1>1. Images!Init => CollageInv
  BY Start
<1>2. CollageInv /\ [Images!Next]_(Images!vars) => CollageInv'
  BY StepKeeps
<1> QED
  BY <1>1, <1>2, PTL DEF Images!Spec

LEMMA Sound ==
    ASSUME Images!CollageAssumption, CollageInv
    PROVE  Images!CollagesAreSound
<1>1. Images!OverrunBounded
  <2> SUFFICES ASSUME ~unsure, NEW d \in Images!Days, Images!Spent(d) > 0
               PROVE  Images!Spent(d) <= HardCap - 1 + peak[d]
    BY DEF Images!OverrunBounded
  <2>1. Images!Spent(d) \in Nat /\ Cardinality(Images!Generators(d)) \in Nat
    BY Counted DEF CollageInv, LockInv
  <2>2. HardCap \in Nat /\ peak[d] \in 0..Cardinality(Calls)
    BY CountsAlike DEF Images!CollageAssumption, CollageInv, LockInv, Images!TypeOK
  <2>3. Images!Spent(d) + Cardinality(Images!Generators(d)) > 0 =>
          Images!Spent(d) + Cardinality(Images!Generators(d)) <= HardCap - 1 + peak[d]
    BY DEF CollageInv, BudgetInv, Overrun
  <2> QED
    BY <2>1, <2>2, <2>3
<1> QED
  BY <1>1 DEF CollageInv, LockInv, Batched, Owned, Images!CollagesAreSound

-----------------------------------------------------------------------------
(* Among the other media: a step of a video leaves the collages alone.     *)

\* What holds of the videos, of their queue and of the collages by themselves holds where
\* they run in one program: a behaviour of the media is one of each of its parts.
THEOREM MediaRunsItsParts == MediaSpec => Spec /\ Queue!Spec /\ Images!Spec
<1>1. MediaInit => Init /\ Queue!Init /\ Images!Init
  BY DEF MediaInit
<1>2. [MediaNext]_mediaVars
        => [Next]_vars /\ [Queue!Next]_(Queue!vars) /\ [Images!Next]_(Images!vars)
  <2> SUFFICES ASSUME [MediaNext]_mediaVars
               PROVE  [Next]_vars /\ [Queue!Next]_(Queue!vars) /\ [Images!Next]_(Images!vars)
    OBVIOUS
  <2>1. UNCHANGED videoVars => UNCHANGED vars
    BY DEF videoVars
  <2>2. UNCHANGED queueVars => UNCHANGED Queue!vars
    BY DEF queueVars, Queue!vars
  <2>3. UNCHANGED collageVars => UNCHANGED Images!vars
    BY DEF collageVars, Images!vars, Images!genVars
  <2>4. CASE InVideo(Next)
    BY <2>2, <2>3, <2>4 DEF InVideo
  <2>5. CASE InQueue(Queue!Next)
    BY <2>1, <2>3, <2>5 DEF InQueue
  <2>6. CASE InImages(Images!Next)
    BY <2>1, <2>2, <2>6 DEF InImages
  <2>7. CASE UNCHANGED mediaVars
    <3>1. UNCHANGED videoVars /\ UNCHANGED queueVars /\ UNCHANGED collageVars
      BY <2>7 DEF mediaVars
    <3> QED
      BY <2>1, <2>2, <2>3, <3>1
  <2> QED
    BY <2>4, <2>5, <2>6, <2>7 DEF MediaNext
<1> QED
  BY <1>1, <1>2, PTL DEF MediaSpec, Spec, Queue!Spec, Images!Spec

\* image_collage.py: however many requests and nightly passes meet at a bot's row, whoever
\* dies with it and whenever the day changes, a batch is paid for once per bot and day, a
\* request is given a finished collage whose pictures are all in the bucket, no older than
\* the fallback allows, and a day's budget is overrun by the generators at work at once only.
THEOREM CollagesStaySound == MediaSpec => []CollagesAreSound
<1>1. Images!CollageAssumption
  BY CollagesAssumption
<1>2. Images!Spec => []CollageInv
  BY <1>1, Inductive
<1>3. CollageInv => CollagesAreSound
  BY <1>1, Sound DEF CollagesAreSound
<1> QED
  BY <1>2, <1>3, MediaRunsItsParts, PTL

\* A collage that was booked as a success stays, and so do its pictures: what was served
\* once can be served again.
SuccessStays ==
    [][\A b \in Bots, d \in Images!Days:
        collage[b][d] = "succeeded"
            => collage'[b][d] = "succeeded" /\ <<b, d>> \in kept']_(Images!vars)

\* No step of any call takes a success back.
THEOREM SuccessIsFinal == MediaSpec => SuccessStays
<1>1. CollageInv /\ [Images!Next]_(Images!vars) =>
        [\A b \in Bots, d \in Images!Days:
            collage[b][d] = "succeeded"
                => collage'[b][d] = "succeeded" /\ <<b, d>> \in kept']_(Images!vars)
  <2> SUFFICES ASSUME CollageInv, [Images!Next]_(Images!vars), NEW b \in Bots,
                      NEW d \in Images!Days, collage[b][d] = "succeeded"
               PROVE  collage'[b][d] = "succeeded" /\ <<b, d>> \in kept'
    OBVIOUS
  <2>1. CollageInv'
    BY CollagesAssumption, StepKeeps
  <2>2. collage'[b][d] = "succeeded"
    BY CollagesAssumption, RowOnce, NextIs DEF CollageInv, Images!Midnight, Images!vars
  <2> QED
    BY <2>1, <2>2 DEF CollageInv, LockInv, Owned
<1>2. Images!Spec => []CollageInv
  BY CollagesAssumption, Inductive
<1> QED
  BY <1>1, <1>2, MediaRunsItsParts, PTL DEF Images!Spec, SuccessStays
=============================================================================
