------------------------------- MODULE Streak -------------------------------
(***************************************************************************)
(* The daily streak of one conversation (streak_tracker.py, migration      *)
(* 014): every process runs a pass a day at an hour of its own.  A pass    *)
(* takes a snapshot of the last day the user wrote, updates the row under  *)
(* FOR UPDATE SKIP LOCKED, then looks for dormant rows and resets them.    *)
(***************************************************************************)
EXTENDS Integers, FiniteSets

CONSTANTS
    Procs,  \* processes running streak_loop
    Days    \* bound: the model's last day

\* What the constant must satisfy.
StreakAssumption == Days \in Nat \ {0}

NoDay == 0

VARIABLES
    today,     \* CURRENT_DATE
    wrote,     \* days with a user message
    row,       \* current_streak_days, longest_streak_days, last_streak_date
    pass,      \* per process: its step and the last_user_date of its snapshot
    ran,       \* per process: the day of its last pass
    overlap    \* history: two passes were under way at once

streakVars == <<today, wrote, row, pass, ran, overlap>>

Asleep == [pc |-> "sleep", last |-> NoDay]

TypeOK ==
    /\ today \in 1..Days /\ wrote \subseteq 1..today
    /\ row \in [current: Nat, longest: Nat, last: NoDay..Days]
    /\ pass \in [Procs -> [pc: {"sleep", "update", "find", "reset"}, last: NoDay..Days]]
    /\ ran \in [Procs -> NoDay..Days] /\ overlap \in BOOLEAN

Init ==
    /\ today = 1 /\ wrote = {} /\ overlap = FALSE
    /\ row = [current |-> 0, longest |-> 0, last |-> NoDay]
    /\ pass = [p \in Procs |-> Asleep] /\ ran = [p \in Procs |-> NoDay]

NewDay == today < Days /\ today' = today + 1 /\ UNCHANGED <<wrote, row, pass, ran, overlap>>
Write == wrote' = wrote \cup {today} /\ UNCHANGED <<today, row, pass, ran, overlap>>

Latest(days) == IF days = {} THEN NoDay ELSE CHOOSE d \in days : \A e \in days : e <= d

Step(p, pc, last) == pass' = [pass EXCEPT ![p] = [pc |-> pc, last |-> last]]

\* Step 1, the snapshot; a conversation without user messages is not in it.
Snapshot(p) ==
    /\ pass[p].pc = "sleep" /\ ran[p] < today
    /\ Step(p, IF wrote = {} THEN "find" ELSE "update", Latest(wrote))
    /\ ran' = [ran EXCEPT ![p] = today]
    /\ overlap' = (overlap \/ \E q \in Procs \ {p} : pass[q].pc # "sleep")
    /\ UNCHANGED <<today, wrote, row>>

\* _NEW_STREAK_CASE
NewStreakOverGaps(last) ==
    IF row.last = NoDay THEN 1 ELSE IF last > row.last THEN row.current + 1 ELSE row.current
NewStreak(last) ==
    IF row.last = NoDay THEN 1
    ELSE CASE last = row.last -> row.current
           [] last = row.last + 1 -> row.current + 1
           [] last > row.last + 1 -> 1
           [] OTHER -> row.current
Highest(a, b) == IF a < b THEN b ELSE a

\* _UPDATE_CHUNK_SQL, or nothing when a message insert holds the row's lock.
Update(p) ==
    /\ pass[p].pc = "update"
    /\ LET streak == NewStreak(pass[p].last) IN
       \/ row' = [current |-> streak, longest |-> Highest(row.longest, streak), last |-> pass[p].last]
       \/ UNCHANGED row
    /\ Step(p, "find", pass[p].last)
    /\ UNCHANGED <<today, wrote, ran, overlap>>

\* Step 2: the SELECT of dormant rows.
FindDormant(p) ==
    /\ pass[p].pc = "find"
    /\ Step(p, IF row.current > 0 /\ row.last < today - 1 THEN "reset" ELSE "sleep", NoDay)
    /\ UNCHANGED <<today, wrote, row, ran, overlap>>

\* _RESET_CHUNK_SQL: by id, without a second look at the date.
Reset(p) ==
    /\ pass[p].pc = "reset"
    /\ \/ row' = [row EXCEPT !.current = 0]
       \/ UNCHANGED row
    /\ Step(p, "sleep", NoDay)
    /\ UNCHANGED <<today, wrote, ran, overlap>>

Next ==
    \/ NewDay \/ Write
    \/ \E p \in Procs : Snapshot(p) \/ Update(p) \/ FindDormant(p) \/ Reset(p)
Spec == Init /\ [][Next]_streakVars

-----------------------------------------------------------------------------
\* Consecutive days with a message, up to and including day d.
RunUpTo(d) == Cardinality({n \in 1..d : n..d \subseteq wrote})

\* A streak is never longer than the run of days the user really wrote, the longest
\* never shorter than the current one nor longer than the best run, unless two passes
\* overlapped: a late one then moves last_streak_date back and a day counts twice.
StreaksAreEarned ==
    /\ row.current <= row.longest
    /\ ~overlap => /\ row.current <= RunUpTo(row.last)
                   /\ \E d \in NoDay..Days : row.longest <= RunUpTo(d)
=============================================================================
