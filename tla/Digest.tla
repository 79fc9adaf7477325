-------------------------------- MODULE Digest --------------------------------
(***************************************************************************)
(* The daily digest mail (app/services/ops/email_digest.py): every process *)
(* runs digest_loop and wakes once in the five minutes of the day the mail *)
(* is due; an operator may force one (routes/admin_dashboard.py).          *)
(* They meet in email_digest_runs, which has no unique key.                *)
(***************************************************************************)
EXTENDS Integers, FiniteSets

CONSTANTS
    Loops,    \* processes running digest_loop
    Forces,   \* requests of the preview with force=1: a bound
    Keep,     \* DIGEST_HISTORY_KEEP
    Days      \* bound: the model's last day

\* What the constants must satisfy.
DigestAssumption ==
    /\ IsFiniteSet(Loops) /\ IsFiniteSet(Forces) /\ Loops \cap Forces = {}
    /\ Keep \in Nat \ {0} /\ Days \in Nat \ {0}

VARIABLES
    today,    \* the UTC date
    runs,     \* email_digest_runs
    run,      \* per loop and per request: its step, and whether its mail was sent
    woke,     \* per loop: the day it last woke in those minutes
    rows,     \* rows inserted so far: rendered_at of the next one
    mails,    \* history: per date, mails the server took
    excused   \* history: dates of which two runs overlapped, or one was forced or lost

digestVars == <<today, runs, run, woke, rows, mails, excused>>

Runners == Loops \cup Forces
Run == [at: Nat, date: 1..Days, sent: BOOLEAN]

TypeOK ==
    /\ today \in 1..Days /\ runs \subseteq Run /\ Cardinality(runs) <= Keep + Cardinality(Runners)
    /\ run \in [Runners -> [pc: {"idle", "check", "send", "record", "trim", "done"}, sent: BOOLEAN]]
    /\ woke \in [Loops -> 0..Days] /\ rows \in Nat
    /\ mails \in [1..Days -> Nat] /\ excused \subseteq 1..Days

Init ==
    /\ today = 1 /\ runs = {} /\ rows = 0 /\ excused = {}
    /\ run = [r \in Runners |-> [pc |-> "idle", sent |-> FALSE]]
    /\ woke = [l \in Loops |-> 0] /\ mails = [d \in 1..Days |-> 0]

Goto(r, pc) == run' = [run EXCEPT ![r].pc = pc]
Under(r) == run[r].pc \in {"send", "record"}
Rest(r) == IF r \in Loops THEN "idle" ELSE "done"

\* A run takes seconds, and the mail is due far from midnight.
NewDay ==
    /\ today < Days /\ \A r \in Runners : run[r].pc \in {"idle", "done"}
    /\ today' = today + 1 /\ UNCHANGED <<runs, run, woke, rows, mails, excused>>

\* The loop sleeps for as long as those minutes last: it wakes in them once at most.
Wake(l) ==
    /\ run[l].pc = "idle" /\ woke[l] < today
    /\ woke' = [woke EXCEPT ![l] = today] /\ Goto(l, "check")
    /\ UNCHANGED <<today, runs, rows, mails, excused>>

\* A run under way at the same time is what for_date cannot tell.
Overlaps(r) == {today} \cap {d \in 1..Days : \E q \in Runners \ {r} : Under(q)}

RecordedIfSent(date) == \E x \in runs : x.date = date /\ x.sent
Recorded(date) == \E x \in runs : x.date = date
Check(l) ==
    /\ run[l].pc = "check"
    /\ Goto(l, IF Recorded(today) THEN "idle" ELSE "send")
    /\ excused' = excused \cup (IF Recorded(today) THEN {} ELSE Overlaps(l))
    /\ UNCHANGED <<today, runs, woke, rows, mails>>

Force(f) ==
    /\ run[f].pc = "idle" /\ Goto(f, "send")
    /\ excused' = excused \cup {today}
    /\ UNCHANGED <<today, runs, woke, rows, mails>>

\* build_digest and _send_email_sync: no server configured, a failure that may hide a
\* mail that did go out, or a mail.
Send(r) ==
    /\ run[r].pc = "send"
    /\ \E sent \in BOOLEAN, taken \in 0..1 :
        /\ sent => taken = 1
        /\ run' = [run EXCEPT ![r] = [pc |-> "record", sent |-> sent]]
        /\ mails' = [mails EXCEPT ![today] = @ + taken]
    /\ UNCHANGED <<today, runs, woke, rows, excused>>

\* _record_run, whatever became of the mail; the insert itself may fail.
Record(r) ==
    /\ run[r].pc = "record"
    /\ \/ /\ runs' = runs \cup {[at |-> rows + 1, date |-> today, sent |-> run[r].sent]}
          /\ rows' = rows + 1 /\ Goto(r, "trim") /\ UNCHANGED excused
       \/ excused' = excused \cup {today} /\ Goto(r, Rest(r)) /\ UNCHANGED <<runs, rows>>
    /\ UNCHANGED <<today, woke, mails>>

\* The newest Keep rows stay.
Newer(x) == {y \in runs : y.at > x.at}
Trim(r) ==
    /\ run[r].pc = "trim"
    /\ runs' = {x \in runs : Cardinality(Newer(x)) < Keep}
    /\ Goto(r, Rest(r))
    /\ UNCHANGED <<today, woke, rows, mails, excused>>

Next ==
    \/ NewDay
    \/ \E l \in Loops : Wake(l) \/ Check(l)
    \/ \E f \in Forces : Force(f)
    \/ \E r \in Runners : Send(r) \/ Record(r) \/ Trim(r)
Spec == Init /\ [][Next]_digestVars

-----------------------------------------------------------------------------
\* email_digest.py:288 "Idempotent via for_date - won't double-send": a day gets one
\* mail, unless two processes were between their check and their record at once, an
\* operator forced one, or the record was lost.
OneMailADay == \A d \in 1..Days : mails[d] <= 1 \/ d \in excused
=============================================================================
