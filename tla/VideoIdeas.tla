----------------------------- MODULE VideoIdeas -----------------------------
(***************************************************************************)
(* The video ideas of one bot: the nightly pass of every process           *)
(* (video_ideas.py), the creator's first look, which generates on demand   *)
(* (routes/influencers.py), and the repository both write through.         *)
(***************************************************************************)
EXTENDS Integers, FiniteSets

CONSTANTS
    Writers,  \* passes and first looks: a bound
    Batch,    \* IDEAS_PER_BATCH
    Days      \* bound: the model's last day

\* What the constants must satisfy.
IdeasAssumption == Batch \in Nat \ {0} /\ Days \in Nat \ {0}

VARIABLES
    ideas,    \* video_ideas: the rows of this bot
    writer,   \* per writer: its step, batch_date, ideas left to insert
    today,    \* date.today()
    mixed     \* history: dates two writers generated for at once

ideaVars == <<ideas, writer, today, mixed>>

\* by: the answer the row comes from; at: created_at; used: when it was used, 0 if fresh.
Idea == [date: 1..Days, rank: 1..Batch, by: Writers, at: Nat, used: Nat]
Fresh == [pc |-> "new", date |-> 0, next |-> 1, size |-> 0]

TypeOK ==
    /\ ideas \subseteq Idea
    /\ writer \in [Writers -> [pc: {"new", "ask", "think", "insert", "done"}, date: 0..Days,
                               next: 1..Batch + 1, size: 0..Batch]]
    /\ today \in 1..Days /\ mixed \subseteq 1..Days

Init == ideas = {} /\ writer = [w \in Writers |-> Fresh] /\ today = 1 /\ mixed = {}

NewDay == today < Days /\ today' = today + 1 /\ UNCHANGED <<ideas, writer, mixed>>

Of(date) == {i \in ideas : i.date = date}
Goto(w, pc) == writer' = [writer EXCEPT ![w].pc = pc]

\* generate_all_once skips a bot with a batch of today; list_video_ideas generates
\* only for a bot that never had one.
Consider(w) ==
    /\ writer[w].pc = "new"
    /\ Goto(w, IF Of(today) = {} THEN "ask" ELSE "done")
    /\ UNCHANGED <<ideas, today, mixed>>
FirstLook(w) ==
    /\ writer[w].pc = "new"
    /\ Goto(w, IF ideas = {} THEN "ask" ELSE "done")
    /\ UNCHANGED <<ideas, today, mixed>>

\* generate_for_one_bot: the date is taken before the call.
Ask(w) ==
    /\ writer[w].pc = "ask"
    /\ writer' = [writer EXCEPT ![w] = [@ EXCEPT !.pc = "think", !.date = today]]
    /\ mixed' = mixed \cup
           {d \in {today} : \/ Of(d) # {}
                            \/ \E v \in Writers : writer[v].pc \in {"think", "insert"} /\ writer[v].date = d}
    /\ UNCHANGED <<ideas, today>>

\* How many ideas of the answer can be parsed, cut to Batch; none ends the run.
Usable == 0..Batch
Answer(w) ==
    /\ writer[w].pc = "think"
    /\ \E n \in Usable :
          writer' = [writer EXCEPT ![w] =
              [@ EXCEPT !.pc = IF n = 0 THEN "done" ELSE "insert", !.size = n]]
    /\ UNCHANGED <<ideas, today, mixed>>

ClashesNever(date, rank) == FALSE
Clashes(date, rank) == \E i \in Of(date) : i.rank = rank

\* insert_batch: one INSERT per rank, ON CONFLICT DO NOTHING, no transaction around
\* them; an error leaves the ones before it.
Insert(w) ==
    LET me == writer[w]
        row == [date |-> me.date, rank |-> me.next, by |-> w,
                at |-> Cardinality(ideas) + 1, used |-> 0]
    IN /\ me.pc = "insert"
       /\ \/ /\ ideas' = ideas \cup
                     IF Clashes(me.date, me.next) THEN {} ELSE {row}
             /\ writer' = [writer EXCEPT ![w] = [@ EXCEPT !.next = me.next + 1,
                    !.pc = IF me.next = me.size THEN "done" ELSE "insert"]]
          \/ Goto(w, "done") /\ UNCHANGED ideas
       /\ UNCHANGED <<today, mixed>>

\* mark_used: only a fresh row is stamped.
MarkUsed(i) ==
    /\ ideas' = IF i.used = 0 THEN (ideas \ {i}) \cup {[i EXCEPT !.used = today]} ELSE ideas
    /\ UNCHANGED <<writer, today, mixed>>

Next ==
    \/ NewDay
    \/ \E w \in Writers : Consider(w) \/ FirstLook(w) \/ Ask(w) \/ Answer(w) \/ Insert(w)
    \/ \E i \in ideas : MarkUsed(i)
Spec == Init /\ [][Next]_ideaVars

-----------------------------------------------------------------------------
\* latest_batch_for_bot: the rows of the date the newest row has.
Shown ==
    {i \in ideas : \E n \in ideas : n.date = i.date /\ \A j \in ideas : j.at <= n.at}

\* What the creator sees is one batch: no rank twice, and the ideas of a single answer
\* unless two writers generated for that date (generate_all_once asks bot_has_batch
\* first, the first look asks for any batch, and neither holds anything meanwhile).
BatchIsOne ==
    /\ \A i, j \in Shown : i.rank = j.rank => i = j
    /\ \A i, j \in Shown : i.by = j.by \/ i.date \in mixed

\* An idea that was used keeps its place and its used_at (video_idea_repo.mark_used).
UsedStaysUsed ==
    [][\A i \in ideas : i.used # 0 => i \in ideas']_ideaVars
=============================================================================
