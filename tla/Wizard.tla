-------------------------------- MODULE Wizard --------------------------------
(***************************************************************************)
(* One session of the bot creation wizard (app/routes/wizard.py, its       *)
(* repository and services/coach/wizard.py): the creator answers the       *)
(* questions, the last answer has a draft written, a commit makes a bot of *)
(* it.  Calls of several devices interleave, the model takes its time.     *)
(***************************************************************************)
EXTENDS Integers, FiniteSets

CONSTANTS
    Calls,      \* handler calls, numbered in the order they arrive: a bound
    Questions,  \* keys of the questions start_wizard asked, the model's or the fixed ones
    Names,      \* names the model may give the bot
    Taken       \* those that another bot has

\* What the constants must satisfy.
WizardAssumption ==
    /\ Calls \subseteq Nat \ {0} /\ IsFiniteSet(Calls)
    /\ Questions # {} /\ Taken \subseteq Names

VARIABLES
    answers,    \* wizard_sessions.answers: per key, the call that gave it
    draft,      \* its draft_* columns: the answers it was written from and the name
    committed,  \* committed_bot_id
    bots,       \* the rows of ai_influencers this session made
    call,       \* per call: its step and the session as it read it
    revised,    \* history: an answer was given again when there were all
    redrafted   \* history: a draft was replaced

wizardVars == <<answers, draft, committed, bots, call, revised, redrafted>>

None == 0
NoDraft == [from |-> << >>, name |-> "none"]
Answers == UNION {[keys -> Calls] : keys \in SUBSET Questions}
Draft == [from: Answers, name: Names \cup {"none"}]
Idle == [pc |-> "idle", key |-> "none", answers |-> << >>, draft |-> NoDraft]

TypeOK ==
    /\ answers \in Answers /\ draft \in Draft /\ committed \in Calls \cup {None}
    /\ bots \subseteq [id: Calls, draft: Draft]
    /\ call \in [Calls -> [pc: {"idle", "record", "think", "create", "mark", "done"},
                           key: Questions \cup {"none"}, answers: Answers, draft: Draft]]
    /\ revised \in BOOLEAN /\ redrafted \in BOOLEAN

Init ==
    /\ answers = << >> /\ draft = NoDraft /\ committed = None /\ bots = {}
    /\ call = [c \in Calls |-> Idle] /\ revised = FALSE /\ redrafted = FALSE

session == <<answers, draft, committed>>
Arrives(c) == call[c].pc = "idle" /\ \A d \in Calls : d < c => call[d].pc # "idle"
Goto(c, pc) == call' = [call EXCEPT ![c].pc = pc]
Complete(given) == DOMAIN given = Questions

\* _load_owned_session, then 409 for a committed session.
Answer(c, key) ==
    /\ Arrives(c)
    /\ call' = [call EXCEPT ![c] = [Idle EXCEPT
           !.pc = IF committed = None THEN "record" ELSE "done", !.key = key]]
    /\ UNCHANGED <<session, bots, revised, redrafted>>

\* record_answer merges and returns the row; with nothing remaining and no draft in
\* that row, the draft is next.
NeedsDraft(given) == Complete(given) /\ draft = NoDraft
Record(c) ==
    LET given == [k \in DOMAIN answers \cup {call[c].key} |->
                     IF k = call[c].key THEN c ELSE answers[k]] IN
    /\ call[c].pc = "record"
    /\ answers' = given
    /\ call' = [call EXCEPT ![c] = [@ EXCEPT !.answers = given,
           !.pc = IF NeedsDraft(given) THEN "think" ELSE "done"]]
    /\ revised' = (revised \/ Complete(answers))
    /\ UNCHANGED <<draft, committed, bots, redrafted>>

\* generate_draft from the row that was returned, and save_draft, which replaces
\* whatever draft there is; no usable answer leaves the session without one.
SaveDraft(c) ==
    /\ call[c].pc = "think" /\ Goto(c, "done")
    /\ \/ /\ \E name \in Names : draft' = [from |-> call[c].answers, name |-> name]
          /\ redrafted' = (redrafted \/ draft # NoDraft)
       \/ UNCHANGED <<draft, redrafted>>
    /\ UNCHANGED <<answers, committed, bots, revised>>

\* commit_session: 409 when committed or without a draft.
Commit(c) ==
    /\ Arrives(c)
    /\ call' = [call EXCEPT ![c] = [Idle EXCEPT
           !.pc = IF committed = None /\ draft # NoDraft THEN "create" ELSE "done",
           !.draft = draft]]
    /\ UNCHANGED <<session, bots, revised, redrafted>>

\* influencer_repo.create under a random id: a name in use fails the unique index.
NameIsFreeOfOthers(name) == name \notin Taken
NameIsFree(name) == name \notin Taken /\ \A b \in bots : b.draft.name # name
Create(c) ==
    /\ call[c].pc = "create"
    /\ IF NameIsFree(call[c].draft.name)
       THEN bots' = bots \cup {[id |-> c, draft |-> call[c].draft]} /\ Goto(c, "mark")
       ELSE UNCHANGED bots /\ Goto(c, "done")
    /\ UNCHANGED <<session, revised, redrafted>>

\* mark_committed, unless the process or the database fails in between.
Mark(c) ==
    /\ call[c].pc = "mark" /\ Goto(c, "done")
    /\ committed' \in {c, committed}
    /\ UNCHANGED <<answers, draft, bots, revised, redrafted>>

Next ==
    \E c \in Calls :
        \/ \E key \in Questions : Answer(c, key)
        \/ Record(c) \/ SaveDraft(c) \/ Commit(c) \/ Create(c) \/ Mark(c)
Spec == Init /\ [][Next]_wizardVars

-----------------------------------------------------------------------------
\* A session makes one bot, however often it is committed, at once or again after a
\* crash: nothing but the name keeps the second one out, so that two drafts, written for
\* two answers given at once, can make two.
OneBot == Cardinality(bots) <= 1 \/ redrafted

\* A bot is made from all the answers, and from the latest of each unless one was given
\* again after the last one was in (no later answer has the draft rewritten).
AnswersReachTheBot ==
    /\ \A b \in bots : Complete(b.draft.from)
    /\ draft # NoDraft => draft.from = answers \/ revised

\* routes/wizard.py:10 a bot that the session names was made by it.
CommittedExists == committed # None => \E b \in bots : b.id = committed

WizardIsSound == OneBot /\ AnswersReachTheBot /\ CommittedExists
=============================================================================
