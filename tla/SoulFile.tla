------------------------------ MODULE SoulFile ------------------------------
(***************************************************************************)
(* What a bot is told to be, and everybody who edits it: the Soul File     *)
(* coach (routes/creator_coach.py, repositories/coach_repo.py), the Soul   *)
(* File page (routes/soul_file.py), the prompt editor                      *)
(* (routes/influencers.py) and the A/B variants (routes/creator.py).  The  *)
(* handlers run interleaved in eight processes, each several SQL           *)
(* statements long, and may die between any two.                           *)
(*                                                                         *)
(* A text is identified with the call that authored it.  A transaction of  *)
(* several statements is two steps: what its first statement finds, and    *)
(* its commit; a row found pending is changed at the commit only if it is  *)
(* pending still, as READ COMMITTED checks it again under the row lock.    *)
(***************************************************************************)
EXTENDS Integers, FiniteSets

CONSTANTS
    Calls,     \* handler calls, numbered in the order they arrive: a bound
    Offered,   \* the calls among them that are over, each a turn that left a card
    Sessions,  \* coach conversations of one creator about one bot
    Sections   \* ids a section of the Soul File can have

Original == 0   \* the text the bot was created with
Gone == -1      \* no such section, no variant B, no content hash
Lanes == {"text", "override"} \cup Sections

SoulFileAssumption ==
    /\ Calls \subseteq Nat \ {0} /\ Offered \subseteq Calls
    /\ Sections \cap {"text", "override"} = {}

VARIABLES
    text,      \* ai_influencers.system_instructions
    body,      \* system_instructions_sections: section -> text
    rules,     \* global_rule_overrides, by the proposal that set each
    variantB,  \* soul_file_variants
    prop,      \* proposals among coach_messages, by the turn that made them
    audited,   \* new_instructions of system_instructions_history
    pc,        \* per call: its next statement
    arg,       \* per call: the session, proposal or section it is about
    view,      \* per call: what it, or its client, has read of the bot
    found,     \* per call: rows its open transaction found pending
    written,   \* history: proposals whose change reached the bot's row
    manual     \* history: texts written by the editors that keep no history

vars == <<text, body, rules, variantB, prop, audited, pc, arg, view, found, written, manual>>
botVars == <<text, body, rules, variantB>>
histVars == <<audited, written, manual>>

Texts == Calls \cup {Original, Gone}
NoView == [text |-> Original, body |-> [s \in Sections |-> Gone], b |-> Gone]
NoProp == [status |-> "none", session |-> Gone, lane |-> "text", claimed |-> Gone]
Statuses == {"none", "draft", "pending", "applied", "discarded", "superseded"}
Steps == {"idle", "reply", "supersede", "insert", "inspect", "record", "write", "settle",
          "commit", "discard", "put", "put_write", "read_b", "record_b", "write_b", "drop_b", "done"}

TypeOK ==
    /\ text \in Texts \ {Gone} /\ body \in [Sections -> Texts] /\ variantB \in Texts
    /\ rules \subseteq Calls /\ audited \subseteq Calls
    /\ written \subseteq Calls /\ manual \subseteq Calls
    /\ prop \in [Calls -> [status: Statuses, session: Sessions \cup {Gone},
                           lane: Lanes, claimed: Texts]]
    /\ pc \in [Calls -> Steps]
    /\ arg \in [Calls -> Calls \cup Sessions \cup {Gone}]
    /\ view \in [Calls -> [text: Texts, body: [Sections -> Texts], b: Texts]]
    /\ found \in [Calls -> SUBSET Calls]

\* What the coach can propose: a change of a section it names, with or without the
\* hash of what it read, or of anything else.
Cards(session, sections) ==
    {card \in [status: {"draft"}, session: {session}, lane: Lanes, claimed: Texts] :
        IF card.lane \in Sections
        THEN sections[card.lane] # Gone /\ card.claimed \in {Gone, sections[card.lane]}
        ELSE card.claimed = Gone}

\* A bot may have sections from the start, or only its flat text.
Init ==
    /\ text = Original /\ rules = {} /\ variantB = Gone
    /\ body \in {[s \in Sections |-> t]: t \in {Original, Gone}}
    /\ \E s \in Sessions: \E card \in Cards(s, body):
        prop = [c \in Calls |-> IF c \in Offered THEN [card EXCEPT !.status = "pending"] ELSE NoProp]
    /\ audited = {}
    /\ pc = [c \in Calls |-> IF c \in Offered THEN "done" ELSE "idle"]
    /\ arg = [c \in Calls |-> Gone]
    /\ view = [c \in Calls |-> NoView] /\ found = [c \in Calls |-> {}]
    /\ written = {} /\ manual = {}

Arrives(c) == pc[c] = "idle" /\ \A d \in Calls: d < c => pc[d] # "idle"
Goto(c, step) == pc' = [pc EXCEPT ![c] = step]
About(c, x) == arg' = [arg EXCEPT ![c] = x]
ReadBot(c) == view' = [view EXCEPT ![c] = [text |-> text, body |-> body, b |-> Gone]]

\* The call returns, with a result or an error; what it knew is forgotten.
Return(c) ==
    /\ Goto(c, "done") /\ About(c, Gone)
    /\ view' = [view EXCEPT ![c] = NoView] /\ found' = [found EXCEPT ![c] = {}]

Pending(s) == {p \in Calls: prop[p].status = "pending" /\ prop[p].session = s}
Shown == {p \in Calls: prop[p].status \notin {"none", "draft"}}

-----------------------------------------------------------------------------
(* A turn with the coach: send_coach_message and add_message *)

\* The creator's message; the coach is shown the bot as it is now.
Ask(c, s) ==
    /\ Arrives(c)
    /\ About(c, s) /\ ReadBot(c) /\ Goto(c, "reply")
    /\ UNCHANGED <<botVars, prop, found, histVars>>

Propose(c) ==
    /\ pc[c] = "reply"
    /\ \E card \in Cards(arg[c], view[c].body): prop' = [prop EXCEPT ![c] = card]
    /\ Goto(c, "supersede")
    /\ UNCHANGED <<botVars, arg, view, found, histVars>>

\* It only talks, or an action verb of the creator needed no answer.
Talk(c) == pc[c] = "reply" /\ Return(c) /\ UNCHANGED <<botVars, prop, histVars>>

\* First statement: every older pending proposal of the session.
Supersede(c) ==
    /\ pc[c] = "supersede"
    /\ found' = [found EXCEPT ![c] = Pending(arg[c])]
    /\ Goto(c, "insert")
    /\ UNCHANGED <<botVars, prop, arg, view, histVars>>

\* Those found pending, and pending still, are superseded.
StillPending(c, p) == p \in found[c] /\ prop[p].status = "pending"
Settled(c, p, status) ==
    [q \in Calls |->
        IF q = p THEN [prop[q] EXCEPT !.status = status]
        ELSE IF StillPending(c, q) THEN [prop[q] EXCEPT !.status = "superseded"]
        ELSE prop[q]]

\* Second statement, and the commit.
InsertProposal(c) ==
    /\ pc[c] = "insert"
    /\ prop' = Settled(c, c, "pending")
    /\ Return(c)
    /\ UNCHANGED <<botVars, histVars>>

-----------------------------------------------------------------------------
(* apply_coach_proposal *)

\* The creator taps Save on a card; the handler reads the proposal, 409 unless
\* it is pending.
Tap(c, p) ==
    /\ Arrives(c) /\ p \in Shown
    /\ IF prop[p].status = "pending" THEN Goto(c, "inspect") /\ About(c, p)
       ELSE Goto(c, "done") /\ UNCHANGED arg
    /\ UNCHANGED <<botVars, prop, view, found, histVars>>

\* 409: the text is what the bot has; the section is gone, or not what the
\* coach read.
Refused(p) ==
    LET lane == prop[p].lane IN
    \/ lane = "text" /\ text = p
    \/ lane \in Sections /\ (body[lane] = Gone \/ prop[p].claimed \notin {Gone, body[lane]})

InspectUnrecorded(c) ==
    /\ pc[c] = "inspect"
    /\ IF Refused(arg[c]) THEN Return(c)
       ELSE ReadBot(c) /\ Goto(c, "write") /\ UNCHANGED <<arg, found>>
    /\ UNCHANGED <<botVars, prop, histVars>>
\* The bot is read; an override is written at once, the rest recorded first.
Inspect(c) ==
    /\ pc[c] = "inspect"
    /\ IF Refused(arg[c]) THEN Return(c)
       ELSE /\ ReadBot(c)
            /\ Goto(c, IF prop[arg[c]].lane = "override" THEN "write" ELSE "record")
            /\ UNCHANGED <<arg, found>>
    /\ UNCHANGED <<botVars, prop, histVars>>

\* record_application
Record(c) ==
    /\ pc[c] = "record"
    /\ audited' = audited \cup {arg[c]}
    /\ Goto(c, IF prop[arg[c]].lane = "override" THEN "settle" ELSE "write")
    /\ UNCHANGED <<botVars, prop, arg, view, found, written, manual>>

\* The UPDATE of the bot: the whole text, the whole array of sections as it was
\* read with one replaced, or one key merged into the overrides.
Write(c) ==
    /\ pc[c] = "write"
    /\ LET p == arg[c] lane == prop[p].lane IN
        /\ text' = IF lane = "text" THEN p ELSE text
        /\ body' = IF lane \in Sections THEN [view[c].body EXCEPT ![lane] = p] ELSE body
        /\ rules' = IF lane = "override" THEN rules \cup {p} ELSE rules
        /\ written' = written \cup {p}
        /\ Goto(c, IF lane = "override" THEN "record" ELSE "settle")
    /\ UNCHANGED <<variantB, prop, audited, arg, view, found, manual>>

\* supersede_and_apply: the other pending proposals of the session ...
Settle(c) ==
    /\ pc[c] = "settle"
    /\ found' = [found EXCEPT ![c] = Pending(prop[arg[c]].session) \ {arg[c]}]
    /\ Goto(c, "commit")
    /\ UNCHANGED <<botVars, prop, arg, view, histVars>>

\* ... and this one, whatever has become of it.
Commit(c) ==
    /\ pc[c] = "commit"
    /\ prop' = Settled(c, arg[c], "applied")
    /\ Return(c)
    /\ UNCHANGED <<botVars, histVars>>

-----------------------------------------------------------------------------
(* discard_coach_proposal *)

\* 409 unless pending, or discarded already.
TapDiscard(c, p) ==
    /\ Arrives(c) /\ p \in Shown
    /\ IF prop[p].status \in {"pending", "discarded"} THEN Goto(c, "discard") /\ About(c, p)
       ELSE Goto(c, "done") /\ UNCHANGED arg
    /\ UNCHANGED <<botVars, prop, view, found, histVars>>

DiscardAny(c) ==
    /\ pc[c] = "discard"
    /\ prop' = [prop EXCEPT ![arg[c]].status = "discarded"]
    /\ Return(c)
    /\ UNCHANGED <<botVars, histVars>>
\* mark_discarded, if the proposal is pending still.
Discard(c) ==
    /\ pc[c] = "discard"
    /\ prop' = IF prop[arg[c]].status = "pending"
               THEN [prop EXCEPT ![arg[c]].status = "discarded"] ELSE prop
    /\ Return(c)
    /\ UNCHANGED <<botVars, histVars>>

-----------------------------------------------------------------------------
(* The other editors *)

\* get_soul_file: what the page shows is what its hash stands for; a bot
\* without sections shows its flat text.
Page(v) == IF \A s \in Sections: v.body[s] = Gone THEN <<"flat", v.text>> ELSE <<"sections", v.body>>

Open(c) ==
    /\ Arrives(c)
    /\ ReadBot(c) /\ Goto(c, "put")
    /\ UNCHANGED <<botVars, prop, arg, found, histVars>>

\* put_soul_file: 409 when the hash is no longer that of the bot's row.
PutCheck(c) ==
    /\ pc[c] = "put"
    /\ IF Page(view[c]) = Page([text |-> text, body |-> body])
       THEN Goto(c, "put_write") /\ UNCHANGED <<arg, view, found>>
       ELSE Return(c)
    /\ UNCHANGED <<botVars, prop, histVars>>

\* The page as the client edited it: one section rewritten or removed.
PutWrite(c) ==
    /\ pc[c] = "put_write"
    /\ \E s \in Sections, t \in {c, Gone}: body' = [view[c].body EXCEPT ![s] = t]
    /\ manual' = manual \cup {c}
    /\ Return(c)
    /\ UNCHANGED <<text, rules, variantB, prop, audited, written>>

\* update_system_prompt: one unconditional UPDATE.
Patch(c) ==
    /\ Arrives(c)
    /\ text' = c /\ manual' = manual \cup {c} /\ Goto(c, "done")
    /\ UNCHANGED <<body, rules, variantB, prop, audited, arg, view, found, written>>

\* set_variant_b: insert or replace.
StageB(c) ==
    /\ Arrives(c)
    /\ variantB' = c /\ Goto(c, "done")
    /\ UNCHANGED <<text, body, rules, prop, audited, arg, view, found, written, manual>>

\* promote_variant reads the bot, then variant B, 409 when none is staged.
Promote(c) ==
    /\ Arrives(c) /\ ReadBot(c) /\ Goto(c, "read_b")
    /\ UNCHANGED <<botVars, prop, arg, found, histVars>>

\* A is promoted by dropping B; so is a B that equals the bot's text.
ReadB(c) ==
    /\ pc[c] = "read_b"
    /\ IF variantB = Gone THEN Return(c)
       ELSE /\ view' = [view EXCEPT ![c].b = variantB]
            /\ \/ Goto(c, "drop_b")
               \/ view[c].text # variantB /\ Goto(c, "record_b")
            /\ UNCHANGED <<arg, found>>
    /\ UNCHANGED <<botVars, prop, histVars>>

RecordB(c) ==
    /\ pc[c] = "record_b"
    /\ audited' = audited \cup {view[c].b} /\ Goto(c, "write_b")
    /\ UNCHANGED <<botVars, prop, arg, view, found, written, manual>>

WriteB(c) ==
    /\ pc[c] = "write_b"
    /\ text' = view[c].b /\ Goto(c, "drop_b")
    /\ UNCHANGED <<body, rules, variantB, prop, arg, view, found, histVars>>

\* delete_variant_b: whatever is staged by now.
DropB(c) ==
    /\ pc[c] = "drop_b"
    /\ variantB' = Gone /\ Return(c)
    /\ UNCHANGED <<text, body, rules, prop, histVars>>

-----------------------------------------------------------------------------
\* A statement fails or the process dies; an open transaction is rolled back.
Stop(c) ==
    /\ pc[c] \notin {"idle", "done"}
    /\ prop' = IF prop[c].status = "draft" THEN [prop EXCEPT ![c] = NoProp] ELSE prop
    /\ Return(c)
    /\ UNCHANGED <<botVars, histVars>>

Coach(c) ==
    \/ \E s \in Sessions: Ask(c, s)
    \/ Propose(c) \/ Talk(c) \/ Supersede(c) \/ InsertProposal(c)
    \/ \E p \in Calls: Tap(c, p) \/ TapDiscard(c, p)
    \/ Inspect(c) \/ Record(c) \/ Write(c) \/ Settle(c) \/ Commit(c) \/ Discard(c)
Editors(c) ==
    \/ Open(c) \/ PutCheck(c) \/ PutWrite(c) \/ Patch(c) \/ StageB(c)
    \/ Promote(c) \/ ReadB(c) \/ RecordB(c) \/ WriteB(c) \/ DropB(c)
Next == \E c \in Calls: Coach(c) \/ Editors(c) \/ Stop(c)

Spec == Init /\ [][Next]_vars

-----------------------------------------------------------------------------
\* creator_coach.py:752 "write history first, then update bot": whoever dies
\* where, whatever text or section a bot has came with it, from an editor that
\* keeps no history, or is in the history.
LiveIsAudited ==
    /\ text \in audited \cup manual \cup {Original}
    /\ \A s \in Sections: body[s] \in audited \cup manual \cup {Original, Gone}

\* A card says "applied" only when its change has reached the bot's row and the
\* history; a handler that died halfway never left such a card.
AppliedIsReal ==
    \A p \in Calls: prop[p].status = "applied" => p \in audited /\ p \in written

\* The history and the cards tell the truth about the bot.
ChangesAreAudited == LiveIsAudited /\ AppliedIsReal

\* An applied card stays applied: a discard that read it pending, a newer
\* proposal and another apply that found it pending all come too late.
AppliedStays ==
    [][\A p \in Calls: prop[p].status = "applied" => prop'[p].status = "applied"]_vars

\* coach_repo.py:126 "every OLDER pending proposal in the same session must flip
\* to 'superseded'", which closed "a window where TWO pending proposals could
\* co-exist": no session offers two.
OneOffer == \A s \in Sessions: Cardinality(Pending(s)) <= 1
=============================================================================
