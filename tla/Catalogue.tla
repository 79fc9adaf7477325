------------------------------ MODULE Catalogue ------------------------------
(***************************************************************************)
(* The life of an influencer and of its name (app/routes/influencers.py,   *)
(* repositories/influencer_repo.py, migration 055): the app settles on a   *)
(* free name, makes the bot's account, then creates the row; its creator   *)
(* deletes it, an admin bans it and brings it back.  Each handler reads    *)
(* the row first and writes it later.                                      *)
(***************************************************************************)
EXTENDS Integers, FiniteSets

CONSTANTS
    Calls,     \* handler calls, numbered in the order they arrive: a bound
    Names,     \* a slug, the slug with 2, with 3, ...: 1, 2, 3, ...
    Creators   \* callers; a bot's parent_principal_id

\* What the constants must satisfy.
CatalogueAssumption ==
    /\ Calls \subseteq Nat \ {0} /\ IsFiniteSet(Calls)
    /\ IsFiniteSet(Names) /\ Names = 1..Cardinality(Names)
    /\ Cardinality(Names) > Cardinality(Calls)

VARIABLES
    rows,    \* ai_influencers, by the call that made the row
    call,    \* per call: its step, who calls, the row or the name it is about
    banned,  \* history: bots banned while they had their name, and not brought back
    raced    \* history: calls whose name was taken after they settled on it

catalogueVars == <<rows, call, banned, raced>>

Nothing == 0
Idle == [pc |-> "idle", by |-> "none", bot |-> Nothing, name |-> Nothing]
Row == [name: Names, by: Creators, active: BOOLEAN, deleted: BOOLEAN]

TypeOK ==
    /\ DOMAIN rows \subseteq Calls /\ \A i \in DOMAIN rows : rows[i] \in Row
    /\ call \in [Calls -> [pc: {"idle", "settle", "check", "insert", "delete", "ban", "unban",
                                "taken", "done"},
                           by: Creators \cup {"none"}, bot: Calls \cup {Nothing},
                           name: Names \cup {Nothing}]]
    /\ banned \subseteq DOMAIN rows /\ raced \subseteq Calls

Init == rows = << >> /\ call = [c \in Calls |-> Idle] /\ banned = {} /\ raced = {}

Arrives(c) == call[c].pc = "idle" /\ \A d \in Calls : d < c => call[d].pc # "idle"
Goto(c, pc) == call' = [call EXCEPT ![c].pc = pc]

\* get_by_name, and the partial index of migration 055: deleted rows do not count.
HeldByActive(name) == \E i \in DOMAIN rows : rows[i].name = name /\ rows[i].active
Held(name) == \E i \in DOMAIN rows : rows[i].name = name /\ ~rows[i].deleted

-----------------------------------------------------------------------------
\* validate-and-generate-metadata, and the loop that tries meera, meera2, meera3, ...
Begin(c, by) ==
    /\ Arrives(c)
    /\ call' = [call EXCEPT ![c] = [Idle EXCEPT !.pc = "settle", !.by = by, !.name = 1]]
    /\ UNCHANGED <<rows, banned, raced>>
Settle(c) ==
    /\ call[c].pc = "settle"
    /\ IF Held(call[c].name) THEN call' = [call EXCEPT ![c].name = call[c].name + 1]
                             ELSE Goto(c, "check")
    /\ UNCHANGED <<rows, banned, raced>>

\* create_influencer: the check, the greeting, the insert that the index may refuse.
Check(c) ==
    /\ call[c].pc = "check" /\ Goto(c, IF Held(call[c].name) THEN "taken" ELSE "insert")
    /\ UNCHANGED <<rows, banned, raced>>

\* Calls that have settled on a name somebody else takes now.
Waiting(name) == {d \in Calls : call[d].pc \in {"check", "insert"} /\ call[d].name = name}
Insert(c) ==
    LET name == call[c].name IN
    /\ call[c].pc = "insert"
    /\ IF Held(name)
       THEN Goto(c, "taken") /\ UNCHANGED <<rows, raced>>
       ELSE /\ rows' = [i \in DOMAIN rows \cup {c} |->
                IF i = c THEN [name |-> name, by |-> call[c].by, active |-> TRUE,
                               deleted |-> FALSE]
                         ELSE rows[i]]
            /\ Goto(c, "done") /\ raced' = raced \cup (Waiting(name) \ {c})
    /\ UNCHANGED banned

\* delete_influencer: 403 for anyone but the creator, then soft_delete.
AskDelete(c, by, i) ==
    /\ Arrives(c)
    /\ call' = [call EXCEPT ![c] = [Idle EXCEPT !.by = by, !.bot = i,
           !.pc = IF rows[i].by = by THEN "delete" ELSE "done"]]
    /\ UNCHANGED <<rows, banned, raced>>
SoftDelete(c) ==
    /\ call[c].pc = "delete" /\ Goto(c, "done")
    /\ rows' = [rows EXCEPT ![call[c].bot].active = FALSE, ![call[c].bot].deleted = TRUE]
    /\ UNCHANGED <<banned, raced>>

\* admin_ban and admin_unban: by id, or by a name, which some row has.
AskAdmin(c, i, what) ==
    /\ Arrives(c) /\ what \in {"ban", "unban"}
    /\ call' = [call EXCEPT ![c] = [Idle EXCEPT !.pc = what, !.bot = i]]
    /\ UNCHANGED <<rows, banned, raced>>

\* ban keeps the name: deleted_at is not touched.
Banned(row) == [row EXCEPT !.active = FALSE]
Ban(c) ==
    LET i == call[c].bot IN
    /\ call[c].pc = "ban" /\ Goto(c, "done")
    /\ rows' = [rows EXCEPT ![i] = Banned(rows[i])]
    /\ banned' = IF rows[i].deleted THEN banned ELSE banned \cup {i}
    /\ UNCHANGED raced

\* unban clears deleted_at as well; the index refuses it a name held by another row.
Restored(row) == [row EXCEPT !.active = TRUE, !.deleted = FALSE]
Unban(c) ==
    LET i == call[c].bot
        name == rows[i].name
        comesBack == rows[i].deleted
    IN  /\ call[c].pc = "unban"
        /\ IF comesBack /\ Held(name)
           THEN Goto(c, "taken") /\ UNCHANGED <<rows, banned, raced>>
           ELSE /\ rows' = [rows EXCEPT ![i] = Restored(rows[i])]
                /\ Goto(c, "done") /\ banned' = banned \ {i}
                /\ raced' = IF comesBack THEN raced \cup Waiting(name) ELSE raced

Next ==
    \E c \in Calls :
        \/ \E by \in Creators :
            \/ Begin(c, by)
            \/ \E i \in DOMAIN rows : AskDelete(c, by, i)
        \/ \E i \in DOMAIN rows, what \in {"ban", "unban"} : AskAdmin(c, i, what)
        \/ Settle(c) \/ Check(c) \/ Insert(c) \/ SoftDelete(c) \/ Ban(c) \/ Unban(c)
Spec == Init /\ [][Next]_catalogueVars

-----------------------------------------------------------------------------
\* influencer_repo.unban "would put a live persona outside the partial unique index":
\* whatever was deleted, banned and brought back, no two active bots share a name, and
\* the name of a banned one ("a handle we removed for abuse must not be re-registerable")
\* is nobody else's until its creator deletes it as well.
NamesAreHeld ==
    \A i, j \in DOMAIN rows : i # j /\ rows[i].name = rows[j].name =>
        /\ ~(rows[i].active /\ rows[j].active)
        /\ i \in banned /\ ~rows[i].deleted => ~rows[j].active

\* _settle_unused_slug "/create keeps its 409 for the two-creates-racing case": a create
\* is refused only when its name was taken, or came back, after it had settled on it.
RefusalsAreRaces ==
    \A c \in Calls : call[c].pc = "taken" /\ call[c].bot = Nothing => c \in raced

CatalogueIsSound == NamesAreHeld /\ RefusalsAreRaces
=============================================================================
