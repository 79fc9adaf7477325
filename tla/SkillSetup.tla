------------------------------ MODULE SkillSetup ------------------------------
(***************************************************************************)
(* The user_skill_state row of one user and one skilled bot: the first     *)
(* turn that onboards the user (_prepare_skill_layer and                   *)
(* _persist_parsed_skill_state of routes/chat.py), the preferences and the *)
(* pause of routes/skills.py, over skill_state_repo.  When its check-ins   *)
(* are due is module Engagement's.                                         *)
(***************************************************************************)
EXTENDS Integers, FiniteSets

CONSTANTS
    Calls,   \* handler calls, numbered in the order they arrive: a bound
    Fields,  \* keys of state.setup
    Required \* the keys the skill cannot do without

\* What the constants must satisfy.
SkillAssumption ==
    Calls \subseteq Nat \ {0} /\ IsFiniteSet(Calls) /\ Required \subseteq Fields

VARIABLES
    row,      \* user_skill_state: its status, and per key of setup the call that wrote it
    call,     \* per call: its step, the row it read, what it asks for
    version,  \* writes to the row so far
    read,     \* history: per call, the version it read
    written   \* history: the versions that paused the skill and that wrote each key

skillVars == <<row, call, version, read, written>>

Nobody == 0
NoRow == [status |-> "none", setup |-> [f \in Fields |-> Nobody]]
Statuses == {"active", "paused", "done", "onboarding_partial"}
Row == [status: Statuses \cup {"none"}, setup: [Fields -> Calls \cup {Nobody}]]
Quiet == [pc |-> "idle", row |-> NoRow, fields |-> {}, status |-> "none"]

TypeOK ==
    /\ row \in Row /\ version \in Nat /\ read \in [Calls -> 0..version]
    /\ call \in [Calls -> [pc: {"idle", "think", "status", "merge", "put", "done"}, row: Row,
                           fields: SUBSET Fields, status: Statuses \cup {"none"}]]
    /\ written \in [pause: 0..version, setup: [Fields -> 0..version]]

Init ==
    /\ row = NoRow /\ version = 0
    /\ call = [c \in Calls |-> Quiet] /\ read = [c \in Calls |-> 0]
    /\ written = [pause |-> 0, setup |-> [f \in Fields |-> 0]]

Exists == row.status # "none"
Arrives(c) == call[c].pc = "idle" /\ \A d \in Calls : d < c => call[d].pc # "idle"
Ends(c) == call' = [call EXCEPT ![c] = [Quiet EXCEPT !.pc = "done"]]

\* The handler takes a look at the row and keeps it.
Looks(c, pc, fields, status) ==
    /\ Arrives(c)
    /\ call' = [call EXCEPT ![c] = [pc |-> pc, row |-> row, fields |-> fields, status |-> status]]
    /\ read' = [read EXCEPT ![c] = version]
    /\ UNCHANGED <<row, version, written>>

\* One UPDATE or upsert of the row.
Write(status, setup) ==
    /\ row' = [status |-> status, setup |-> setup]
    /\ version' = version + 1
    /\ written' = [pause |-> IF status = "paused" THEN version' ELSE written.pause,
                   setup |-> [f \in Fields |->
                       IF setup[f] # row.setup[f] THEN version' ELSE written.setup[f]]]
    /\ UNCHANGED read

-----------------------------------------------------------------------------
(* A chat turn *)

\* _prepare_skill_layer: no row yet means that this turn asks for the setup.
Prepare(c) ==
    /\ Looks(c, IF Exists THEN "done" ELSE "think", {}, "none")

\* The reply carries no usable <skill_state> block, or a setup with some of the keys;
\* a setup without a required one is onboarding_partial.  The upsert replaces setup,
\* unless the block has no setup half.
Persist(c) ==
    /\ call[c].pc = "think"
    /\ \/ UNCHANGED <<row, version, written, read>>
       \/ \E fields \in SUBSET Fields :
            Write(IF Required \subseteq fields THEN "active" ELSE "onboarding_partial",
                  [f \in Fields |-> IF f \in fields THEN c ELSE Nobody])
       \/ Write(IF Required = {} THEN "active" ELSE "onboarding_partial", row.setup)
    /\ Ends(c)

-----------------------------------------------------------------------------
(* PATCH /preferences *)

\* The row is read first: 404 without one.
AskEdit(c, fields, status) ==
    /\ Exists
    /\ Looks(c, IF status # "none" THEN "status" ELSE IF fields # {} THEN "merge" ELSE "done",
             fields, status)

\* skill_state_repo.pause and resume.
SetStatus(c) ==
    /\ call[c].pc = "status"
    /\ Write(call[c].status, row.setup)
    /\ IF call[c].fields = {} THEN Ends(c) ELSE call' = [call EXCEPT ![c].pc = "merge"]

\* The upsert of the setup that was read, the new preferences merged into it, and of the
\* status asked for or, without one, the status that was read.
StatusAfterActive(c) == IF call[c].status # "none" THEN call[c].status ELSE "active"
StatusAfter(c) == IF call[c].status # "none" THEN call[c].status ELSE call[c].row.status
Merge(c) ==
    /\ call[c].pc = "merge"
    /\ Write(StatusAfter(c),
             [f \in Fields |-> IF f \in call[c].fields THEN c ELSE call[c].row.setup[f]])
    /\ Ends(c)

-----------------------------------------------------------------------------
\* POST /state: one upsert, of a whole setup or of none, and of any status.
AskPut(c, fields, status) ==
    /\ Arrives(c)
    /\ call' = [call EXCEPT ![c] = [pc |-> "put", row |-> NoRow, fields |-> fields, status |-> status]]
    /\ UNCHANGED <<row, version, read, written>>
Put(c) ==
    /\ call[c].pc = "put" /\ Ends(c)
    /\ \/ Write(call[c].status, row.setup)
       \/ Write(call[c].status, [f \in Fields |-> IF f \in call[c].fields THEN c ELSE Nobody])

Next ==
    \E c \in Calls :
        \/ Prepare(c) \/ Persist(c) \/ SetStatus(c) \/ Merge(c) \/ Put(c)
        \/ \E fields \in SUBSET Fields, status \in Statuses : AskPut(c, fields, status)
        \/ \E fields \in SUBSET Fields, status \in {"none", "active", "paused"} :
               AskEdit(c, fields, status)
Spec == Init /\ [][Next]_skillVars

-----------------------------------------------------------------------------
\* The call a step belongs to.
Acts(c) == call'[c] # call[c] /\ call[c].pc # "idle"

\* A pause stays until the user resumes: a step that ends it either is asked to, or
\* belongs to a call that read the row before it was paused (skills.py:120).
PauseStays ==
    [][row.status = "paused" /\ row'.status # "paused" =>
        \E c \in Calls : Acts(c) /\ (call[c].status \notin {"none", "paused"} \/ read[c] < written.pause)]_skillVars

\* "Merge into setup half": a preference is replaced by an edit of the same key, by a
\* setup that is written whole, or by a call that read the row before it was written.
PreferencesStay ==
    [][\A f \in Fields : row'.setup[f] # row.setup[f] =>
        \E c \in Calls :
            /\ Acts(c)
            /\ \/ f \in call[c].fields \/ call[c].pc = "put"
                \/ read[c] < written.setup[f] \/ row.setup[f] = Nobody]_skillVars
=============================================================================
