-------------------------------- MODULE Labels --------------------------------
(***************************************************************************)
(* The gender and archetype of the bots                                    *)
(* (services/discovery/influencer_classification.py): in every process     *)
(* classification_loop lists the bots without labels, asks the model about *)
(* each in turn, seconds apart, and writes what it says; an admin writes   *)
(* labels of their own (routes/admin_classification.py).                   *)
(***************************************************************************)
EXTENDS Integers, Sequences

CONSTANTS
    Procs,      \* processes running the loop
    Bots,       \* active bots, newest first
    Overrides,  \* bound: overrides by the admin
    Sweeps      \* bound: sweeps

\* What the constants must satisfy.
LabelsAssumption ==
    /\ Overrides \in Nat /\ Sweeps \in Nat
    /\ Len(Bots) \in Nat /\ DOMAIN Bots = 1..Len(Bots)

VARIABLES
    label,   \* per bot and column: "unknown", or who wrote it
    sweep,   \* per process: the bots it has still to ask about, and what the model said
    late,    \* history: columns set by the admin while a sweep had their bot listed
    left     \* overrides and sweeps left

labelVars == <<label, sweep, late, left>>

Columns == {"gender", "archetype"}
Ids == {Bots[n] : n \in DOMAIN Bots}
Origins == {"unknown", "model", "admin"}
Said == [Columns -> {"unknown", "model"}]
NoAnswer == [k \in Columns |-> "unknown"]

TypeOK ==
    /\ label \in [Ids -> [Columns -> Origins]]
    /\ sweep \in [Procs -> [pc: {"asleep", "ask", "apply"}, todo: SUBSET Ids, said: Said]]
    /\ \A p \in Procs : sweep[p].pc = "apply" => sweep[p].todo # {}
    /\ late \subseteq Ids \X Columns
    /\ left \in [overrides: 0..Overrides, sweeps: 0..Sweeps]

Init ==
    /\ label = [b \in Ids |-> NoAnswer] /\ late = {}
    /\ sweep = [p \in Procs |-> [pc |-> "asleep", todo |-> {}, said |-> NoAnswer]]
    /\ left = [overrides |-> Overrides, sweeps |-> Sweeps]

\* _list_unclassified_bots: both columns unknown.
UnlabelledInPart(b) == \E k \in Columns : label[b][k] = NoAnswer[k]
Unlabelled(b) == label[b] = NoAnswer
List(p) ==
    /\ sweep[p].pc = "asleep" /\ left.sweeps > 0
    /\ left' = [left EXCEPT !.sweeps = left.sweeps - 1]
    /\ sweep' = [sweep EXCEPT ![p].pc = "ask", ![p].todo = {b \in Ids : Unlabelled(b)}]
    /\ UNCHANGED <<label, late>>

\* The rows come ORDER BY created_at DESC, and are taken in that order.
Newest(todo) ==
    Bots[CHOOSE n \in DOMAIN Bots : Bots[n] \in todo /\ \A m \in 1..n - 1 : Bots[m] \notin todo]
Rest(todo) == todo \ {Newest(todo)}

\* classify_one, _validate_classification: nothing said in both columns is a failure.
Ask(p) ==
    /\ sweep[p].pc = "ask" /\ sweep[p].todo # {}
    /\ \/ \E said \in Said \ {NoAnswer} :
            sweep' = [sweep EXCEPT ![p].pc = "apply", ![p].said = said]
       \/ sweep' = [sweep EXCEPT ![p].todo = Rest(@)]
    /\ UNCHANGED <<label, late, left>>

\* _apply_classification: both columns, whatever they are by now; or the UPDATE fails.
Apply(p) ==
    /\ sweep[p].pc = "apply"
    /\ \/ label' = [label EXCEPT ![Newest(sweep[p].todo)] = sweep[p].said]
       \/ UNCHANGED label
    /\ sweep' = [sweep EXCEPT ![p].pc = "ask", ![p].todo = Rest(@),
                              ![p].said = NoAnswer]
    /\ UNCHANGED <<late, left>>

Sleep(p) ==
    /\ sweep[p].pc = "ask" /\ sweep[p].todo = {}
    /\ sweep' = [sweep EXCEPT ![p].pc = "asleep"] /\ UNCHANGED <<label, late, left>>

\* apply_admin_override: the columns given, one at least; back to unknown is allowed.
Listed(b) == \E p \in Procs : b \in sweep[p].todo
Override(b, columns, value) ==
    LET cells == {b} \X columns IN
    /\ left.overrides > 0 /\ left' = [left EXCEPT !.overrides = left.overrides - 1]
    /\ label' = [label EXCEPT ![b] = [k \in Columns |->
           IF k \in columns THEN value ELSE label[b][k]]]
    /\ late' = IF Listed(b) THEN late \cup cells ELSE late \ cells
    /\ UNCHANGED sweep

Next ==
    \/ \E p \in Procs : List(p) \/ Ask(p) \/ Apply(p) \/ Sleep(p)
    \/ \E b \in Ids, columns \in SUBSET Columns \ {{}}, value \in {"admin", "unknown"} :
            Override(b, columns, value)
Spec == Init /\ [][Next]_labelVars

-----------------------------------------------------------------------------
\* influencer_classification.py:45 "Admin override wins": what the admin has set stays,
\* in one column or in both, unless a sweep had the bot on its list already.
OverrideStays ==
    [][\A b \in Ids, k \in Columns :
        label[b][k] = "admin" /\ label'[b][k] # "admin" =>
            left.overrides # left'.overrides \/ <<b, k>> \in late]_labelVars
=============================================================================
