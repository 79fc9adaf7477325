------------------------------- MODULE Memory -------------------------------
(***************************************************************************)
(* What the bots remember of one user: extract_and_store, which follows    *)
(* every reply in a task of its own (memory.py, memory_repo.py), the       *)
(* nightly consolidation that drops near-duplicates in eight processes     *)
(* (memory_consolidation.py), and the backfill script.                     *)
(*                                                                         *)
(* A row is keyed by (user, influencer or none, key); confidence is 1.0 in *)
(* every row, nothing writes another, so the newer of a pair survives.     *)
(***************************************************************************)
EXTENDS Integers, FiniteSets, Functions

CONSTANTS
    Slots,     \* (influencer_id, key) pairs of one user
    Values,    \* values a fact can have
    Near,      \* pairs of values closer than MERGE_DISTANCE_THRESHOLD
    Messages,  \* the user's messages: a bound
    MaxFacts,  \* bound: facts one exchange yields
    Passes     \* consolidation passes, of any process: a bound

\* What the constants must satisfy.
MemoryAssumption ==
    /\ Near \subseteq Values \X Values
    /\ \A v, w \in Values : <<v, v>> \in Near /\ (<<v, w>> \in Near => <<w, v>> \in Near)
    /\ Messages \subseteq Nat /\ IsFiniteSet(Messages) /\ IsFiniteSet(Passes)

VARIABLES
    facts,   \* user_memories: the rows by slot
    clock,   \* writes so far: NOW() of the next one
    task,    \* per message: its extraction's step and the facts still to store
    pass,    \* per pass: its step and to_delete
    stale    \* history: passes that saw a row change under them

memoryVars == <<facts, clock, task, pass, stale>>

\* id: the primary key, kept by an update and new after a delete; at: updated_at.
Fact == [value: Values, id: Nat, at: Nat, embedded: BOOLEAN]
Extracted == UNION {[part -> Values] : part \in {q \in SUBSET Slots : Cardinality(q) \in 1..MaxFacts}}

TypeOK ==
    /\ DOMAIN facts \subseteq Slots /\ \A s \in DOMAIN facts : facts[s] \in Fact
    /\ \A s, t \in DOMAIN facts : s # t => facts[s].id # facts[t].id /\ facts[s].at # facts[t].at
    /\ clock \in Nat
    /\ \A m \in Messages : task[m].pc \in {"idle", "store", "done"}
    /\ \A p \in Passes : pass[p].pc \in {"idle", "delete", "done"} /\ pass[p].losers \subseteq 0..clock
    /\ stale \subseteq Passes

Init ==
    /\ facts = << >> /\ clock = 0
    /\ task = [m \in Messages |-> [pc |-> "idle", left |-> << >>]]
    /\ pass = [p \in Passes |-> [pc |-> "idle", losers |-> {}]]
    /\ stale = {}

\* Passes between their SELECT and their DELETE.
Looking == {p \in Passes : pass[p].pc = "delete"}

-----------------------------------------------------------------------------
(* extract_and_store *)

\* The model names the facts it read in the exchange.  The kill switch, an answer
\* that is no list and an empty one end the task, and an error on the way drops the
\* facts after it: what is chosen here is what gets stored.
Extract(m) ==
    /\ task[m].pc = "idle"
    /\ \/ task' = [task EXCEPT ![m].pc = "done"]
       \/ \E f \in Extracted : task' = [task EXCEPT ![m] = [pc |-> "store", left |-> f]]
    /\ UNCHANGED <<facts, clock, pass, stale>>

\* memory_repo.upsert, last writer wins; a failed embedding is stored as NULL.
Upsert(s, v, embedded) ==
    LET id == IF s \in DOMAIN facts THEN facts[s].id ELSE clock + 1
        row == [value |-> v, id |-> id, at |-> clock + 1, embedded |-> embedded]
    IN /\ facts' = [t \in DOMAIN facts \cup {s} |-> IF t = s THEN row ELSE facts[t]]
       /\ clock' = clock + 1 /\ stale' = stale \cup Looking

\* One fact of the list, embedded or not.
Store(m) ==
    /\ task[m].pc = "store"
    /\ \E s \in DOMAIN task[m].left, embedded \in BOOLEAN :
         LET rest == Restrict(task[m].left, DOMAIN task[m].left \ {s}) IN
         /\ Upsert(s, task[m].left[s], embedded)
         /\ task' = [task EXCEPT ![m] =
                [pc |-> IF DOMAIN rest = {} THEN "done" ELSE "store", left |-> rest]]
    /\ UNCHANGED pass

\* backfill_memory_embeddings.py: the same row, its vector filled in.
Backfill(s) ==
    /\ s \in DOMAIN facts /\ ~facts[s].embedded
    /\ facts' = [facts EXCEPT ![s].embedded = TRUE]
    /\ stale' = stale \cup Looking
    /\ UNCHANGED <<clock, task, pass>>

-----------------------------------------------------------------------------
(* consolidate_once *)

NearRows(s, t) ==
    /\ s # t /\ facts[s].embedded /\ facts[t].embedded
    /\ <<facts[s].value, facts[t].value>> \in Near

\* Of a pair, the loser is the older row.
LoserNewer(s, t) == IF facts[s].at > facts[t].at THEN s ELSE t
Loser(s, t) == IF facts[s].at < facts[t].at THEN s ELSE t

\* The SELECT of near pairs and the loop over them.
Compare(p) ==
    LET losers == {Loser(st[1], st[2]) : st \in
            {st \in (DOMAIN facts) \X (DOMAIN facts) : NearRows(st[1], st[2])}} IN
    /\ pass[p].pc = "idle"
    /\ pass' = [pass EXCEPT ![p] = [pc |-> IF losers = {} THEN "done" ELSE "delete",
                                   losers |-> {facts[s].id : s \in losers}]]
    /\ UNCHANGED <<facts, clock, task, stale>>

\* DELETE ... WHERE id = ANY(to_delete): by id alone.
Drop(p) ==
    /\ pass[p].pc = "delete"
    /\ facts' = Restrict(facts, {s \in DOMAIN facts : facts[s].id \notin pass[p].losers})
    /\ pass' = [pass EXCEPT ![p] = [pc |-> "done", losers |-> {}]]
    /\ stale' = stale \cup IF facts' = facts THEN {} ELSE Looking \ {p}
    /\ UNCHANGED <<clock, task>>

Next ==
    \/ \E m \in Messages : Extract(m) \/ Store(m)
    \/ \E p \in Passes : Compare(p) \/ Drop(p)
    \/ \E s \in Slots : Backfill(s)
Spec == Init /\ [][Next]_memoryVars

-----------------------------------------------------------------------------
\* Rows linked to s by a chain of near pairs: those in every set that holds s and all
\* the rows near to one of its own.
Linked(s) ==
    {t \in DOMAIN facts : \A chain \in SUBSET DOMAIN facts :
        s \in chain /\ (\A q \in chain, r \in DOMAIN facts : NearRows(q, r) => r \in chain)
            => t \in chain}

\* A pass forgets a fact only in favour of a newer near-duplicate that stays, if need
\* be through a chain of them (memory_consolidation.py:18 "the surviving row is always
\* the more recent"), unless a row changed between its SELECT and its DELETE.
NewerTwinStays ==
    [][\A p \in Passes : pass[p].pc = "delete" /\ pass'[p].pc = "done" /\ p \notin stale =>
        \A s \in DOMAIN facts \ DOMAIN facts' :
            \E t \in Linked(s) \cap DOMAIN facts' : facts[t].at > facts[s].at]_memoryVars

\* memory_consolidation.py:42 "Idempotent": a pass that nothing disturbed leaves the
\* next one no pair to merge.
PassLeavesNoPair ==
    [][\A p \in Passes : pass[p].pc = "delete" /\ pass'[p].pc = "done" /\ p \notin stale =>
        \A s, t \in DOMAIN facts' : <<s, t>> \notin {st \in (DOMAIN facts) \X (DOMAIN facts) :
                                                     NearRows(st[1], st[2])}]_memoryVars
=============================================================================
