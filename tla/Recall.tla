------------------------------- MODULE Recall -------------------------------
(***************************************************************************)
(* Which memories a turn puts into the prompt: get_memories_for_prompt     *)
(* over semantic_search, held back from reciting the same ones by the      *)
(* rolling list of session_memory.py in Redis.  The keys a turn used are   *)
(* recorded by a task it does not wait for.                                *)
(***************************************************************************)
EXTENDS Integers, Sequences, FiniteSets

CONSTANTS
    Facts,     \* keys of the user's embedded memories
    Searches,  \* orders in which semantic_search can return them, nearest first
    TopK,      \* SEMANTIC_TOP_K
    Depth,     \* MEMORY_HISTORY_DEPTH
    Repeat,    \* MEMORY_REPEAT_LIMIT
    Turns      \* turns that can be under way in the conversation at once

\* What the constants must satisfy.
RecallAssumption ==
    /\ TopK \in Nat \ {0} /\ Depth \in Nat \ {0} /\ Repeat \in 1..Depth /\ IsFiniteSet(Turns)
    /\ \A found \in Searches : found \in Seq(Facts)

VARIABLES
    used,    \* mem_keys:<user>:<conversation>: the keys of the last turns, newest first
    turn,    \* per turn: its step, the keys to skip and the keys it chose
    loss     \* history: Redis failed a turn or dropped the list

recallVars == <<used, turn, loss>>

Ready == [pc |-> "idle", keys |-> {}]

TypeOK ==
    /\ used \in Seq(SUBSET Facts) /\ Len(used) <= Depth
    /\ turn \in [Turns -> [pc: {"idle", "choose", "record"}, keys: SUBSET Facts]]
    /\ loss \in BOOLEAN

Init == used = << >> /\ turn = [t \in Turns |-> Ready] /\ loss = FALSE

Uses(k) == Cardinality({i \in DOMAIN used : k \in used[i]})
Overused == {k \in Facts : Uses(k) >= Repeat}

\* recently_overused_keys; without Redis nothing is held back.
ReadOverused(t) ==
    /\ turn[t].pc = "idle"
    /\ \/ turn' = [turn EXCEPT ![t] = [pc |-> "choose", keys |-> Overused]] /\ UNCHANGED loss
       \/ turn' = [turn EXCEPT ![t] = [pc |-> "choose", keys |-> {}]] /\ loss' = TRUE
    /\ UNCHANGED used

\* The nearest TopK that are not held back: two bots may have stored a memory under the
\* same key, which counts once.  Nothing chosen is nothing recorded.
UpTo(found, i, skip) == {found[m] : m \in 1..i} \ skip
Nearest(found, skip) ==
    UNION {new \in {UpTo(found, i, skip) : i \in DOMAIN found} : Cardinality(new) <= TopK}
Choose(t) ==
    /\ turn[t].pc = "choose"
    /\ \E found \in Searches :
         LET chosen == Nearest(found, turn[t].keys)
         IN turn' = [turn EXCEPT ![t] = IF chosen = {} THEN Ready
                                        ELSE [pc |-> "record", keys |-> chosen]]
    /\ UNCHANGED <<used, loss>>

\* record_memory_keys_used: LPUSH, LTRIM; a failure between the two is not modelled,
\* the next turn trims.
Trim(list) == SubSeq(list, 1, IF Len(list) < Depth THEN Len(list) ELSE Depth)
Record(t) ==
    /\ turn[t].pc = "record"
    /\ \/ used' = Trim(<<turn[t].keys>> \o used) /\ UNCHANGED loss
       \/ UNCHANGED used /\ loss' = TRUE
    /\ turn' = [turn EXCEPT ![t] = Ready]

\* MEMORY_KEYS_TTL_SEC after the last recorded turn.
Expire == used # << >> /\ used' = << >> /\ loss' = TRUE /\ UNCHANGED turn

Next == Expire \/ \E t \in Turns : ReadOverused(t) \/ Choose(t) \/ Record(t)
Spec == Init /\ [][Next]_recallVars

-----------------------------------------------------------------------------
\* No memory is in more of the last turns than the limit, plus one for each further
\* turn that was under way at the same time, as long as Redis kept the list.
RecitationBounded ==
    loss \/ \A k \in Facts : Uses(k) <= Repeat + Cardinality(Turns) - 1
=============================================================================
