---------------------------- MODULE FeedComposer ----------------------------
(***************************************************************************)
(* The order of a discovery feed (app/services/discovery/discovery_feed.py)*)
(* as operators: operator pins, the session's own shuffle, the skilled     *)
(* bots up front, archetypes in turn, and the gender guardrail of the first*)
(* screen.                                                                 *)
(*                                                                         *)
(* meta holds the rows the metadata SELECT returned: a bot that is not in  *)
(* its domain was deactivated since it was ranked.                         *)
(*                                                                         *)
(* The loops of the code are recursive functions, and a sort puts each     *)
(* element at its rank: the provers know neither SelectSeq nor SortSeq.    *)
(***************************************************************************)
EXTENDS Integers, FiniteSets, SequencesExt

CONSTANTS
    SkillTopN,    \* SKILL_GUARANTEE_TOP_N
    PrefixLen,    \* GENDER_GUARDRAIL_PREFIX_LEN
    MaxDominant   \* GENDER_MAX_SHARE * GENDER_GUARDRAIL_PREFIX_LEN, rounded down

\* With 3 skilled bots, a first screen of 10 and a share of 0.6 the code satisfies it.
\* What the constants must satisfy.
ComposerAssumption ==
    /\ SkillTopN \in Nat /\ PrefixLen \in Nat /\ MaxDominant \in Nat
    /\ SkillTopN <= MaxDominant /\ MaxDominant <= PrefixLen /\ 2 * MaxDominant >= PrefixLen

Unknown == "unknown"
\* What a missing row and a row no classifier has seen look like.
Unclassified == [skilled |-> FALSE, archetype |-> 0, gender |-> Unknown]
Attrs(meta, b) == IF b \in DOMAIN meta THEN meta[b] ELSE Unclassified
Smaller(m, n) == IF m <= n THEN m ELSE n

\* The elements of a list that are in S, as they came: [b for b in ids if b in S].
Kept(ids, S) ==
    LET kept[n \in 0..Len(ids)] ==
            IF n = 0 THEN <<>>
            ELSE IF ids[n] \in S THEN Append(kept[n - 1], ids[n]) ELSE kept[n - 1]
    IN  kept[Len(ids)]
Without(ids, S) == Kept(ids, ToSet(ids) \ S)

SkilledBots(meta, ids) == {b \in ToSet(ids) : Attrs(meta, b).skilled}
Skilled(meta, ids) == Kept(ids, SkilledBots(meta, ids))

\* Skilled bots first, both groups in the order they came.
SkillGuarantee(ids, meta) ==
    Skilled(meta, ids) \o Without(ids, SkilledBots(meta, ids))

\* One bot of each archetype in turn: the n-th bots of all archetypes make round n.
Round(ids, meta, i) ==
    Cardinality({j \in 1..i : Attrs(meta, ids[j]).archetype = Attrs(meta, ids[i]).archetype})
ComesBefore(ids, meta, i, j) ==
    \/ Round(ids, meta, i) < Round(ids, meta, j)
    \/ /\ Round(ids, meta, i) = Round(ids, meta, j)
       /\ Attrs(meta, ids[i]).archetype < Attrs(meta, ids[j]).archetype
RoundRobin(ids, meta) ==
    LET places == 1..Len(ids)
        Turn(n) == CHOOSE i \in places :
                       Cardinality({j \in places : ComesBefore(ids, meta, j, i)}) = n - 1
    IN  [n \in places |-> ids[Turn(n)]]

\* The positions of a list a gender takes, and the genders that take too many of a prefix.
Taken(ids, meta, g) == {i \in DOMAIN ids : Attrs(meta, ids[i]).gender = g}
Dominant(prefix, meta) ==
    {g \in {Attrs(meta, prefix[i]).gender : i \in DOMAIN prefix} \ {Unknown} :
        Cardinality(Taken(prefix, meta, g)) > MaxDominant}
Candidates(tail, meta, g) ==
    DOMAIN tail \ (Taken(tail, meta, g) \cup Taken(tail, meta, Unknown))

\* One pass of the guardrail's loop: the last bot of the dominant gender leaves the
\* prefix for the first one below of another known gender.
DemoteFirst(places) == CHOOSE j \in places : \A k \in places : j <= k
Demote(places) == CHOOSE j \in places : \A k \in places : k <= j
Promote(places) == CHOOSE i \in places : \A k \in places : i <= k
SwapOnce(screen, meta) ==
    LET genders == {g \in Dominant(screen.prefix, meta) : Candidates(screen.tail, meta, g) # {}}
    IN  IF genders = {} THEN screen
        ELSE LET g == CHOOSE x \in genders : TRUE
                 out == Demote(Taken(screen.prefix, meta, g))
                 in == Promote(Candidates(screen.tail, meta, g))
             IN  [prefix |-> [screen.prefix EXCEPT ![out] = screen.tail[in]],
                  tail |-> [screen.tail EXCEPT ![in] = screen.prefix[out]]]
Guardrail(ids, meta) ==
    IF Len(ids) <= PrefixLen THEN ids
    ELSE LET start == [prefix |-> SubSeq(ids, 1, PrefixLen),
                       tail |-> SubSeq(ids, PrefixLen + 1, Len(ids))]
             screen[n \in 0..PrefixLen] ==
                 IF n = 0 THEN start ELSE SwapOnce(screen[n - 1], meta)
         IN  screen[PrefixLen].prefix \o screen[PrefixLen].tail

\* compose_diverse_order: without metadata the shuffled order stands.
Compose(ids, meta, cold) ==
    IF ids = <<>> \/ DOMAIN meta = {} THEN ids
    ELSE LET first == SkillGuarantee(ids, meta)
             n == Smaller(SkillTopN, Len(first))
             mixed == SubSeq(first, 1, n) \o RoundRobin(SubSeq(first, n + 1, Len(first)), meta)
         IN  IF cold THEN Guardrail(mixed, meta) ELSE mixed

\* Pins in the order of their ranks, which two of them may share, each inserted at its
\* own slot.
InRankOrder(pins) ==
    {queue \in SetToSeqs(pins) : \A i, j \in DOMAIN queue : i < j => queue[i].rank <= queue[j].rank}
Insert(list, p) == InsertAt(list, Smaller(p.rank, Len(list) + 1), p.bot)
PinOverlay(base, queue) ==
    LET over[n \in 0..Len(queue)] ==
            IF n = 0 THEN Without(base, {p.bot : p \in ToSet(queue)})
            ELSE Insert(over[n - 1], queue[n])
    IN  over[Len(queue)]

\* The shuffle sorts by a hash of session and bot: for one session a fixed order.
Shuffle(ids, order) == Kept(order, ToSet(ids))
-----------------------------------------------------------------------------
(* What the order owes the reader.                                         *)

SameBots(ids, jds) == Len(ids) = Len(jds) /\ ToSet(ids) = ToSet(jds)

\* discovery_feed.py "the first 3 skilled promise": skilled bots lead, in their order.
SkilledLead(ids, meta, composed) ==
    LET n == Smaller(SkillTopN, Len(Skilled(meta, ids)))
    IN  SubSeq(composed, 1, n) = SubSeq(Skilled(meta, ids), 1, n)

\* No gender takes more than its share of a first screen it does not own alone.
NoGenderOwns(composed, meta) ==
    Len(composed) > PrefixLen =>
        LET tail == SubSeq(composed, PrefixLen + 1, Len(composed))
        IN  \A g \in Dominant(SubSeq(composed, 1, PrefixLen), meta) :
                Candidates(tail, meta, g) = {}

\* Below the skilled bots, an archetype gets ahead of another one by a bot at most,
\* as long as the other one has bots left.
ArchetypesTakeTurns(composed, meta) ==
    LET Kind(i) == Attrs(meta, composed[i]).archetype
        Ahead(a, i) == Cardinality({j \in SkillTopN + 1..i : Kind(j) = a})
    IN  \A i \in SkillTopN + 1..Len(composed) : \A k \in i + 1..Len(composed) :
            Ahead(Kind(i), i) <= Ahead(Kind(k), i) + 1

FeedIsMixed(ids, meta, cold, composed) ==
    /\ SameBots(ids, composed)
    /\ DOMAIN meta # {} =>
        /\ SkilledLead(ids, meta, composed)
        /\ IF cold THEN NoGenderOwns(composed, meta) ELSE ArchetypesTakeTurns(composed, meta)
=============================================================================
