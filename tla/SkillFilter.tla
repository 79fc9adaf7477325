----------------------------- MODULE SkillFilter ------------------------------
(***************************************************************************)
(* The hidden <skill_state> block of a streamed reply                      *)
(* (app/services/coach/skill_parser.py): SkillStateStreamFilter lets the   *)
(* text before the block through while it arrives in pieces of any size,   *)
(* and parse_skill_state_block cuts the block out of the text to store.    *)
(*                                                                         *)
(* The opening tag is a word over an alphabet of its own in which its      *)
(* first letter does not recur, the closing tag one letter.                *)
(***************************************************************************)
EXTENDS Integers, SequencesExt

CONSTANTS
    OpenTag,   \* _OPEN_TAG, as a sequence of letters
    CloseTag,  \* </skill_state>
    Other,     \* any other text
    MaxToken,  \* bound: letters in a token
    MaxText    \* bound: letters in a reply

\* What the constants must satisfy.
FilterAssumption ==
    /\ OpenTag \in Seq(ToSet(OpenTag)) /\ MaxToken \in Nat /\ MaxText \in Nat
    /\ OpenTag # << >> /\ \A i \in 2..Len(OpenTag) : OpenTag[i] # OpenTag[1]
    /\ CloseTag \notin ToSet(OpenTag) /\ Other \notin ToSet(OpenTag) \cup {CloseTag}

Letters == ToSet(OpenTag) \cup {CloseTag, Other}

VARIABLES
    buffer,      \* held back: it may be the start of the tag
    full,        \* everything the model has said
    suppressed,  \* the tag has been seen
    shown,       \* history: what the app has been sent
    over         \* the stream has ended and flush was called

filterVars == <<buffer, full, suppressed, shown, over>>

TypeOK ==
    /\ full \in BoundedSeq(Letters, MaxText) /\ {buffer, shown} \subseteq Seq(Letters)
    /\ suppressed \in BOOLEAN /\ over \in BOOLEAN

Init == buffer = << >> /\ full = << >> /\ suppressed = FALSE /\ shown = << >> /\ over = FALSE

\* Where the tag starts in a text, 0 when it is not in it.
StartsAt(text, i) == i + Len(OpenTag) - 1 <= Len(text) /\ SubSeq(text, i, i + Len(OpenTag) - 1) = OpenTag
Find(text) ==
    IF \E i \in DOMAIN text : StartsAt(text, i)
    THEN CHOOSE i \in DOMAIN text : StartsAt(text, i) /\ \A j \in 1..i - 1 : ~StartsAt(text, j)
    ELSE 0

\* The longest tail of a text that the tag could start with.
Overlaps(text, k) == k <= Len(OpenTag) /\ k <= Len(text)
                       /\ SubSeq(text, Len(text) - k + 1, Len(text)) = SubSeq(OpenTag, 1, k)
HeldBackNothing(text) == 0
HeldBack(text) ==
    CHOOSE k \in 0..Len(OpenTag) : Overlaps(text, k) /\ \A n \in k + 1..Len(OpenTag) : ~Overlaps(text, n)

\* feed
Feed(token) ==
    LET text == buffer \o token
        tag == Find(text)
        safe == IF tag # 0 THEN tag - 1 ELSE Len(text) - HeldBack(text)
    IN  /\ ~over /\ Len(full) + Len(token) <= MaxText
        /\ full' = full \o token
        /\ IF suppressed THEN UNCHANGED <<buffer, shown, suppressed>>
           ELSE /\ shown' = shown \o SubSeq(text, 1, safe)
                /\ suppressed' = (tag # 0)
                /\ buffer' = IF tag # 0 THEN << >> ELSE SubSeq(text, safe + 1, Len(text))
        /\ UNCHANGED over

\* flush, when the model is done.
Flush ==
    /\ ~over /\ over' = TRUE
    /\ shown' = IF suppressed THEN shown ELSE shown \o buffer
    /\ buffer' = IF suppressed THEN buffer ELSE << >>
    /\ UNCHANGED <<full, suppressed>>

Tokens == UNION {[1..n -> Letters] : n \in 1..MaxToken}
Next == Flush \/ \E token \in Tokens : Feed(token)
Spec == Init /\ [][Next]_filterVars

\* parse_skill_state_block: every block goes, from an opening tag to the first closing
\* one that leaves at least a letter between them.
Closes(text, i) == {j \in i + Len(OpenTag) + 1..Len(text) : text[j] = CloseTag}
Cleaned(text) ==
    LET rest[i \in 1..Len(text) + 1] ==
            IF i > Len(text) THEN << >>
            ELSE IF StartsAt(text, i) /\ Closes(text, i) # {}
                 THEN rest[(CHOOSE j \in Closes(text, i) : \A k \in Closes(text, i) : j <= k) + 1]
                 ELSE <<text[i]>> \o rest[i + 1]
    IN  rest[1]

-----------------------------------------------------------------------------
\* The text before the block, or all of it when there is none.
Visible(text) == IF Find(text) = 0 THEN text ELSE SubSeq(text, 1, Find(text) - 1)

\* "we must NOT emit the <skill_state> literal": however the reply is cut into tokens,
\* the app is sent the text before the block and no part of the tag, nothing of it is
\* kept back for longer than the tag could last, and in the end all of it is sent.
TagNeverLeaks ==
    /\ IsPrefix(shown, Visible(full))
    /\ ~suppressed => Len(Visible(full)) - Len(shown) < Len(OpenTag)
    /\ over => shown = Visible(full)

\* A reply that ends in its block, as the prompt asks, is stored as it was shown.
StoredAsShown ==
    over /\ Find(full) # 0 /\ Closes(full, Find(full)) = {Len(full)} => Cleaned(full) = shown
=============================================================================
