------------------------------- MODULE Summary -------------------------------
(***************************************************************************)
(* The plain-English summary of a bot (app/routes/influencers.py,          *)
(* services/discovery/influencer_summary.py): a model writes it, it is     *)
(* kept in the bot's metadata, and it is served until the bot's updated_at *)
(* passes its generated_at.  Every UPDATE of the row sets updated_at       *)
(* (migration 001, trigger_update_influencer_timestamp).                   *)
(***************************************************************************)
EXTENDS Integers

CONSTANTS
    Requests,  \* GET /influencers/{id}/summary: a bound
    Edits      \* bound: edits of the bot

\* What the constants must satisfy.
SummaryAssumption == Edits \in Nat

VARIABLES
    clock,    \* of servers and database, which agree: every event has its own time
    text,     \* edits so far: what the bot is now
    updated,  \* its updated_at
    summary,  \* plain_english_summary: the text it describes, its generated_at
    request   \* per request: its step, the text it read, the summary it has

summaryVars == <<clock, text, updated, summary, request>>

NoSummary == [of |-> 0, at |-> 0]
Told == [of: Nat, at: Nat]
TypeOK ==
    /\ clock \in Nat /\ text \in 1..Edits + 1 /\ updated \in 1..clock /\ summary \in Told
    /\ request \in [Requests -> [pc: {"idle", "think", "store", "hit", "miss", "503"}, told: Told]]

Init ==
    /\ clock = 1 /\ text = 1 /\ updated = 1 /\ summary = NoSummary
    /\ request = [r \in Requests |-> [pc |-> "idle", told |-> NoSummary]]

Passes == clock' = clock + 1

\* update_system_prompt and every other UPDATE of what the prompt is composed from.
Edit ==
    /\ text <= Edits /\ text' = text + 1 /\ Passes /\ updated' = clock'
    /\ UNCHANGED <<summary, request>>

\* cache_is_fresh: stale when updated_at > generated_at.
Fresh == summary # NoSummary /\ updated <= summary.at
Look(r) ==
    /\ request[r].pc = "idle" /\ Passes
    /\ request' = [request EXCEPT ![r] =
           IF Fresh THEN [pc |-> "hit", told |-> summary]
                    ELSE [pc |-> "think", told |-> [of |-> text, at |-> 0]]]
    /\ UNCHANGED <<text, updated, summary>>

\* generate_for_influencer, and its generated_at; a bad answer is a 503.
Generate(r) ==
    /\ request[r].pc = "think" /\ Passes
    /\ request' \in {[request EXCEPT ![r].pc = "store", ![r].told.at = clock'],
                     [request EXCEPT ![r].pc = "503"]}
    /\ UNCHANGED <<text, updated, summary>>

\* cache_plain_english_summary: an UPDATE that names no updated_at, and the trigger.
Touched == clock + 1
Store(r) ==
    /\ request[r].pc = "store" /\ Passes
    /\ summary' = request[r].told /\ updated' = Touched
    /\ request' = [request EXCEPT ![r].pc = "miss"]
    /\ UNCHANGED text

Next == Edit \/ \E r \in Requests : Look(r) \/ Generate(r) \/ Store(r)
Spec == Init /\ [][Next]_summaryVars

-----------------------------------------------------------------------------
\* services/discovery/influencer_summary.py:5 "repeat reads are free": while a bot has a
\* summary that was written after its last edit, nobody waits for the model again.
RepeatReadsAreFree ==
    [][\A r \in Requests :
        request[r].pc = "idle" /\ request'[r].pc = "think" => summary.of # text]_summaryVars
=============================================================================
