-------------------------------- MODULE Chat --------------------------------
(***************************************************************************)
(* One user's AI conversation (app/routes/chat.py, creator_takeover.py and *)
(* their repositories).  Handler calls run interleaved in eight processes  *)
(* and meet only in Postgres: the user opens, writes to (plain or          *)
(* streamed), asks for a picture and deletes it, the bot's creator takes   *)
(* it over and speaks for the bot, and every process sweeps takeovers      *)
(* whose creator fell silent.                                              *)
(*                                                                         *)
(* A step is one SQL statement, or one stretch of a handler between two of *)
(* them.  A message insert checks the foreign key of the conversation and  *)
(* the unique index on its client id.                                      *)
(***************************************************************************)
EXTENDS Integers, FiniteSets

CONSTANTS
    Calls,     \* handler calls, numbered in the order they arrive: a bound
    Sweepers,  \* copies of _takeover_timeout_sweep
    Keys,      \* client_message_id values the user's app uses
    Timeout,   \* TIMEOUT_MINUTES, in clock ticks
    LastWord,  \* bound: the creator does nothing after this time
    MaxTime    \* bound: the clock stops here

NoKey == "none"
Streaming == "streaming"  \* in place of a client id: the endpoint takes none
NoConv == 0

ASSUME ChatAssumption ==
    /\ Calls \subseteq Nat \ {0} /\ IsFiniteSet(Calls) /\ IsFiniteSet(Sweepers)
    /\ Sweepers \cap Calls = {} /\ Keys \cap {NoKey, Streaming} = {}
    /\ Timeout \in Nat /\ LastWord \in Nat /\ MaxTime \in Nat

VARIABLES
    conv,      \* id of the conversation row, NoConv when there is none
    made,      \* conversation ids handed out
    takeover,  \* human_creator_takeover_active
    began,     \* human_creator_takeover_started_at
    spoke,     \* human_creator_last_message_at
    messages,  \* the messages table, system messages apart
    pc,        \* per call and per sweeper: its next step
    mine,      \* per call: the conversation it works on
    key,       \* per call: the client_message_id it sends
    silent,    \* per call: the takeover flag a send's lookup returned
    unposted,  \* history: takeovers ended, less "has left the chat" messages
    now        \* the database clock

vars == <<conv, made, takeover, began, spoke, messages, pc, mine, key, silent, unposted, now>>

Procs == Calls \cup Sweepers
ConvIds == NoConv..Cardinality(Calls)
Kinds == {"greeting", "user", "reply", "creator", "image"}
Message == [conv: ConvIds \ {NoConv}, kind: Kinds, by: Calls]
Steps == {"idle", "create", "adopt", "greet", "dedup", "insert", "quiet", "think", "reply",
          "paint", "activate", "deactivate", "leave", "say", "touch", "wipe", "drop", "done"}

\* takeover_repo.py:9 "Fresh timestamps on every activation": the sweep's clock
\* of a takeover (spoke) is never older than the takeover itself (began).
TypeOK ==
    /\ conv \in ConvIds /\ made \in ConvIds /\ conv <= made
    /\ takeover \in BOOLEAN /\ began \in 0..now /\ spoke \in began..now
    /\ messages \subseteq Message
    /\ pc \in [Procs -> Steps]
    /\ mine \in [Procs -> ConvIds]
    /\ key \in [Calls -> Keys \cup {NoKey, Streaming}] /\ silent \in [Calls -> BOOLEAN]
    /\ unposted \in Int /\ now \in 0..MaxTime

Init ==
    /\ conv = NoConv /\ made = NoConv /\ takeover = FALSE /\ began = 0 /\ spoke = 0
    /\ messages = {}
    /\ pc = [p \in Procs |-> "idle"] /\ mine = [p \in Procs |-> NoConv]
    /\ key = [c \in Calls |-> NoKey] /\ silent = [c \in Calls |-> FALSE]
    /\ unposted = 0 /\ now = 0

rowVars == <<conv, made, takeover, began, spoke>>
sendVars == <<key, silent>>

Goto(p, step) == pc' = [pc EXCEPT ![p] = step]
Here(p) == conv # NoConv /\ mine[p] = conv

\* The next call to arrive; all but create_conversation look the conversation up
\* and answer 404 when there is none.
Arrives(c) == pc[c] = "idle" /\ \A d \in Calls: d < c => pc[d] # "idle"
ArrivesFor(c) == Arrives(c) /\ conv # NoConv /\ mine' = [mine EXCEPT ![c] = conv]

Insert(p, kind) == messages' = messages \cup {[conv |-> mine[p], kind |-> kind, by |-> p]}

-----------------------------------------------------------------------------
(* create_conversation *)

\* get_existing: an existing conversation is returned as it is.
Lookup(o) ==
    /\ Arrives(o)
    /\ Goto(o, IF conv = NoConv THEN "create" ELSE "done")
    /\ UNCHANGED <<rowVars, messages, mine, sendVars, unposted, now>>

\* INSERT ... ON CONFLICT DO NOTHING.
Create(o) ==
    /\ pc[o] = "create"
    /\ IF conv = NoConv
       THEN /\ made' = made + 1 /\ conv' = made' /\ takeover' = FALSE /\ unposted' = 0
            /\ mine' = [mine EXCEPT ![o] = made'] /\ Goto(o, "greet")
            /\ UNCHANGED <<began, spoke>>
       ELSE Goto(o, "adopt") /\ UNCHANGED <<rowVars, unposted, mine>>
    /\ UNCHANGED <<messages, sendVars, now>>

\* On a conflict the other call's row is read; RuntimeError when it is gone again.
Adopt(o) ==
    /\ pc[o] = "adopt"
    /\ mine' = [mine EXCEPT ![o] = conv]
    /\ Goto(o, IF conv = NoConv THEN "done" ELSE "greet")
    /\ UNCHANGED <<rowVars, messages, sendVars, unposted, now>>

\* The initial greeting, if the bot has one and the conversation still exists.
Greet(o) ==
    /\ pc[o] = "greet"
    /\ \/ Here(o) /\ Insert(o, "greeting")
       \/ UNCHANGED messages
    /\ Goto(o, "done")
    /\ UNCHANGED <<rowVars, mine, sendVars, unposted, now>>

-----------------------------------------------------------------------------
(* send_message *)

\* A lookup hands the handler the conversation and its takeover flag, which is what
\* the handler knows from then on.
Learns(c, k) ==
    /\ ArrivesFor(c)
    /\ key' = [key EXCEPT ![c] = k]
    /\ silent' = [silent EXCEPT ![c] = takeover]
    /\ UNCHANGED <<rowVars, messages, unposted, now>>

Receive(c, k) == Learns(c, k) /\ Goto(c, IF k \in Keys THEN "dedup" ELSE "insert")

SameKey(c) ==
    {m \in messages: m.conv = mine[c] /\ m.kind = "user" /\ key[m.by] = key[c] /\ key[c] \in Keys}

\* get_by_client_id: a message already stored is answered from the table.
Dedup(c) ==
    /\ pc[c] = "dedup"
    /\ Goto(c, IF SameKey(c) = {} THEN "insert" ELSE "done")
    /\ UNCHANGED <<rowVars, messages, mine, sendVars, unposted, now>>

MayStoreTwice(c) == Here(c)
MayStore(c) == Here(c) /\ SameKey(c) = {}
StoreThenGo(c, step) ==
    /\ IF MayStore(c) THEN Insert(c, "user") /\ Goto(c, step)
                      ELSE Goto(c, "done") /\ UNCHANGED messages
    /\ UNCHANGED <<rowVars, mine, sendVars, unposted, now>>

\* The user's message; audio was transcribed before.  410 when the conversation
\* is gone, 500 when the client id was taken meanwhile.
MustStayQuiet(c) == silent[c]
StoreUserMessage(c) ==
    /\ pc[c] = "insert" /\ key[c] # Streaming
    /\ StoreThenGo(c, IF MustStayQuiet(c) THEN "quiet" ELSE "think")

\* The early exit during a takeover: user_last_message_at and a broadcast to
\* the creator, no reply.
StayQuiet(c) ==
    /\ pc[c] = "quiet"
    /\ Goto(c, "done")
    /\ UNCHANGED <<rowVars, messages, mine, sendVars, unposted, now>>

\* Content safety, context assembly and the model call: an answer (or the
\* safety override), or an error that is returned and not stored.
Think(c) ==
    /\ pc[c] = "think" /\ key[c] # Streaming
    /\ \E step \in {"reply", "done"}: Goto(c, step)
    /\ UNCHANGED <<rowVars, messages, mine, sendVars, unposted, now>>

\* The assistant's message; in a conversation deleted meanwhile, nothing.
StoreAnswer(c) ==
    /\ IF Here(c) THEN Insert(c, "reply") ELSE UNCHANGED messages
    /\ Goto(c, "done")
    /\ UNCHANGED <<rowVars, mine, sendVars, unposted, now>>
StoreReply(c) == pc[c] = "reply" /\ key[c] # Streaming /\ StoreAnswer(c)

-----------------------------------------------------------------------------
(* send_message_stream: no client id, and the takeover flag is not looked at. *)

ReceiveStream(c) == Learns(c, Streaming) /\ Goto(c, "insert")
StoreStreamed(c) == pc[c] = "insert" /\ key[c] = Streaming /\ StoreThenGo(c, "think")

\* The tokens go out as the model gives them: to the end, or up to an error event, an
\* answer without text or a client that hangs up, which all leave nothing to store.
Stream(c) ==
    /\ pc[c] = "think" /\ key[c] = Streaming
    /\ \E step \in {"reply", "done"}: Goto(c, step)
    /\ UNCHANGED <<rowVars, messages, mine, sendVars, unposted, now>>

\* After the last token; CONVERSATION_DELETED when there is nothing to store it in.
StoreStreamReply(c) == pc[c] = "reply" /\ key[c] = Streaming /\ StoreAnswer(c)

-----------------------------------------------------------------------------
(* generate_conversation_image *)

AskImage(c) ==
    /\ ArrivesFor(c) /\ Goto(c, "paint")
    /\ UNCHANGED <<rowVars, messages, sendVars, unposted, now>>

\* The prompt, the picture and its upload take their time and may fail; the message
\* that shows it is stored only if the conversation is still there.
StoreImage(c) ==
    /\ pc[c] = "paint" /\ Goto(c, "done")
    /\ \/ Here(c) /\ Insert(c, "image")
       \/ UNCHANGED messages
    /\ UNCHANGED <<rowVars, mine, sendVars, unposted, now>>

-----------------------------------------------------------------------------
(* delete_conversation *)

AskDelete(d) ==
    /\ ArrivesFor(d) /\ Goto(d, "wipe")
    /\ UNCHANGED <<rowVars, messages, sendVars, unposted, now>>

WipeMessages(d) ==
    /\ pc[d] = "wipe"
    /\ messages' = {m \in messages: m.conv # mine[d]}
    /\ Goto(d, "drop")
    /\ UNCHANGED <<rowVars, mine, sendVars, unposted, now>>

\* The row, and with it (ON DELETE CASCADE) what was written since the wipe.
Surviving(c) == {m \in messages: m.conv # c}

DropRow(d) ==
    /\ pc[d] = "drop"
    /\ conv' = IF Here(d) THEN NoConv ELSE conv
    /\ takeover' = (takeover /\ conv' # NoConv)
    /\ messages' = Surviving(mine[d])
    /\ Goto(d, "done")
    /\ UNCHANGED <<made, began, spoke, mine, sendVars, unposted, now>>

-----------------------------------------------------------------------------
(* The creator's handlers.  Each loads the conversation first and acts on the *)
(* takeover flag it read then.                                                *)

Load(h) ==
    /\ ArrivesFor(h)
    /\ IF takeover THEN \E step \in {"deactivate", "say"}: Goto(h, step)
                   ELSE Goto(h, "activate")
    /\ UNCHANGED <<rowVars, messages, sendVars, unposted, now>>

\* takeover_repo.activate, whatever the flag is by now, and the join message (no
\* property is about it); every activation starts with a fresh timer.
StaleTimer == UNCHANGED spoke
FreshTimer == spoke' = now

Activate(h) ==
    /\ pc[h] = "activate" /\ now <= LastWord
    /\ IF Here(h) THEN takeover' = TRUE /\ FreshTimer /\ began' = now
                  ELSE UNCHANGED <<takeover, spoke, began>>
    /\ Goto(h, "done")
    /\ UNCHANGED <<conv, made, messages, mine, sendVars, unposted, now>>

\* deactivate_if_active: the flag is flipped only if it was set, and only the
\* caller that flipped it goes on to the "left" message.
FlipsAlways(p) == Here(p)
Flips(p) == Here(p) /\ takeover

Rest(p) == IF p \in Sweepers THEN "idle" ELSE "done"

\* A flip that found the flag set ends a takeover.
Deactivate(p) ==
    /\ pc[p] = "deactivate"
    /\ IF Flips(p)
       THEN /\ takeover' = FALSE /\ Goto(p, "leave")
            /\ unposted' = unposted + (IF takeover THEN 1 ELSE 0)
       ELSE UNCHANGED <<takeover, unposted>> /\ Goto(p, Rest(p))
    /\ UNCHANGED <<conv, made, began, spoke, messages, mine, sendVars, now>>

\* The system message; its insert fails when the conversation is gone.
Leave(p) ==
    /\ pc[p] = "leave"
    /\ unposted' = unposted - (IF Here(p) THEN 1 ELSE 0)
    /\ Goto(p, Rest(p))
    /\ UNCHANGED <<rowVars, messages, mine, sendVars, now>>

\* takeover_send_message: the message, then its stamp and the timer.
Say(h) ==
    /\ pc[h] = "say"
    /\ IF Here(h) THEN Insert(h, "creator") /\ Goto(h, "touch")
                  ELSE Goto(h, "done") /\ UNCHANGED messages
    /\ UNCHANGED <<rowVars, mine, sendVars, unposted, now>>

Touch(h) ==
    /\ pc[h] = "touch" /\ now <= LastWord
    /\ spoke' = IF Here(h) THEN now ELSE spoke
    /\ Goto(h, "done")
    /\ UNCHANGED <<conv, made, takeover, began, messages, mine, sendVars, unposted, now>>

-----------------------------------------------------------------------------
(* _takeover_timeout_sweep *)

\* find_timed_out_takeovers.  The wait between sweeps is shorter than a tick.
TimedOutEarly == takeover /\ spoke + Timeout > now
TimedOut == takeover /\ spoke + Timeout < now

Find(w) ==
    /\ w \in Sweepers /\ pc[w] = "idle" /\ TimedOut
    /\ mine' = [mine EXCEPT ![w] = conv] /\ Goto(w, "deactivate")
    /\ UNCHANGED <<rowVars, messages, sendVars, unposted, now>>

Tick ==
    /\ now < MaxTime /\ now' = now + 1
    /\ UNCHANGED <<rowVars, messages, pc, mine, sendVars, unposted>>

Sweep(w) == Find(w) \/ Deactivate(w) \/ Leave(w)

Next ==
    \/ \E c \in Calls:
        \/ Lookup(c) \/ Create(c) \/ Adopt(c) \/ Greet(c)
        \/ \E k \in Keys \cup {NoKey}: Receive(c, k)
        \/ Dedup(c) \/ StoreUserMessage(c) \/ StayQuiet(c) \/ Think(c) \/ StoreReply(c)
        \/ ReceiveStream(c) \/ StoreStreamed(c) \/ Stream(c) \/ StoreStreamReply(c)
        \/ AskImage(c) \/ StoreImage(c)
        \/ AskDelete(c) \/ WipeMessages(c) \/ DropRow(c)
        \/ Load(c) \/ Activate(c) \/ Deactivate(c) \/ Leave(c) \/ Say(c) \/ Touch(c)
    \/ \E w \in Sweepers: Sweep(w)
    \/ Tick

Spec == Init /\ [][Next]_vars

-----------------------------------------------------------------------------
(* Properties *)

\* A client message id names one turn: however often and however concurrently
\* the app repeats a send, the conversation holds the message once and at most
\* one reply to it, until a delete has started to take its messages away.
Wiped(c) == \E d \in Calls: pc[d] = "drop" /\ mine[d] = c
With(k, kind) == {m \in messages: m.kind = kind /\ key[m.by] = k}
OneTurnPerKey ==
    \A k \in Keys:
        Wiped(conv) \/ (Cardinality(With(k, "user")) <= 1 /\ Cardinality(With(k, "reply")) <= 1)

\* A deleted conversation takes all its messages with it, also those written
\* while it was being deleted.
NoOrphans == \A m \in messages: m.conv = conv

\* What a conversation shows is what was said in it, once.
HistoryIsSound == OneTurnPerKey /\ NoOrphans

\* takeover_repo.py:35 "only the caller that actually flipped the flag should
\* post the 'left' system message": manual release and the sweeps together post
\* no more of them than takeovers were ended.
OneLeftPerTakeover == unposted >= 0

\* creator_takeover.py:4 "User messages are saved but DO NOT trigger an AI
\* call": a send that found the conversation taken over gets no reply.
NoReplyInTakeover == \A m \in messages: m.kind = "reply" => ~silent[m.by]

=============================================================================
