----------------------------- MODULE ChatProofs -----------------------------
(***************************************************************************)
(* Proofs about Chat, for any number of calls, sweeping processes and      *)
(* client message ids: a conversation shows one turn per client id, a      *)
(* deleted one leaves nothing behind, no takeover is announced as ended    *)
(* more often than it ended, and only a stream answers during a takeover.  *)
(***************************************************************************)
EXTENDS Chat, TLAPS, FiniteSetTheorems

-----------------------------------------------------------------------------
(* The inductive invariant.                                                *)

\* Every conversation was made by a call of its own, and no call works on one that
\* is not made yet.
Past == {c \in Calls: pc[c] \notin {"idle", "create"}}
IdsAreFresh == made <= Cardinality(Past) /\ \A p \in Procs: mine[p] <= made

\* A message is of the conversation there is, and its call had arrived: the client id of
\* a call no longer changes.
Speakers == \A m \in messages: m.conv = conv /\ pc[m.by] # "idle"

UserOnce ==
    \A m, n \in messages:
        m.kind = "user" /\ n.kind = "user" /\ key[m.by] \in Keys /\ key[n.by] = key[m.by] => m = n

\* Until a delete takes it away the message that is to be answered is there, so the
\* two replies to one client id would be by one call.
Said(c) == Wiped(conv) \/ [conv |-> conv, kind |-> "user", by |-> c] \in messages
Answers == \A m \in messages: m.kind = "reply" /\ key[m.by] \in Keys => Said(m.by)
Thinking ==
    \A c \in Calls: pc[c] \in {"think", "reply"} /\ key[c] \in Keys /\ Here(c) => Said(c)

\* Whoever is about to post "has left the chat" stands for a takeover that ended.
Leavers == {p \in Procs: pc[p] = "leave" /\ Here(p)}
Posting == unposted >= Cardinality(Leavers)

\* A call that goes on to think without streaming did not find the takeover flag set.
Quiet ==
    /\ \A c \in Calls: pc[c] \in {"think", "reply"} /\ key[c] # Streaming => ~silent[c]
    /\ \A m \in messages: m.kind = "reply" /\ key[m.by] # Streaming => ~silent[m.by]

IndInv ==
    /\ TypeOK /\ IdsAreFresh /\ Speakers /\ UserOnce /\ Answers /\ Thinking /\ Posting /\ Quiet

-----------------------------------------------------------------------------
(* The steps, sorted by what they disturb.                                 *)

\* The handler goes on and changes nothing else.
Moves(c) == Dedup(c) \/ StayQuiet(c) \/ Think(c) \/ Stream(c)

\* A call arrives.
Arrivals(c) ==
    \/ Lookup(c) \/ (\E k \in Keys \cup {NoKey}: Receive(c, k)) \/ ReceiveStream(c)
    \/ AskImage(c) \/ AskDelete(c) \/ Load(c)

\* A message is stored, or not.
Stores(c) ==
    \/ Greet(c) \/ StoreUserMessage(c) \/ StoreReply(c) \/ StoreStreamed(c)
    \/ StoreStreamReply(c) \/ StoreImage(c) \/ Say(c)

\* The takeover's flag and times.
Timers(c) == Activate(c) \/ Touch(c)

Handler(c) ==
    \/ Moves(c) \/ Arrivals(c) \/ Create(c) \/ Adopt(c) \/ Stores(c) \/ WipeMessages(c)
    \/ DropRow(c) \/ Timers(c)

Release(p) == Deactivate(p) \/ Leave(p)

LEMMA NextIs ==
    Next <=> \/ \E c \in Calls: Handler(c)
             \/ \E p \in Procs: Release(p)
             \/ \E w \in Sweepers: Find(w)
             \/ Tick
BY DEF Next, Sweep, Procs, Handler, Moves, Arrivals, Stores, Timers, Release

\* A call that has not made its conversation yet leaves room for one more.
LEMMA RoomForOne ==
    ASSUME TypeOK, IdsAreFresh, NEW o \in Calls, pc[o] = "create"
    PROVE  made < Cardinality(Calls) /\ Cardinality(Calls) \in Nat
<1>1. Cardinality(Calls) \in Nat /\ IsFiniteSet(Calls)
  BY ChatAssumption, FS_CardinalityType DEF ChatAssumption
<1>2. IsFiniteSet(Calls \ {o}) /\ Cardinality(Calls \ {o}) = Cardinality(Calls) - 1
  BY <1>1, FS_RemoveElement
<1>3. Past \in SUBSET (Calls \ {o})
  BY DEF Past
<1>4. Cardinality(Past) <= Cardinality(Calls) - 1 /\ Cardinality(Past) \in Nat
  BY <1>2, <1>3, FS_Subset, FS_CardinalityType
<1> QED
  BY <1>1, <1>4 DEF IdsAreFresh, TypeOK, ConvIds

LEMMA CallsAreMany == Cardinality(Calls) \in Nat
BY ChatAssumption, FS_CardinalityType DEF ChatAssumption

LEMMA TypeStep ==
    ASSUME TypeOK, IdsAreFresh, [Next]_vars
    PROVE  TypeOK'
<1> USE CallsAreMany DEF TypeOK, Goto, rowVars, sendVars, ConvIds, Procs, Steps
<1>1. ASSUME NEW c \in Calls, Moves(c)
      PROVE  TypeOK'
  BY <1>1 DEF Moves, Dedup, StayQuiet, Think, Stream
<1>2. ASSUME NEW c \in Calls, Arrivals(c)
      PROVE  TypeOK'
  <2>1. CASE Lookup(c) \/ AskImage(c) \/ AskDelete(c) \/ Load(c)
    BY <1>2, <2>1 DEF Lookup, AskImage, AskDelete, Load, Arrives, ArrivesFor
  <2>2. CASE ReceiveStream(c) \/ \E k \in Keys \cup {NoKey}: Receive(c, k)
    BY <1>2, <2>2 DEF Receive, ReceiveStream, Learns, Arrives, ArrivesFor
  <2> QED
    BY <1>2, <2>1, <2>2 DEF Arrivals
<1>3. ASSUME NEW c \in Calls, Create(c) \/ Adopt(c)
      PROVE  TypeOK'
  <2>1. CASE Create(c)
    <3>1. takeover' \in BOOLEAN
      BY <2>1 DEF Create
    <3>2. conv' \in ConvIds /\ made' \in ConvIds /\ conv' <= made' /\ unposted' \in Int
      BY <2>1, RoomForOne DEF Create
    <3>3. mine' \in [Procs -> ConvIds] /\ pc' \in [Procs -> Steps]
      BY <2>1, <3>2 DEF Create
    <3> QED
      BY <2>1, <3>1, <3>2, <3>3 DEF Create
  <2>2. CASE Adopt(c)
    BY <2>2 DEF Adopt
  <2> QED
    BY <1>3, <2>1, <2>2
<1>4. ASSUME NEW c \in Calls, Stores(c)
      PROVE  TypeOK'
  <2>1. ASSUME NEW k \in Kinds, Here(c)
        PROVE  [conv |-> mine[c], kind |-> k, by |-> c] \in Message
    BY <2>1 DEF Message, Here
  <2>2. messages' \subseteq Message
    BY <1>4, <2>1 DEF Stores, Greet, StoreUserMessage, StoreReply, StoreStreamed, StoreStreamReply,
       StoreImage, Say, StoreThenGo, StoreAnswer, MayStore, Insert, Kinds
  <2>3. pc' \in [Procs -> Steps] /\ UNCHANGED <<rowVars, mine, sendVars, unposted, now>>
    BY <1>4 DEF Stores, Greet, StoreUserMessage, StoreReply, StoreStreamed, StoreStreamReply,
       StoreImage, Say, StoreThenGo, StoreAnswer
  <2> QED
    BY <2>2, <2>3
<1>5. ASSUME NEW c \in Calls, WipeMessages(c) \/ DropRow(c)
      PROVE  TypeOK'
  <2>1. takeover' \in BOOLEAN
    BY <1>5 DEF WipeMessages, DropRow
  <2>2. conv' \in ConvIds /\ conv' <= made' /\ messages' \subseteq Message
    BY <1>5 DEF WipeMessages, DropRow, Surviving, NoConv
  <2> QED
    BY <1>5, <2>1, <2>2 DEF WipeMessages, DropRow
<1>6. ASSUME NEW c \in Calls, Timers(c)
      PROVE  TypeOK'
  <2>1. takeover' \in BOOLEAN
    BY <1>6 DEF Timers, Activate, Touch
  <2>2. began' \in 0..now' /\ spoke' \in began'..now'
    BY <1>6 DEF Timers, Activate, Touch, FreshTimer
  <2> QED
    BY <1>6, <2>1, <2>2 DEF Timers, Activate, Touch
<1>7. ASSUME NEW p \in Procs, Release(p)
      PROVE  TypeOK'
  <2>1. takeover' \in BOOLEAN
    BY <1>7 DEF Release, Deactivate, Leave
  <2>2. unposted' \in Int /\ pc' \in [Procs -> Steps]
    BY <1>7 DEF Release, Deactivate, Leave, Rest
  <2> QED
    BY <1>7, <2>1, <2>2 DEF Release, Deactivate, Leave
<1>8. ASSUME NEW w \in Sweepers, Find(w)
      PROVE  TypeOK'
  BY <1>8 DEF Find
<1>9. CASE Tick
  BY <1>9, ChatAssumption DEF Tick, ChatAssumption
<1>10. CASE UNCHANGED vars
  BY <1>10 DEF vars
<1> QED
  BY <1>1, <1>2, <1>3, <1>4, <1>5, <1>6, <1>7, <1>8, <1>9, <1>10, NextIs DEF Handler

\* A call that has arrived keeps its client id and its conversation, and never starts over.
Onward ==
    \A c \in Calls: pc[c] # "idle" =>
        /\ pc'[c] # "idle" /\ key'[c] = key[c] /\ silent'[c] = silent[c]
        /\ pc[c] # "create" => pc'[c] # "create"
        /\ pc[c] \notin {"create", "adopt"} => mine'[c] = mine[c]

LEMMA StepsGoOn ==
    ASSUME TypeOK, Next
    PROVE  Onward
<1> USE ChatAssumption
        DEF ChatAssumption, TypeOK, Goto, rowVars, sendVars, Procs, Onward
<1>1. ASSUME NEW c \in Calls, Moves(c)
      PROVE  Onward
  BY <1>1 DEF Moves, Dedup, StayQuiet, Think, Stream
<1>2. ASSUME NEW c \in Calls, Arrivals(c)
      PROVE  Onward
  <2>1. pc[c] = "idle"
    BY <1>2 DEF Arrivals, Lookup, AskImage, AskDelete, Load, Receive, ReceiveStream, Learns, ArrivesFor,
       Arrives
  <2>2. \A d \in Calls: d # c => pc'[d] = pc[d] /\ key'[d] = key[d] /\ silent'[d] = silent[d] /\ mine'[d] = mine[d]
    BY <1>2 DEF Arrivals, Lookup, AskImage, AskDelete, Load, Receive, ReceiveStream, Learns, ArrivesFor
  <2> QED
    BY <2>1, <2>2
<1>3. ASSUME NEW c \in Calls, Create(c) \/ Adopt(c)
      PROVE  Onward
  BY <1>3 DEF Create, Adopt
<1>4. ASSUME NEW c \in Calls, Stores(c)
      PROVE  Onward
  BY <1>4 DEF Stores, Greet, StoreUserMessage, StoreReply, StoreStreamed, StoreStreamReply, StoreImage,
     Say, StoreThenGo, StoreAnswer
<1>5. ASSUME NEW c \in Calls, WipeMessages(c) \/ DropRow(c) \/ Timers(c)
      PROVE  Onward
  BY <1>5 DEF WipeMessages, DropRow, Timers, Activate, Touch
<1>6. ASSUME NEW p \in Procs, Release(p)
      PROVE  Onward
  BY <1>6 DEF Release, Deactivate, Leave, Rest
<1>7. ASSUME NEW w \in Sweepers, Find(w)
      PROVE  Onward
  BY <1>7 DEF Find
<1>8. CASE Tick
  BY <1>8 DEF Tick
<1> QED
  BY <1>1, <1>2, <1>3, <1>4, <1>5, <1>6, <1>7, <1>8, NextIs DEF Handler

\* A delete that has wiped goes on to drop the row, and only a stored message of the user is
\* thought about.
TurnTaking ==
    \A c \in Calls:
        /\ pc[c] = "drop" => pc'[c] = "drop" \/ DropRow(c)
        /\ pc'[c] \in {"think", "reply"} => pc[c] \in {"think", "reply"} \/ Stores(c)

LEMMA StepsTakeTurns ==
    ASSUME TypeOK, Next
    PROVE  TurnTaking
<1> USE ChatAssumption
        DEF ChatAssumption, TypeOK, Goto, rowVars, sendVars, Procs, TurnTaking
<1>1. ASSUME NEW c \in Calls, Moves(c)
      PROVE  TurnTaking
  BY <1>1 DEF Moves, Dedup, StayQuiet, Think, Stream
<1>2. ASSUME NEW c \in Calls, Arrivals(c)
      PROVE  TurnTaking
  BY <1>2 DEF Arrivals, Lookup, AskImage, AskDelete, Load, Receive, ReceiveStream, Learns, ArrivesFor,
     Arrives
<1>3. ASSUME NEW c \in Calls, Create(c) \/ Adopt(c)
      PROVE  TurnTaking
  BY <1>3 DEF Create, Adopt
<1>4. ASSUME NEW c \in Calls, Stores(c)
      PROVE  TurnTaking
  <2>1. \A d \in Calls: d # c => pc'[d] = pc[d]
    BY <1>4 DEF Stores, Greet, StoreUserMessage, StoreReply, StoreStreamed, StoreStreamReply, StoreImage,
       Say, StoreThenGo, StoreAnswer
  <2>2. pc[c] # "drop"
    BY <1>4 DEF Stores, Greet, StoreUserMessage, StoreReply, StoreStreamed, StoreStreamReply, StoreImage,
       Say
  <2> QED
    BY <1>4, <2>1, <2>2
<1>5. ASSUME NEW c \in Calls, WipeMessages(c) \/ DropRow(c) \/ Timers(c)
      PROVE  TurnTaking
  <2>1. CASE DropRow(c)
    <3>1. pc' = [pc EXCEPT ![c] = "done"]
      BY <2>1 DEF DropRow
    <3> QED
      BY <2>1, <3>1
  <2>2. CASE WipeMessages(c) \/ Timers(c)
    BY <2>2 DEF WipeMessages, Timers, Activate, Touch
  <2> QED
    BY <1>5, <2>1, <2>2
<1>6. ASSUME NEW p \in Procs, Release(p)
      PROVE  TurnTaking
  BY <1>6 DEF Release, Deactivate, Leave, Rest
<1>7. ASSUME NEW w \in Sweepers, Find(w)
      PROVE  TurnTaking
  BY <1>7 DEF Find
<1>8. CASE Tick
  BY <1>8 DEF Tick
<1> QED
  BY <1>1, <1>2, <1>3, <1>4, <1>5, <1>6, <1>7, <1>8, NextIs DEF Handler

\* Only create_conversation hands out ids.
LEMMA MineStep ==
    ASSUME TypeOK, IdsAreFresh, Next
    PROVE  \/ made' = made /\ conv' \in {conv, NoConv} /\ \A p \in Procs: mine'[p] \in {mine[p], conv}
           \/ \E o \in Calls: Create(o) /\ conv = NoConv
<1> USE DEF TypeOK, Goto, rowVars, sendVars, Procs
<1>1. ASSUME NEW c \in Calls, Handler(c), ~Create(c)
      PROVE  made' = made /\ conv' \in {conv, NoConv} /\ \A p \in Procs: mine'[p] \in {mine[p], conv}
  <2>1. CASE Moves(c) \/ Stores(c)
    BY <2>1 DEF Moves, Dedup, StayQuiet, Think, Stream, Stores, Greet, StoreUserMessage, StoreReply,
       StoreStreamed, StoreStreamReply, StoreImage, Say, StoreThenGo, StoreAnswer
  <2>2. CASE Arrivals(c)
    BY <2>2 DEF Arrivals, Lookup, AskImage, AskDelete, Load, Receive, ReceiveStream, Learns, ArrivesFor
  <2>3. CASE Adopt(c) \/ WipeMessages(c) \/ DropRow(c) \/ Timers(c)
    BY <2>3 DEF Adopt, WipeMessages, DropRow, Timers, Activate, Touch
  <2> QED
    BY <1>1, <2>1, <2>2, <2>3 DEF Handler
<1>2. ASSUME NEW o \in Calls, Create(o), conv # NoConv
      PROVE  made' = made /\ conv' = conv /\ mine' = mine
  BY <1>2 DEF Create
<1>3. ASSUME NEW p \in Procs, Release(p)
      PROVE  made' = made /\ conv' = conv /\ mine' = mine
  BY <1>3 DEF Release, Deactivate, Leave
<1>4. ASSUME NEW w \in Sweepers, Find(w)
      PROVE  made' = made /\ conv' = conv /\ \A p \in Procs: mine'[p] \in {mine[p], conv}
  BY <1>4 DEF Find
<1>5. CASE Tick
  BY <1>5 DEF Tick
<1> QED
  BY <1>1, <1>2, <1>3, <1>4, <1>5, NextIs

LEMMA IdsStep ==
    ASSUME TypeOK, IdsAreFresh, Next
    PROVE  IdsAreFresh'
<1>0. TypeOK' /\ Onward
  BY TypeStep, StepsGoOn
<1>1. Past \subseteq Past' /\ IsFiniteSet(Past') /\ Past' \subseteq Calls
  <2>1. Past \subseteq Past' /\ Past' \subseteq Calls
    BY <1>0 DEF Past, Onward
  <2>2. IsFiniteSet(Calls)
    BY ChatAssumption DEF ChatAssumption
  <2> QED
    BY <2>1, <2>2, FS_Subset
<1>2. Cardinality(Past) <= Cardinality(Past') /\ Cardinality(Past') \in Nat /\ Cardinality(Past) \in Nat
  BY <1>1, FS_Subset, FS_CardinalityType
<1>3. CASE made' = made /\ \A p \in Procs: mine'[p] \in {mine[p], conv}
  <2>1. \A p \in Procs: mine'[p] <= made'
    BY <1>3 DEF IdsAreFresh, TypeOK
  <2>2. made' <= Cardinality(Past')
    BY <1>2, <1>3 DEF IdsAreFresh, TypeOK, ConvIds
  <2> QED
    BY <2>1, <2>2 DEF IdsAreFresh
<1>4. ASSUME NEW o \in Calls, Create(o), conv = NoConv
      PROVE  IdsAreFresh'
  <2>1. made' = made + 1 /\ mine' = [mine EXCEPT ![o] = made'] /\ pc' = [pc EXCEPT ![o] = "greet"]
    BY <1>4 DEF Create, Goto
  <2>2. o \notin Past /\ Past \cup {o} \in SUBSET Past'
    BY <1>1, <1>4, <2>1 DEF Create, Past, TypeOK, Procs
  <2>3. IsFiniteSet(Past) /\ Cardinality(Past \cup {o}) = Cardinality(Past) + 1
    BY <1>1, <2>2, FS_Subset, FS_AddElement
  <2>4. Cardinality(Past \cup {o}) <= Cardinality(Past')
    BY <1>1, <2>2, FS_Subset
  <2>5. made' <= Cardinality(Past')
    BY <1>2, <2>1, <2>3, <2>4 DEF IdsAreFresh, TypeOK, ConvIds
  <2>6. \A p \in Procs: mine'[p] <= made'
    BY <2>1 DEF IdsAreFresh, TypeOK, ConvIds, Procs
  <2> QED
    BY <2>5, <2>6 DEF IdsAreFresh
<1> QED
  BY <1>3, <1>4, MineStep

\* What a handler stores: the user's message only under a free client id, a reply only
\* to a stored one, each in the conversation that is there.
NewMessage(c, k) == [conv |-> conv, kind |-> k, by |-> c]

LEMMA StoreFacts ==
    ASSUME TypeOK, NEW c \in Calls, Stores(c)
    PROVE  /\ \/ messages' = messages
              \/ \E k \in Kinds:
                    /\ Here(c) /\ messages' = messages \cup {NewMessage(c, k)}
                    /\ (k = "user" => SameKey(c) = {}) /\ (k = "reply" => pc[c] = "reply")
           /\ pc[c] # "idle" /\ pc'[c] # "reply"
           /\ pc'[c] = "think" =>
                 /\ Here(c) /\ messages' = messages \cup {NewMessage(c, "user")}
                 /\ key[c] # Streaming => ~silent[c]
           /\ UNCHANGED <<conv, mine, key, silent, made, unposted>>
<1> USE DEF TypeOK, Goto, rowVars, sendVars, Procs, Insert, Here, Kinds, NewMessage
<1>1. CASE Greet(c)
  BY <1>1 DEF Greet
<1>2. CASE StoreUserMessage(c)
  BY <1>2 DEF StoreUserMessage, StoreThenGo, MayStore, MustStayQuiet
<1>3. CASE StoreStreamed(c)
  BY <1>3 DEF StoreStreamed, StoreThenGo, MayStore
<1>4. CASE StoreReply(c) \/ StoreStreamReply(c)
  BY <1>4 DEF StoreReply, StoreStreamReply, StoreAnswer
<1>5. CASE StoreImage(c) \/ Say(c)
  BY <1>5 DEF StoreImage, Say
<1> QED
  BY <1>1, <1>2, <1>3, <1>4, <1>5 DEF Stores

\* Messages and conversations change in five ways only.
LEMMA HistorySteps ==
    ASSUME TypeOK, Next
    PROVE  \/ messages' = messages /\ conv' = conv /\ \A d \in Calls: ~DropRow(d)
           \/ \E c \in Calls: Stores(c)
           \/ \E d \in Calls: WipeMessages(d)
           \/ \E d \in Calls: DropRow(d)
           \/ \E o \in Calls: Create(o) /\ conv = NoConv
<1> USE DEF rowVars
<1>1. ASSUME NEW c \in Calls, Moves(c) \/ Arrivals(c) \/ Adopt(c) \/ Timers(c)
      PROVE  messages' = messages /\ conv' = conv
  BY <1>1 DEF Moves, Dedup, StayQuiet, Think, Stream, Arrivals, Lookup, AskImage, AskDelete, Load,
     Receive, ReceiveStream, Learns, Adopt, Timers, Activate, Touch
<1>2. ASSUME NEW o \in Calls, Create(o), conv # NoConv
      PROVE  messages' = messages /\ conv' = conv
  BY <1>2 DEF Create
<1>3. ASSUME NEW p \in Procs, Release(p)
      PROVE  messages' = messages /\ conv' = conv
  BY <1>3 DEF Release, Deactivate, Leave
<1>4. ASSUME NEW w \in Sweepers, Find(w)
      PROVE  messages' = messages /\ conv' = conv
  BY <1>4 DEF Find
<1>5. CASE Tick
  BY <1>5 DEF Tick
<1> QED
  BY <1>1, <1>2, <1>3, <1>4, <1>5, NextIs DEF Handler

\* While there is no conversation there is no message.
LEMMA NothingToShow ==
    ASSUME TypeOK, Speakers, conv = NoConv
    PROVE  messages = {}
BY DEF TypeOK, Speakers, Message

LEMMA SpeakersStep ==
    ASSUME TypeOK, IdsAreFresh, Speakers, Next
    PROVE  Speakers'
<1>0. Onward /\ \A m \in messages: m.by \in Calls /\ m.conv \in ConvIds \ {NoConv}
  BY StepsGoOn DEF TypeOK, Message
<1>1. CASE messages' \subseteq messages /\ conv' = conv
  BY <1>0, <1>1 DEF Speakers, Onward
<1>2. CASE messages' = {}
  BY <1>2 DEF Speakers
<1>3. ASSUME NEW c \in Calls, Stores(c)
      PROVE  Speakers'
  <2>1. conv' = conv /\ pc[c] # "idle"
    BY <1>3, StoreFacts
  <2>2. \A m \in messages': m \in messages \/ (m.conv = conv /\ m.by = c)
    BY <1>3, StoreFacts DEF NewMessage
  <2> QED
    BY <1>0, <2>1, <2>2 DEF Speakers, Onward
<1>4. ASSUME NEW d \in Calls, WipeMessages(d)
      PROVE  Speakers'
  BY <1>1, <1>4 DEF WipeMessages, rowVars
<1>5. ASSUME NEW d \in Calls, DropRow(d)
      PROVE  Speakers'
  <2>1. CASE Here(d)
    BY <1>2, <1>5, <2>1 DEF DropRow, Here, Surviving, Speakers
  <2>2. CASE ~Here(d)
    BY <1>1, <1>5, <2>2 DEF DropRow, Surviving
  <2> QED
    BY <2>1, <2>2
<1>6. ASSUME NEW o \in Calls, Create(o), conv = NoConv
      PROVE  Speakers'
  BY <1>2, <1>6, NothingToShow DEF Create
<1> QED
  BY <1>1, <1>3, <1>4, <1>5, <1>6, HistorySteps

LEMMA UserOnceStep ==
    ASSUME TypeOK, IdsAreFresh, Speakers, UserOnce, Next
    PROVE  UserOnce'
<1>0. Onward /\ \A m \in messages: m.by \in Calls /\ key'[m.by] = key[m.by]
  BY StepsGoOn DEF TypeOK, Message, Speakers, Onward
<1>1. CASE messages' \subseteq messages
  BY <1>0, <1>1 DEF UserOnce
<1>2. ASSUME NEW c \in Calls, Stores(c)
      PROVE  UserOnce'
  <2>1. key' = key
    BY <1>2, StoreFacts
  <2>2. CASE messages' = messages
    BY <2>1, <2>2 DEF UserOnce
  <2>3. ASSUME NEW k \in Kinds, Here(c), messages' = messages \cup {NewMessage(c, k)},
               k = "user" => SameKey(c) = {}
        PROVE  UserOnce'
    <3>1. ASSUME NEW n \in messages, n.kind = "user", key[n.by] = key[c], key[c] \in Keys
          PROVE  k # "user"
      <4>1. n.conv = mine[c]
        BY <2>3 DEF Speakers, Here
      <4> QED
        BY <2>3, <3>1, <4>1 DEF SameKey
    <3>2. NewMessage(c, k).kind = k /\ NewMessage(c, k).by = c
      BY DEF NewMessage
    <3> QED
      BY <2>1, <2>3, <3>1, <3>2 DEF UserOnce
  <2> QED
    BY <1>2, <2>2, <2>3, StoreFacts
<1>3. ASSUME NEW d \in Calls, WipeMessages(d) \/ DropRow(d)
      PROVE  UserOnce'
  BY <1>1, <1>3 DEF WipeMessages, DropRow, Surviving
<1>4. ASSUME NEW o \in Calls, Create(o)
      PROVE  UserOnce'
  BY <1>1, <1>4 DEF Create
<1> QED
  BY <1>1, <1>2, <1>3, <1>4, HistorySteps

\* A wipe is remembered until its delete drops the row.
LEMMA WipedStays ==
    ASSUME TypeOK, Next, conv' = conv, Wiped(conv), \A d \in Calls: DropRow(d) => mine[d] # conv
    PROVE  Wiped(conv)'
<1>1. PICK d \in Calls: pc[d] = "drop" /\ mine[d] = conv
  BY DEF Wiped
<1>2. pc'[d] = "drop" /\ mine'[d] = mine[d]
  BY <1>1, StepsGoOn, StepsTakeTurns DEF Onward, TurnTaking
<1> QED
  BY <1>1, <1>2 DEF Wiped

LEMMA SaidStays ==
    ASSUME TypeOK, Speakers, Next, NEW c, Said(c), conv' = conv, conv # NoConv, 
           \A d \in Calls: DropRow(d) => mine[d] # conv
    PROVE  Said(c)'
<1>1. CASE Wiped(conv)
  BY <1>1, WipedStays DEF Said
<1>2. CASE [conv |-> conv, kind |-> "user", by |-> c] \in messages
  <2>1. CASE messages \subseteq messages'
    BY <1>2, <2>1 DEF Said
  <2>2. ASSUME NEW d \in Calls, WipeMessages(d)
        PROVE  Said(c)'
    <3>1. CASE mine[d] = conv
      <4>1. pc' = [pc EXCEPT ![d] = "drop"] /\ mine' = mine
        BY <2>2 DEF WipeMessages, Goto
      <4> QED
        BY <3>1, <4>1 DEF Said, Wiped, TypeOK, Procs
    <3>2. CASE mine[d] # conv
      BY <2>1, <2>2, <3>2 DEF WipeMessages, Speakers
    <3> QED
      BY <3>1, <3>2
  <2>3. ASSUME NEW d \in Calls, DropRow(d)
        PROVE  Said(c)'
    BY <2>1, <2>3 DEF DropRow, Surviving, Speakers
  <2>4. ASSUME NEW d \in Calls, Stores(d)
        PROVE  Said(c)'
    BY <2>1, <2>4, StoreFacts
  <2> QED
    BY <2>1, <2>2, <2>3, <2>4, HistorySteps
<1> QED
  BY <1>1, <1>2 DEF Said

LEMMA AnswersStep ==
    ASSUME TypeOK, IdsAreFresh, Speakers, Answers, Thinking, Next
    PROVE  Answers'
<1>0. Onward /\ Speakers' /\ TypeOK'
  BY StepsGoOn, SpeakersStep, TypeStep
<1>1. CASE messages' = {}
  BY <1>1 DEF Answers
<1>2. CASE conv' = conv /\ conv # NoConv /\ (\A d \in Calls: DropRow(d) => mine[d] # conv)
  <2>1. ASSUME NEW m \in messages, m.kind = "reply", key'[m.by] \in Keys
        PROVE  Said(m.by)'
    <3>1. m.by \in Calls /\ key'[m.by] = key[m.by]
      BY <1>0 DEF Onward, Speakers, TypeOK, Message
    <3> QED
      BY <1>2, <2>1, <3>1, SaidStays DEF Answers
  <2>2. ASSUME NEW c \in Calls, Stores(c)
        PROVE  Answers'
    <3>1. ASSUME NEW k \in Kinds, Here(c), messages' = messages \cup {NewMessage(c, k)},
                 k = "reply" => pc[c] = "reply"
          PROVE  Answers'
      <4>1. k = "reply" /\ key[c] \in Keys => Said(c)'
        BY <1>2, <3>1, SaidStays DEF Thinking
      <4>2. key' = key
        BY <2>2, StoreFacts
      <4>3. NewMessage(c, k).kind = k /\ NewMessage(c, k).by = c
        BY DEF NewMessage
      <4> QED
        BY <2>1, <3>1, <4>1, <4>2, <4>3 DEF Answers
    <3> QED
      BY <2>1, <2>2, <3>1, StoreFacts DEF Answers
  <2>3. CASE messages' \subseteq messages
    BY <2>1, <2>3 DEF Answers
  <2> QED
    BY <2>2, <2>3, HistorySteps DEF WipeMessages, DropRow, Surviving, Create
<1>3. ASSUME NEW d \in Calls, DropRow(d), mine[d] = conv
      PROVE  messages' = {}
  BY <1>3 DEF DropRow, Surviving, Speakers
<1>4. ASSUME conv = NoConv
      PROVE  messages' = {}
  <2>1. messages = {}
    BY <1>4, NothingToShow
  <2>2. ASSUME NEW c \in Calls, Stores(c)
        PROVE  messages' = messages
    BY <1>4, <2>2, StoreFacts DEF Here
  <2> QED
    BY <2>1, <2>2, HistorySteps DEF WipeMessages, DropRow, Surviving, Create
<1>5. CASE conv' # conv /\ conv # NoConv
  <2>1. ASSUME NEW c \in Calls, Stores(c) \/ WipeMessages(c) 
        PROVE  conv' = conv
    BY <2>1, StoreFacts DEF WipeMessages, rowVars
  <2> QED
    BY <1>1, <1>3, <1>5, <2>1, HistorySteps DEF DropRow, Here
<1> QED
  BY <1>1, <1>2, <1>3, <1>4, <1>5

LEMMA ThinkingStep ==
    ASSUME TypeOK, IdsAreFresh, Speakers, Thinking, Next
    PROVE  Thinking'
<1> SUFFICES ASSUME NEW c \in Calls, pc'[c] \in {"think", "reply"}, key'[c] \in Keys, Here(c)'
             PROVE  Said(c)'
  BY DEF Thinking
<1>0. Onward /\ TurnTaking /\ TypeOK'
  BY StepsGoOn, StepsTakeTurns, TypeStep
<1>1. CASE Stores(c)
  <2>1. pc'[c] = "think"
    BY <1>1, StoreFacts
  <2> QED
    BY <1>1, <2>1, StoreFacts DEF Said, NewMessage
<1>2. CASE pc[c] \in {"think", "reply"}
  <2>1. key[c] \in Keys /\ mine'[c] = mine[c]
    BY <1>0, <1>2 DEF Onward
  <2>2. CASE conv' = conv /\ \A d \in Calls: DropRow(d) => mine[d] # conv
    BY <1>2, <2>1, <2>2, SaidStays DEF Thinking, Here
  <2>3. ASSUME NEW d \in Calls, DropRow(d), mine[d] = conv
        PROVE  FALSE
    BY <2>3 DEF DropRow, Here
  <2>4. ASSUME NEW o \in Calls, Create(o), conv = NoConv
        PROVE  FALSE
    <3>1. conv' = made + 1 /\ mine[c] <= made
      BY <2>4 DEF Create, IdsAreFresh, Procs
    <3>2. made \in Int /\ mine[c] \in Int
      BY DEF TypeOK, ConvIds, NoConv, Procs
    <3>3. mine[c] = made + 1
      BY <2>1, <3>1 DEF Here
    <3> QED
      BY <3>1, <3>2, <3>3
  <2>5. ASSUME NEW d \in Calls, Stores(d) \/ WipeMessages(d) \/ (DropRow(d) /\ mine[d] # conv)
        PROVE  conv' = conv
    BY <2>5, StoreFacts DEF WipeMessages, DropRow, rowVars, Here
  <2> QED
    BY <2>2, <2>3, <2>4, <2>5, HistorySteps
<1> QED
  BY <1>0, <1>1, <1>2 DEF TurnTaking

\* Between two of its messages a takeover ends, or nothing about the messages changes.
LEMMA LeaversStep ==
    ASSUME TypeOK, IdsAreFresh, Next, \A p \in Procs: ~Release(p), \A o \in Calls: ~(Create(o) /\ conv = NoConv)
    PROVE  unposted' = unposted /\ Leavers' \subseteq Leavers
<1> USE DEF TypeOK, Goto, rowVars, sendVars, Procs
<1>1. ASSUME NEW c \in Calls, Handler(c)
      PROVE  unposted' = unposted /\ \A p \in Procs: pc'[p] = "leave" => pc[p] = "leave" /\ mine'[p] = mine[p]
  <2>1. CASE Moves(c)
    BY <2>1 DEF Moves, Dedup, StayQuiet, Think, Stream
  <2>2. CASE Arrivals(c)
    BY <2>2 DEF Arrivals, Lookup, AskImage, AskDelete, Load, Receive, ReceiveStream, Learns, ArrivesFor
  <2>3. CASE Create(c) \/ Adopt(c)
    BY <1>1, <2>3 DEF Create, Adopt
  <2>4. CASE Stores(c)
    BY <2>4 DEF Stores, Greet, StoreUserMessage, StoreReply, StoreStreamed, StoreStreamReply, StoreImage,
       Say, StoreThenGo, StoreAnswer
  <2>5. CASE WipeMessages(c) \/ DropRow(c) \/ Timers(c)
    BY <2>5 DEF WipeMessages, DropRow, Timers, Activate, Touch
  <2> QED
    BY <1>1, <2>1, <2>2, <2>3, <2>4, <2>5 DEF Handler
<1>2. ASSUME NEW w \in Sweepers, Find(w)
      PROVE  unposted' = unposted /\ \A p \in Procs: pc'[p] = "leave" => pc[p] = "leave" /\ mine'[p] = mine[p]
  BY <1>2 DEF Find
<1>3. ASSUME Tick
      PROVE  unposted' = unposted /\ \A p \in Procs: pc'[p] = "leave" => pc[p] = "leave" /\ mine'[p] = mine[p]
  BY <1>3 DEF Tick
<1>4. unposted' = unposted /\ \A p \in Procs: pc'[p] = "leave" => pc[p] = "leave" /\ mine'[p] = mine[p]
  BY <1>1, <1>2, <1>3, NextIs
<1>5. conv' \in {conv, NoConv}
  BY MineStep
<1> QED
  BY <1>4, <1>5 DEF Leavers, Here

LEMMA PostingStep ==
    ASSUME TypeOK, IdsAreFresh, Posting, Next
    PROVE  Posting'
<1>0. IsFiniteSet(Leavers) /\ Cardinality(Leavers) \in Nat
  <2>1. IsFiniteSet(Procs)
    BY ChatAssumption, FS_Union DEF ChatAssumption, Procs
  <2>2. Leavers \in SUBSET Procs
    BY DEF Leavers
  <2> QED
    BY <2>1, <2>2, FS_Subset, FS_CardinalityType
<1>1. ASSUME NEW p \in Procs, Deactivate(p)
      PROVE  Posting'
  <2> USE <1>1 DEF Deactivate, Goto, rowVars, TypeOK
  <2>1. CASE Flips(p)
    <3>1. Leavers' = Leavers \cup {p}
      BY <2>1 DEF Leavers, Here, Flips
    <3>2. p \notin Leavers /\ unposted' = unposted + 1
      BY <2>1 DEF Leavers, Flips
    <3>3. Cardinality(Leavers') = Cardinality(Leavers) + 1
      BY <1>0, <3>1, <3>2, FS_AddElement
    <3> QED
      BY <1>0, <3>2, <3>3 DEF Posting
  <2>2. CASE ~Flips(p)
    <3>1. Leavers' = Leavers
      BY <2>2 DEF Leavers, Here, Rest
    <3> QED
      BY <2>2, <3>1 DEF Posting
  <2> QED
    BY <2>1, <2>2
<1>2. ASSUME NEW p \in Procs, Leave(p)
      PROVE  Posting'
  <2> USE <1>2 DEF Leave, Goto, rowVars, TypeOK
  <2>1. CASE Here(p)
    <3>1. Leavers' = Leavers \ {p} /\ p \in Leavers
      BY <2>1 DEF Leavers, Here, Rest
    <3>2. Cardinality(Leavers') = Cardinality(Leavers) - 1
      BY <1>0, <3>1, FS_RemoveElement
    <3> QED
      BY <1>0, <2>1, <3>2 DEF Posting
  <2>2. CASE ~Here(p)
    <3>1. Leavers' = Leavers
      BY <2>2 DEF Leavers, Here, Rest
    <3> QED
      BY <2>2, <3>1 DEF Posting
  <2> QED
    BY <2>1, <2>2
<1>3. ASSUME NEW o \in Calls, Create(o), conv = NoConv
      PROVE  Posting'
  <2>1. Leavers' = {}
    <3>1. conv' = made + 1 /\ mine' = [mine EXCEPT ![o] = conv'] /\ pc' = [pc EXCEPT ![o] = "greet"]
      BY <1>3 DEF Create, Goto
    <3>2. \A p \in Procs: p # o => mine'[p] = mine[p] /\ mine[p] # conv'
      BY <3>1 DEF TypeOK, IdsAreFresh, ConvIds, NoConv
    <3>3. pc'[o] # "leave"
      BY <3>1 DEF TypeOK, Procs
    <3> QED
      BY <3>2, <3>3 DEF Leavers, Here
  <2>2. unposted' = 0
    BY <1>3 DEF Create
  <2> QED
    BY <2>1, <2>2, FS_EmptySet DEF Posting
<1>4. CASE unposted' = unposted /\ Leavers' \subseteq Leavers
  <2>1. Cardinality(Leavers') <= Cardinality(Leavers) /\ Cardinality(Leavers') \in Nat
    BY <1>0, <1>4, FS_Subset, FS_CardinalityType
  <2> QED
    BY <1>0, <1>4, <2>1 DEF Posting, TypeOK
<1> QED
  BY <1>1, <1>2, <1>3, <1>4, LeaversStep DEF Release

LEMMA QuietStep ==
    ASSUME TypeOK, Speakers, Quiet, Next
    PROVE  Quiet'
<1>0. Onward /\ TurnTaking /\ \A m \in messages: m.by \in Calls /\ pc[m.by] # "idle"
  BY StepsGoOn, StepsTakeTurns DEF TypeOK, Message, Speakers
<1>1. ASSUME NEW c \in Calls, pc'[c] \in {"think", "reply"}, key'[c] # Streaming
      PROVE  ~silent'[c]
  <2>1. CASE Stores(c)
    BY <1>1, <2>1, StoreFacts
  <2>2. CASE pc[c] \in {"think", "reply"}
    BY <1>0, <1>1, <2>2 DEF Onward, Quiet
  <2> QED
    BY <1>0, <1>1, <2>1, <2>2 DEF TurnTaking
<1>2. ASSUME NEW m \in messages', m.kind = "reply", key'[m.by] # Streaming
      PROVE  ~silent'[m.by]
  <2>1. CASE m \in messages
    BY <1>0, <1>2, <2>1 DEF Onward, Quiet
  <2>2. CASE m \notin messages
    <3>1. PICK c \in Calls: Stores(c)
      BY <1>2, <2>2, HistorySteps DEF WipeMessages, DropRow, Surviving, Create
    <3>2. m.by = c /\ pc[c] = "reply" /\ key' = key /\ silent' = silent
      BY <1>2, <2>2, <3>1, StoreFacts DEF NewMessage
    <3> QED
      BY <1>2, <3>2 DEF Quiet
  <2> QED
    BY <2>1, <2>2
<1> QED
  BY <1>1, <1>2 DEF Quiet

-----------------------------------------------------------------------------
(* The invariant, and what it says.                                        *)

LEMMA InitInv == Init => IndInv
<1> SUFFICES ASSUME Init
             PROVE  IndInv
  OBVIOUS
<1> USE DEF Init, NoConv
<1>1. Past = {} /\ Leavers = {} /\ Cardinality({}) = 0
  BY FS_EmptySet DEF Past, Leavers, Here, Procs
<1>2. TypeOK
  <2>1. takeover \in BOOLEAN /\ silent \in [Calls -> BOOLEAN]
    OBVIOUS
  <2>2. conv \in ConvIds /\ made \in ConvIds /\ mine \in [Procs -> ConvIds]
    BY CallsAreMany DEF ConvIds
  <2>3. pc \in [Procs -> Steps] /\ key \in [Calls -> Keys \cup {NoKey, Streaming}]
    BY DEF Steps
  <2>4. conv <= made /\ began \in 0..now /\ spoke \in began..now /\ unposted \in Int /\ now \in 0..MaxTime
    BY ChatAssumption DEF ChatAssumption
  <2> QED
    BY <2>1, <2>2, <2>3, <2>4 DEF TypeOK
<1>3. IdsAreFresh /\ Posting
  BY <1>1 DEF IdsAreFresh, Posting
<1>4. Thinking /\ Quiet
  BY DEF Thinking, Quiet, Procs
<1> QED
  BY <1>2, <1>3, <1>4 DEF IndInv, Speakers, UserOnce, Answers

LEMMA Inductive == Spec => []IndInv
<1>1. IndInv /\ [Next]_vars => IndInv'
  <2>1. CASE Next
    BY <2>1, TypeStep, IdsStep, SpeakersStep, UserOnceStep, AnswersStep, ThinkingStep, PostingStep,
       QuietStep DEF IndInv
  <2>2. ASSUME IndInv, UNCHANGED vars
        PROVE  IndInv'
    BY <2>2 DEF IndInv, vars, TypeOK, IdsAreFresh, Past, Speakers, UserOnce, Answers, Thinking, Said,
       Wiped, Here, Posting, Leavers, Quiet
  <2> QED
    BY <2>1, <2>2
<1> QED
  BY <1>1, InitInv, PTL DEF Spec

\* The types, and takeover_repo.py:9: the sweep's clock of a takeover is never older than the
\* takeover itself.
THEOREM ChatTypeCorrect == Spec => []TypeOK
<1>1. IndInv => TypeOK
  BY DEF IndInv
<1> QED
  BY <1>1, Inductive, PTL

LEMMA AtMostOne ==
    ASSUME NEW S, \A x, y \in S: x = y
    PROVE  Cardinality(S) <= 1
<1>1. CASE S = {}
  BY <1>1, FS_EmptySet
<1>2. CASE S # {}
  <2>1. PICK x \in S: S = {x}
    BY <1>2
  <2> QED
    BY <2>1, FS_Singleton
<1> QED
  BY <1>1, <1>2

\* message_repo.py: with any number of repeated sends, streams, creator's messages and deletes
\* under way at once, a conversation holds a client's message once and one reply to it, and
\* a deleted conversation none.
THEOREM HistoryStaysSound == Spec => []HistoryIsSound
<1>1. IndInv => HistoryIsSound
  <2> SUFFICES ASSUME IndInv
               PROVE  HistoryIsSound
    OBVIOUS
  <2> USE DEF IndInv
  <2>1. NoOrphans
    BY DEF Speakers, NoOrphans
  <2>2. ASSUME NEW k \in Keys
        PROVE  Cardinality(With(k, "user")) <= 1
    <3>1. \A m, n \in With(k, "user"): m = n
      BY <2>2 DEF With, UserOnce
    <3> QED
      BY <3>1, AtMostOne
  <2>3. ASSUME NEW k \in Keys, ~Wiped(conv)
        PROVE  Cardinality(With(k, "reply")) <= 1
    <3>1. ASSUME NEW m \in With(k, "reply"), NEW n \in With(k, "reply")
          PROVE  m = n
      <4>1. /\ [conv |-> conv, kind |-> "user", by |-> m.by] \in messages
            /\ [conv |-> conv, kind |-> "user", by |-> n.by] \in messages
        BY <2>3 DEF With, Answers, Said
      <4>2. m.by = n.by
        BY <4>1 DEF With, UserOnce
      <4>3. m \in Message /\ n \in Message /\ m.conv = n.conv /\ m.kind = n.kind
        BY DEF With, Speakers, TypeOK
      <4> QED
        BY <4>2, <4>3 DEF Message
    <3> QED
      BY <3>1, AtMostOne
  <2> QED
    BY <2>1, <2>2, <2>3 DEF HistoryIsSound, OneTurnPerKey
<1> QED
  BY <1>1, Inductive, PTL

\* takeover_repo.py:35: manual releases and any number of sweeping processes together post
\* no more "has left the chat" messages than takeovers were ended.
THEOREM OneLeftEach == Spec => []OneLeftPerTakeover
<1>1. IndInv => OneLeftPerTakeover
  <2>1. ASSUME IndInv
        PROVE  Cardinality(Leavers) \in Nat
    <3>1. IsFiniteSet(Procs) /\ Leavers \in SUBSET Procs
      BY ChatAssumption, FS_Union DEF ChatAssumption, Procs, Leavers
    <3> QED
      BY <3>1, FS_Subset, FS_CardinalityType
  <2> QED
    BY <2>1 DEF IndInv, Posting, OneLeftPerTakeover, TypeOK
<1> QED
  BY <1>1, Inductive, PTL

\* creator_takeover.py:4: of the sends that found the conversation taken over, only a
\* stream can be answered by the model.
OnlyStreamsAnswer == \A m \in messages: m.kind = "reply" /\ silent[m.by] => key[m.by] = Streaming

THEOREM TakeoverIsQuiet == Spec => []OnlyStreamsAnswer
<1>1. IndInv => OnlyStreamsAnswer
  BY DEF IndInv, Quiet, OnlyStreamsAnswer
<1> QED
  BY <1>1, Inductive, PTL
=============================================================================
