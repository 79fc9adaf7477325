-------------------------------- MODULE Inbox --------------------------------
(***************************************************************************)
(* Conversations between two people (routes/human_chat.py) and what the    *)
(* inboxes show of every conversation: the unified list of v1 and v2, the  *)
(* list of v3, the human list, the bot's list, their unread badges and the *)
(* read endpoint all of them share (chat.py, chat_v2.py, chat_v3.py and    *)
(* the two repositories).  AI conversations are there from the start; how  *)
(* they come and go is module Chat's.                                      *)
(***************************************************************************)
EXTENDS Integers, FiniteSets

CONSTANTS
    Users,    \* people with an inbox
    Bot,      \* one AI influencer
    Owner,    \* its parent_principal_id
    Opens,    \* calls of create_human_conversation: a bound
    MaxMail   \* bound: messages stored

\* What the constants must satisfy.
InboxAssumption ==
    /\ Bot \notin Users /\ Owner \notin Users /\ Bot # Owner
    /\ Opens \subseteq Nat /\ IsFiniteSet(Opens) /\ Opens \cap Users = {} /\ MaxMail \in Nat

VARIABLES
    rows,     \* the conversations table
    mail,     \* the messages table, by id
    retired,  \* the bot's is_active is 'discontinued'
    opening,  \* per call: its next step, who calls and for whom
    looked,   \* history: messages whose other party has marked them read
    crossed   \* history: two people opened their conversation at once

inboxVars == <<rows, mail, retired, opening, looked, crossed>>

Human == "human_chat"
Row == [id: Opens \cup Users, kind: {Human, "ai_chat"}, user: Users, peer: Users \cup {Bot}]
Message == [conv: Opens \cup Users, role: {"user", "assistant", "system"},
            sender: Users \cup {Bot, Owner}, read: BOOLEAN]
Call == [pc: {"insert", "done"}, by: Users, with: Users]
NoCall == [pc |-> "idle"]

TypeOK ==
    /\ rows \subseteq Row
    /\ DOMAIN mail \subseteq 1..MaxMail /\ \A m \in DOMAIN mail : mail[m] \in Message
    /\ retired \in BOOLEAN /\ crossed \in BOOLEAN
    /\ opening \in [Opens -> Call \cup {NoCall}]
    /\ looked \subseteq DOMAIN mail

Init ==
    /\ rows = {[id |-> u, kind |-> "ai_chat", user |-> u, peer |-> Bot] : u \in Users}
    /\ mail = << >> /\ retired = FALSE
    /\ opening = [c \in Opens |-> NoCall]
    /\ looked = {} /\ crossed = FALSE

-----------------------------------------------------------------------------
(* create_human_conversation *)

BetweenOneWay(r, u, v) == r.kind = Human /\ r.user = u /\ r.peer = v
Between(r, u, v) == r.kind = Human /\ {r.user, r.peer} = {u, v}

\* The SELECT looks both ways; an existing conversation is the answer.
Lookup(c, u, v) ==
    /\ opening[c] = NoCall /\ u # v
    /\ LET there == \E r \in rows : Between(r, u, v)
       IN opening' = [opening EXCEPT
              ![c] = [pc |-> IF there THEN "done" ELSE "insert", by |-> u, with |-> v]]
    /\ UNCHANGED <<rows, mail, retired, looked, crossed>>

\* The unique index is on (user_id, participant_b_id), one way only: a violation of
\* it is the caller's 500, the same pair the other way round is a second row.
Insert(c) ==
    LET u == opening[c].by  v == opening[c].with IN
    /\ opening[c].pc = "insert"
    /\ rows' = IF \E r \in rows : r.kind = Human /\ r.user = u /\ r.peer = v
               THEN rows
               ELSE rows \cup {[id |-> c, kind |-> Human, user |-> u, peer |-> v]}
    /\ opening' = [opening EXCEPT ![c].pc = "done"]
    /\ crossed' = (crossed \/ \E d \in Opens \ {c} :
           opening[d].pc = "insert" /\ opening[d].by = v /\ opening[d].with = u)
    /\ UNCHANGED <<mail, retired, looked>>

-----------------------------------------------------------------------------
(* Messages *)

Put(r, role, sender) ==
    LET id == Cardinality(DOMAIN mail) + 1 IN
    /\ id <= MaxMail
    /\ mail' = [m \in 1..id |-> IF m \in DOMAIN mail THEN mail[m] ELSE
           [conv |-> r.id, role |-> role, sender |-> sender, read |-> FALSE]]
    /\ UNCHANGED <<rows, retired, opening, looked, crossed>>

\* send_human_message: 400 for another kind of conversation, 403 for a stranger.
\* A repeated client_message_id stores nothing, which is no step here.
SendHuman(u, r) == r.kind = Human /\ u \in {r.user, r.peer} /\ Put(r, "user", u)

\* What chat.py, proactive.py and creator_takeover.py store in an AI conversation.
SendAi(r) ==
    /\ r.kind = "ai_chat"
    /\ Put(r, "user", r.user) \/ Put(r, "assistant", Bot) \/ Put(r, "system", Owner)

\* _can_access_conversation
CanAccess(u, r) == u \in {r.user, r.peer} \/ (r.kind = "ai_chat" /\ u = Owner)

\* The messages the viewer did not send: what a read marks and count_unread counts.
Unread(r, viewer) ==
    {m \in DOMAIN mail : mail[m].conv = r.id /\ ~mail[m].read /\ mail[m].sender # viewer}

OtherParty(r, u) == IF r.user = u THEN r.peer ELSE r.user

\* POST /conversations/{id}/read
MarkRead(u, r) ==
    /\ CanAccess(u, r)
    /\ mail' = [m \in DOMAIN mail |-> [mail[m] EXCEPT !.read = @ \/ m \in Unread(r, u)]]
    /\ looked' = looked \cup {m \in DOMAIN mail :
           mail[m].conv = r.id /\ r.kind = Human /\ mail[m].sender = OtherParty(r, u)}
    /\ UNCHANGED <<rows, retired, opening, crossed>>

\* soft_delete of the bot; its conversations stay.
Retire == ~retired /\ retired' = TRUE /\ UNCHANGED <<rows, mail, opening, looked, crossed>>

Next ==
    \/ Retire
    \/ \E c \in Opens : Insert(c) \/ \E u, v \in Users : Lookup(c, u, v)
    \/ \E r \in rows :
        \/ SendAi(r)
        \/ \E u \in Users : SendHuman(u, r)
        \/ \E u \in Users \cup {Bot, Owner} : MarkRead(u, r)
Spec == Init /\ [][Next]_inboxVars

-----------------------------------------------------------------------------
(* The lists and their badges *)

IsParty(u, r) == r.kind = Human /\ u \in {r.user, r.peer}

\* list_by_user and count_by_user: v1, and v2 for a person.
UnifiedList(u) ==
    {r \in rows : \/ r.kind = "ai_chat" /\ r.user = u /\ ~retired
                  \/ IsParty(u, r)}
UnifiedBadge(r, u) ==
    {m \in DOMAIN mail : mail[m].conv = r.id /\ ~mail[m].read /\
        \/ r.kind = "ai_chat" /\ mail[m].role = "assistant"
        \/ r.kind = Human /\ mail[m].sender # u}

\* list_unified_conversations: v3.
ListV3(u) == {r \in rows : (r.kind = "ai_chat" /\ r.user = u /\ ~retired) \/ IsParty(u, r)}
BadgeV3(r, u) == Unread(r, u)

\* list_human_conversations
HumanList(u) == {r \in rows : IsParty(u, r)}

\* list_by_influencer: v2 for a bot.
BotList == {r \in rows : r.peer = Bot}
BotBadge(r) ==
    {m \in DOMAIN mail : mail[m].conv = r.id /\ ~mail[m].read /\ mail[m].role = "user"}

-----------------------------------------------------------------------------
\* Two people have one conversation, unless they opened it at the same moment from
\* both ends, which no index forbids (human_chat.py:78-116).
OnePerPair ==
    \A r, s \in rows :
        r.kind = Human /\ s.kind = Human /\ {r.user, r.peer} = {s.user, s.peer} => r = s \/ crossed

\* A message between two people is marked read only after the other one asked for it
\* (message_repo.mark_as_read, "mark messages I didn't send as read").
ReceiptsAreHonest ==
    \A r \in rows, m \in DOMAIN mail :
        r.kind = Human /\ mail[m].conv = r.id /\ mail[m].read => m \in looked

\* Whoever reads a conversation to the end has no badge left for it in any inbox,
\* although each inbox counts in its own way (count_unread, the three lists).
ReadClearsBadges ==
    \A r \in rows, u \in Users :
        /\ r \in UnifiedList(u) /\ Unread(r, u) = {} => UnifiedBadge(r, u) = {}
        /\ r \in BotList /\ Unread(r, Bot) = {} => BotBadge(r) = {}

\* The three inboxes of a person list the same conversations and give each
\* conversation between people the same badge, and both people see it.
InboxesAgree ==
    /\ \A u \in Users :
        /\ UnifiedList(u) = ListV3(u)
        /\ HumanList(u) = {r \in UnifiedList(u) : r.kind = Human}
        /\ \A r \in HumanList(u) : UnifiedBadge(r, u) = BadgeV3(r, u)
    /\ \A r \in rows : r.kind = Human => r \in HumanList(r.user) \cap HumanList(r.peer)

\* What the inboxes of everybody promise together.
InboxIsSound == OnePerPair /\ ReceiptsAreHonest /\ ReadClearsBadges /\ InboxesAgree
=============================================================================
