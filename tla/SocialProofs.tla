----------------------------- MODULE SocialProofs -----------------------------
(***************************************************************************)
(* Proofs about what a user of the app meets around the chat, for all      *)
(* constants of MCSocial: the inboxes, the streak of days, the sockets,    *)
(* the web sign-in, the set-up of a skill and the markers hidden from a    *)
(* reply, the memories that are kept and not recited too often; for any    *)
(* number of people, calls, processes, devices, events, facts and days.    *)
(***************************************************************************)
EXTENDS MCSocial, ChatProofs, Sequences, TLAPS, FiniteSetTheorems, WellFoundedInduction, SequenceTheorems

-----------------------------------------------------------------------------
(* Inbox.                                                                  *)

IsHuman(r) == r.kind = Mail!Human

\* Whose rows they are: one for each user and the bot, one for each call that stored one.
RowsAreKnown ==
    \A r \in rows:
        \/ IsHuman(r) /\ r.id \in Opens /\ opening[r.id].pc = "done" /\ r.peer \in Users
        \/ r.kind = "ai_chat" /\ r.id = r.user /\ r.peer = Bot
RowsAreApart == \A r, s \in rows: r.id = s.id => r = s
PairsAreApart ==
    \A r, s \in rows: IsHuman(r) /\ IsHuman(s) /\ r.user = s.user /\ r.peer = s.peer => r = s
\* The same two the other way round, in the table or about to be.
Facing(R, u, v) == \E r \in R: IsHuman(r) /\ r.user = v /\ r.peer = u
RacesAreSeen ==
    /\ \A r \in rows: IsHuman(r) /\ Facing(rows, r.user, r.peer) => crossed
    /\ \A c \in Opens: opening[c].pc = "insert" =>
          opening[c].by # opening[c].with /\ (Facing(rows, opening[c].by, opening[c].with) => crossed)
    /\ \A r \in rows: IsHuman(r) => r.user # r.peer

\* Who writes what into which conversation.
Writes(r, m) ==
    IF IsHuman(r) THEN m.role = "user" /\ m.sender \in {r.user, r.peer}
    ELSE \/ m.role = "user" /\ m.sender = r.user
         \/ m.role = "assistant" /\ m.sender = Bot
         \/ m.role = "system" /\ m.sender = Owner
MailIsPlaced ==
    \A m \in DOMAIN mail: \E r \in rows: mail[m].conv = r.id /\ Writes(r, mail[m])
MailIsNumbered == \E n \in 0..MaxMail: DOMAIN mail = 1..n

InboxInv ==
    /\ Mail!TypeOK /\ RowsAreKnown /\ RowsAreApart /\ PairsAreApart /\ RacesAreSeen
    /\ MailIsPlaced /\ MailIsNumbered /\ Mail!ReceiptsAreHonest

LEMMA InboxInit ==
    ASSUME Mail!InboxAssumption, Mail!Init
    PROVE  InboxInv
<1> USE DEF Mail!InboxAssumption, Mail!Init
<1>0. DOMAIN mail = {} /\ DOMAIN mail = 1..0
  OBVIOUS
<1>1. rows \subseteq Mail!Row /\ opening \in [Opens -> Mail!Call \cup {Mail!NoCall}]
  BY DEF Mail!Row
<1>1a. Mail!TypeOK
  BY <1>0, <1>1 DEF Mail!TypeOK
<1>2. RowsAreKnown /\ RowsAreApart /\ PairsAreApart /\ RacesAreSeen
  BY DEF RowsAreKnown, RowsAreApart, PairsAreApart, RacesAreSeen, IsHuman, Mail!Human, Facing, Mail!NoCall
<1>3. MailIsPlaced /\ MailIsNumbered /\ Mail!ReceiptsAreHonest
  BY <1>0 DEF MailIsPlaced, MailIsNumbered, Mail!ReceiptsAreHonest
<1> QED
  BY <1>1a, <1>2, <1>3 DEF InboxInv

LEMMA LookupStep ==
    ASSUME Mail!InboxAssumption, InboxInv, NEW c \in Opens, NEW u \in Users, NEW v \in Users, Mail!Lookup(c, u, v)
    PROVE  InboxInv'
<1> DEFINE there == \E r \in rows: Mail!Between(r, u, v)
           call == [pc |-> IF there THEN "done" ELSE "insert", by |-> u, with |-> v]
<1>1. call \in Mail!Call /\ (call.pc = "insert" <=> ~there) /\ call.by = u /\ call.with = v
  BY DEF Mail!Call
<1>2. opening' = [opening EXCEPT ![c] = call] /\ UNCHANGED <<rows, mail, retired, looked, crossed>> /\ u # v
  BY DEF Mail!Lookup
<1> HIDE DEF call
<1>3. opening' \in [Opens -> Mail!Call \cup {Mail!NoCall}] /\ opening'[c] = call
      /\ \A d \in Opens \ {c}: opening'[d] = opening[d]
  BY <1>1, <1>2 DEF InboxInv, Mail!TypeOK
<1>4. Mail!TypeOK'
  BY <1>2, <1>3 DEF InboxInv, Mail!TypeOK
<1>5. RowsAreKnown'
  BY <1>2, <1>3 DEF InboxInv, RowsAreKnown, Mail!Lookup, Mail!NoCall
<1>6. Facing(rows, u, v) => there
  BY DEF Facing, Mail!Between, IsHuman, Mail!Human
<1>7. RacesAreSeen'
  BY <1>1, <1>2, <1>3, <1>6 DEF InboxInv, RacesAreSeen, Facing
<1> QED
  BY <1>2, <1>4, <1>5, <1>7 DEF InboxInv, RowsAreApart, PairsAreApart, MailIsPlaced, MailIsNumbered,
     Mail!ReceiptsAreHonest

LEMMA InsertStep ==
    ASSUME Mail!InboxAssumption, InboxInv, NEW c \in Opens, Mail!Insert(c)
    PROVE  InboxInv'
<1> DEFINE u == opening[c].by
           v == opening[c].with
           new == [id |-> c, kind |-> Mail!Human, user |-> u, peer |-> v]
           there == \E r \in rows: IsHuman(r) /\ r.user = u /\ r.peer = v
<1>1. opening[c] \in Mail!Call /\ u \in Users /\ v \in Users /\ u # v /\ opening[c].pc = "insert"
  BY DEF InboxInv, Mail!TypeOK, Mail!Call, Mail!NoCall, Mail!Insert, RacesAreSeen
<1>2. /\ rows' = (IF there THEN rows ELSE rows \cup {new})
      /\ opening' = [opening EXCEPT ![c].pc = "done"]
      /\ UNCHANGED <<mail, retired, looked>>
      /\ crossed' = (crossed \/ \E d \in Opens \ {c}:
             opening[d].pc = "insert" /\ opening[d].by = v /\ opening[d].with = u)
  BY DEF Mail!Insert, IsHuman
<1>3. /\ opening' \in [Opens -> Mail!Call \cup {Mail!NoCall}] /\ opening'[c].pc = "done"
      /\ \A d \in Opens \ {c}: opening'[d] = opening[d]
  BY <1>1, <1>2 DEF InboxInv, Mail!TypeOK, Mail!Call
<1>4. /\ new \in Mail!Row /\ IsHuman(new) /\ new.id = c /\ new.user = u /\ new.peer = v
  BY <1>1 DEF Mail!Row, IsHuman, Mail!Human
<1> HIDE DEF new, there
<1>5. \A r \in rows: r.id # c
  BY <1>1 DEF InboxInv, RowsAreKnown, Mail!InboxAssumption, Mail!TypeOK, Mail!Row, IsHuman, Mail!Human
<1>6. Mail!TypeOK'
  BY <1>2, <1>3, <1>4 DEF InboxInv, Mail!TypeOK
<1>7. RowsAreKnown'
  BY <1>1, <1>2, <1>3, <1>4, <1>5 DEF InboxInv, RowsAreKnown
<1>8. RowsAreApart' /\ PairsAreApart'
  BY <1>2, <1>4, <1>5 DEF InboxInv, RowsAreApart, PairsAreApart, there
<1>9. RacesAreSeen'
  <2>1. \A a, b: Facing(rows', a, b) => Facing(rows, a, b) \/ (rows' # rows /\ a = v /\ b = u)
    BY <1>2, <1>4 DEF Facing
  <2>2. crossed => crossed'
    BY <1>2
  <2>3. Facing(rows, u, v) => crossed
    BY <1>1 DEF InboxInv, RacesAreSeen
  <2>4. \A r \in rows': IsHuman(r) /\ Facing(rows', r.user, r.peer) => crossed'
    <3> SUFFICES ASSUME NEW r \in rows', IsHuman(r), Facing(rows', r.user, r.peer)
                 PROVE  crossed'
      OBVIOUS
    <3>1. CASE r \in rows
      <4>1. CASE Facing(rows, r.user, r.peer)
        BY <2>2, <3>1, <4>1 DEF InboxInv, RacesAreSeen
      <4>2. CASE r.user = v /\ r.peer = u
        BY <2>2, <2>3, <3>1, <4>2 DEF Facing
      <4> QED
        BY <2>1, <4>1, <4>2
    <3>2. CASE r = new /\ r \notin rows
      BY <1>1, <1>4, <2>1, <2>2, <2>3, <3>2
    <3> QED
      BY <1>2, <3>1, <3>2
  <2>5. \A d \in Opens: opening'[d].pc = "insert" =>
            opening'[d].by # opening'[d].with /\ (Facing(rows', opening'[d].by, opening'[d].with) => crossed')
    <3> SUFFICES ASSUME NEW d \in Opens, opening'[d].pc = "insert"
                 PROVE  /\ opening'[d].by # opening'[d].with
                        /\ Facing(rows', opening'[d].by, opening'[d].with) => crossed'
      OBVIOUS
    <3>1. d # c /\ opening'[d] = opening[d] /\ opening[d].pc = "insert"
      BY <1>3
    <3>2. opening[d].by # opening[d].with /\ (Facing(rows, opening[d].by, opening[d].with) => crossed)
      BY <3>1 DEF InboxInv, RacesAreSeen
    <3>3. opening[d].by = v /\ opening[d].with = u => crossed'
      BY <1>2, <3>1
    <3> QED
      BY <2>1, <2>2, <3>1, <3>2, <3>3
  <2>6. \A r \in rows': IsHuman(r) => r.user # r.peer
    BY <1>1, <1>2, <1>4 DEF InboxInv, RacesAreSeen
  <2> QED
    BY <2>4, <2>5, <2>6 DEF RacesAreSeen
<1>10. MailIsPlaced' /\ MailIsNumbered' /\ Mail!ReceiptsAreHonest'
  <2>1. MailIsPlaced'
    BY <1>2 DEF InboxInv, MailIsPlaced
  <2>2. \A m \in DOMAIN mail: mail[m].conv # c
    BY <1>5 DEF InboxInv, MailIsPlaced
  <2>3. Mail!ReceiptsAreHonest'
    BY <1>2, <1>4, <2>2 DEF InboxInv, Mail!ReceiptsAreHonest
  <2> QED
    BY <1>2, <2>1, <2>3 DEF InboxInv, MailIsNumbered
<1> QED
  BY <1>6, <1>7, <1>8, <1>9, <1>10 DEF InboxInv

LEMMA PutStep ==
    ASSUME Mail!InboxAssumption, InboxInv, NEW r \in rows, NEW role \in {"user", "assistant", "system"},
           NEW sender \in Users \cup {Bot, Owner}, Writes(r, [role |-> role, sender |-> sender]),
           Mail!Put(r, role, sender)
    PROVE  InboxInv'
<1> DEFINE new == [conv |-> r.id, role |-> role, sender |-> sender, read |-> FALSE]
<1>1. PICK n \in 0..MaxMail: DOMAIN mail = 1..n
  BY DEF InboxInv, MailIsNumbered
<1>2. n \in Nat /\ MaxMail \in Nat /\ Mail!Cardinality(1..n) = n
  <2>1. Mail!Cardinality(1..n) = Cardinality(1..n)
    BY DEF Mail!Cardinality, Cardinality
  <2> QED
    BY <2>1, FS_Interval DEF Mail!InboxAssumption
<1>3. /\ n + 1 <= MaxMail /\ UNCHANGED <<rows, retired, opening, looked, crossed>>
      /\ mail' = [m \in 1..(n + 1) |-> IF m \in 1..n THEN mail[m] ELSE new]
  BY <1>1, <1>2, Zenon DEF Mail!Put
<1>4. new \in Mail!Message /\ Writes(r, new) /\ new.conv = r.id /\ new.read = FALSE
  BY DEF Mail!Message, InboxInv, Mail!TypeOK, Mail!Row, Writes
<1> HIDE DEF new
<1>5. /\ DOMAIN mail' = 1..(n + 1) /\ DOMAIN mail \subseteq DOMAIN mail' /\ n + 1 \in 0..MaxMail
      /\ \A m \in DOMAIN mail: mail'[m] = mail[m]
      /\ \A m \in DOMAIN mail': m \in DOMAIN mail \/ mail'[m] = new
  BY <1>1, <1>2, <1>3
<1>6. Mail!TypeOK'
  <2>1. DOMAIN mail' \subseteq 1..MaxMail /\ looked' \subseteq DOMAIN mail'
    BY <1>2, <1>3, <1>5 DEF InboxInv, Mail!TypeOK
  <2>2. \A m \in DOMAIN mail': mail'[m] \in Mail!Message
    BY <1>4, <1>5 DEF InboxInv, Mail!TypeOK
  <2> QED
    BY <1>3, <2>1, <2>2 DEF InboxInv, Mail!TypeOK
<1>7. MailIsPlaced' /\ MailIsNumbered'
  BY <1>3, <1>4, <1>5 DEF InboxInv, MailIsPlaced, MailIsNumbered, Writes
<1>8. Mail!ReceiptsAreHonest'
  BY <1>3, <1>4, <1>5 DEF InboxInv, Mail!ReceiptsAreHonest
<1> QED
  BY <1>3, <1>6, <1>7, <1>8 DEF InboxInv, RowsAreKnown, RowsAreApart, PairsAreApart, RacesAreSeen, Facing

LEMMA MarkReadStep ==
    ASSUME Mail!InboxAssumption, InboxInv, NEW r \in rows, NEW u \in Users \cup {Bot, Owner}, Mail!MarkRead(u, r)
    PROVE  InboxInv'
<1>1. /\ mail' = [m \in DOMAIN mail |-> [mail[m] EXCEPT !.read = @ \/ m \in Mail!Unread(r, u)]]
      /\ looked' = looked \cup {m \in DOMAIN mail: mail[m].conv = r.id /\ IsHuman(r)
                                                   /\ mail[m].sender = Mail!OtherParty(r, u)}
      /\ UNCHANGED <<rows, retired, opening, crossed>> /\ Mail!CanAccess(u, r)
  BY DEF Mail!MarkRead, IsHuman
<1>2. /\ DOMAIN mail' = DOMAIN mail
      /\ \A m \in DOMAIN mail:
            /\ mail'[m] \in Mail!Message /\ mail'[m].conv = mail[m].conv
            /\ mail'[m].role = mail[m].role /\ mail'[m].sender = mail[m].sender
            /\ mail'[m].read => mail[m].read \/ m \in Mail!Unread(r, u)
  <2> SUFFICES ASSUME NEW m \in DOMAIN mail
               PROVE  /\ mail'[m] \in Mail!Message /\ mail'[m].conv = mail[m].conv
                      /\ mail'[m].role = mail[m].role /\ mail'[m].sender = mail[m].sender
                      /\ mail'[m].read => mail[m].read \/ m \in Mail!Unread(r, u)
    BY <1>1
  <2>1. mail[m] \in Mail!Message
    BY DEF InboxInv, Mail!TypeOK
  <2>2. mail'[m] = [mail[m] EXCEPT !.read = @ \/ m \in Mail!Unread(r, u)]
    BY <1>1
  <2>3. (mail[m].read \/ m \in Mail!Unread(r, u)) \in BOOLEAN
    BY <2>1
  <2> QED
    BY <2>1, <2>2, <2>3 DEF Mail!Message
<1>3. Mail!TypeOK'
  BY <1>1, <1>2 DEF InboxInv, Mail!TypeOK
<1>4. MailIsPlaced' /\ MailIsNumbered'
  <2>1. \A m \in DOMAIN mail: \A s \in rows: Writes(s, mail[m]) => Writes(s, mail'[m])
    BY <1>2 DEF Writes
  <2>2. MailIsPlaced'
    <3> SUFFICES ASSUME NEW m \in DOMAIN mail
                 PROVE  \E s \in rows: mail'[m].conv = s.id /\ Writes(s, mail'[m])
      BY <1>1, <1>2 DEF MailIsPlaced
    <3>1. PICK s \in rows: mail[m].conv = s.id /\ Writes(s, mail[m])
      BY DEF InboxInv, MailIsPlaced
    <3>2. Writes(s, mail'[m])
      BY <2>1, <3>1
    <3>3. mail'[m].conv = s.id
      BY <1>2, <3>1
    <3> QED
      BY <3>2, <3>3
  <2> QED
    BY <1>2, <2>2 DEF InboxInv, MailIsNumbered
<1>5. Mail!ReceiptsAreHonest'
  <2> SUFFICES ASSUME NEW s \in rows, NEW m \in DOMAIN mail, IsHuman(s), mail[m].conv = s.id, mail'[m].read
               PROVE  m \in looked'
    BY <1>1, <1>2 DEF Mail!ReceiptsAreHonest, IsHuman
  <2>1. CASE mail[m].read
    BY <1>1, <2>1 DEF InboxInv, Mail!ReceiptsAreHonest, IsHuman
  <2>2. CASE m \in Mail!Unread(r, u)
    <3>1. mail[m].conv = r.id /\ mail[m].sender # u
      BY <2>2 DEF Mail!Unread
    <3>2. r = s
      BY <3>1 DEF InboxInv, RowsAreApart
    <3>3. mail[m].sender \in {r.user, r.peer}
      BY <3>2 DEF InboxInv, MailIsPlaced, RowsAreApart, Writes
    <3>4. u \in {r.user, r.peer}
      BY <1>1, <3>2 DEF Mail!CanAccess, IsHuman, Mail!Human
    <3>5. mail[m].sender = Mail!OtherParty(r, u)
      BY <3>1, <3>3, <3>4 DEF Mail!OtherParty
    <3> QED
      BY <1>1, <3>1, <3>2, <3>5
  <2> QED
    BY <1>2, <2>1, <2>2
<1> QED
  BY <1>1, <1>3, <1>4, <1>5 DEF InboxInv, RowsAreKnown, RowsAreApart, PairsAreApart, RacesAreSeen, Facing

LEMMA InboxInductive ==
    ASSUME Mail!InboxAssumption
    PROVE  Mail!Spec => []InboxInv
<1>1. InboxInv /\ [Mail!Next]_Mail!inboxVars => InboxInv'
  <2> SUFFICES ASSUME InboxInv, [Mail!Next]_Mail!inboxVars
               PROVE  InboxInv'
    OBVIOUS
  <2>1. ASSUME UNCHANGED <<rows, mail, opening, looked, crossed>>, retired' \in BOOLEAN
        PROVE  InboxInv'
    BY <2>1 DEF InboxInv, Mail!TypeOK, RowsAreKnown, RowsAreApart, PairsAreApart, RacesAreSeen, Facing,
       MailIsPlaced, MailIsNumbered, Mail!ReceiptsAreHonest
  <2>2. CASE Mail!Retire \/ UNCHANGED Mail!inboxVars
    BY <2>1, <2>2 DEF Mail!Retire, Mail!inboxVars, InboxInv, Mail!TypeOK
  <2>3. ASSUME NEW r \in rows, NEW u \in Users, Mail!SendHuman(u, r)
        PROVE  InboxInv'
    BY <2>3, PutStep DEF Mail!SendHuman, Writes, IsHuman
  <2>4. ASSUME NEW r \in rows, Mail!SendAi(r)
        PROVE  InboxInv'
    <3>1. ~IsHuman(r) /\ r.user \in Users
      BY <2>4 DEF Mail!SendAi, IsHuman, Mail!Human, InboxInv, Mail!TypeOK, Mail!Row
    <3> QED
      BY <2>4, <3>1, PutStep DEF Mail!SendAi, Writes
  <2> QED
    BY <2>2, <2>3, <2>4, LookupStep, InsertStep, MarkReadStep DEF Mail!Next
<1> QED
  BY <1>1, InboxInit, PTL DEF Mail!Spec

\* human_chat.py, message_repo.mark_as_read, and the queries of the three lists: however
\* calls, messages and reads interleave, two people have one conversation unless they opened
\* it from both ends at once, a receipt is true, a read conversation has no badge left in any
\* list, and the lists agree.
THEOREM InboxesStaySound ==
    ASSUME Mail!InboxAssumption
    PROVE  Mail!Spec => []InboxIsSound
<1>1. ASSUME InboxInv
      PROVE  Mail!InboxIsSound
  <2>1. Mail!OnePerPair
    <3> SUFFICES ASSUME NEW r \in rows, NEW s \in rows, IsHuman(r), IsHuman(s),
                        {r.user, r.peer} = {s.user, s.peer}, r # s
                 PROVE  crossed
      BY DEF Mail!OnePerPair, IsHuman
    <3>1. s.user = r.peer /\ s.peer = r.user
      BY <1>1 DEF InboxInv, PairsAreApart
    <3> QED
      BY <1>1, <3>1 DEF InboxInv, RacesAreSeen, Facing
  <2>2. \A r \in rows, m \in DOMAIN mail: mail[m].conv = r.id => Writes(r, mail[m])
    BY <1>1 DEF InboxInv, MailIsPlaced, RowsAreApart
  <2>3. \A r \in rows: r.peer = Bot => ~IsHuman(r) /\ r.user # Bot
    BY <1>1 DEF InboxInv, RowsAreKnown, IsHuman, Mail!Human, Mail!InboxAssumption, Mail!TypeOK, Mail!Row
  <2>4. Mail!ReadClearsBadges
    <3>1. ASSUME NEW r \in rows, NEW u \in Users, Mail!Unread(r, u) = {}
          PROVE  Mail!UnifiedBadge(r, u) = {}
      BY <2>2, <3>1 DEF Mail!Unread, Mail!UnifiedBadge, Writes, IsHuman, Mail!Human, Mail!InboxAssumption
    <3>2. ASSUME NEW r \in rows, r.peer = Bot, Mail!Unread(r, Bot) = {}
          PROVE  Mail!BotBadge(r) = {}
      BY <2>2, <2>3, <3>2 DEF Mail!Unread, Mail!BotBadge, Writes
    <3> QED
      BY <3>1, <3>2 DEF Mail!ReadClearsBadges, Mail!UnifiedList, Mail!BotList
  <2>5. Mail!InboxesAgree
    BY DEF Mail!InboxesAgree, Mail!UnifiedList, Mail!ListV3, Mail!HumanList, Mail!IsParty, Mail!UnifiedBadge,
       Mail!BadgeV3, Mail!Unread, Mail!Human
  <2> QED
    BY <1>1, <2>1, <2>4, <2>5 DEF Mail!InboxIsSound, InboxInv
<1> QED
  BY <1>1, InboxInductive, PTL DEF InboxIsSound

-----------------------------------------------------------------------------
(* Handoff.                                                                *)

\* A live ticket is as it was minted, and not too old.
TicketsAreGood ==
    \A m \in DOMAIN tickets:
        /\ m \in DOMAIN minted /\ tickets[m].user = minted[m].user
        /\ tickets[m].until = minted[m].at + Ttl /\ redisClock < tickets[m].until
MintedOnce == \A m \in Mints: app[m] = "none" => m \notin DOMAIN minted
\* A ticket that signed somebody in is gone for good.
ServedAreGone ==
    \A x \in Exchanges: web[x].pc = "200" =>
        /\ web[x].ticket \in DOMAIN minted \ DOMAIN tickets
        /\ web[x].user = minted[web[x].ticket].user /\ web[x].at - minted[web[x].ticket].at < Ttl
        /\ \A y \in Exchanges: web[y].pc = "200" /\ web[y].ticket = web[x].ticket => x = y

HandoffInv == SignIn!TypeOK /\ TicketsAreGood /\ MintedOnce /\ ServedAreGone

LEMMA MintStep ==
    ASSUME SignIn!HandoffAssumption, HandoffInv, NEW m \in Mints, NEW u \in Users, SignIn!Mint(m, u)
    PROVE  HandoffInv'
<1> USE DEF HandoffInv
<1>1. CASE app' = [app EXCEPT ![m] = "503"] /\ UNCHANGED <<tickets, minted>>
  BY <1>1 DEF SignIn!Mint, SignIn!TypeOK, TicketsAreGood, MintedOnce, ServedAreGone
<1>2. CASE app' = [app EXCEPT ![m] = u]
  <2> DEFINE ticket == [user |-> u, until |-> redisClock + Ttl]
             mint == [user |-> u, at |-> redisClock]
  <2>1. /\ app[m] = "none" /\ UNCHANGED <<web, redisClock>>
        /\ tickets' = [t \in DOMAIN tickets \cup {m} |-> IF t = m THEN ticket ELSE tickets[t]]
        /\ minted' = [t \in DOMAIN minted \cup {m} |-> IF t = m THEN mint ELSE minted[t]]
    BY <1>2 DEF SignIn!Mint, SignIn!TypeOK, SignIn!HandoffAssumption
  <2>2. /\ ticket \in [user: Users, until: Nat] /\ mint \in [user: Users, at: Nat] /\ redisClock \in Nat
        /\ ticket.user = mint.user /\ ticket.until = mint.at + Ttl /\ redisClock < ticket.until
    BY DEF SignIn!TypeOK, SignIn!HandoffAssumption
  <2> HIDE DEF ticket, mint
  <2>3. m \notin DOMAIN minted /\ m \notin DOMAIN tickets
    BY <2>1 DEF MintedOnce, TicketsAreGood
  <2>4. /\ DOMAIN tickets' = DOMAIN tickets \cup {m} /\ tickets'[m] = ticket
        /\ DOMAIN minted' = DOMAIN minted \cup {m} /\ minted'[m] = mint
        /\ \A t \in DOMAIN tickets: tickets'[t] = tickets[t]
        /\ \A t \in DOMAIN minted: minted'[t] = minted[t]
    BY <2>1, <2>3
  <2>5. SignIn!TypeOK'
    BY <1>2, <2>1, <2>2, <2>4 DEF SignIn!TypeOK
  <2>6. TicketsAreGood'
    BY <2>1, <2>2, <2>4 DEF TicketsAreGood
  <2>7. app'[m] # "none" /\ \A t \in Mints \ {m}: app'[t] = app[t]
    BY <1>2 DEF SignIn!TypeOK, SignIn!HandoffAssumption
  <2>8. MintedOnce'
    BY <2>4, <2>7 DEF MintedOnce
  <2>9. ServedAreGone'
    BY <2>1, <2>3, <2>4 DEF ServedAreGone
  <2> QED
    BY <2>5, <2>6, <2>8, <2>9
<1> QED
  BY <1>1, <1>2 DEF SignIn!Mint

LEMMA ExchangeStep ==
    ASSUME SignIn!HandoffAssumption, HandoffInv, NEW x \in Exchanges, NEW m \in Mints, SignIn!Exchange(x, m)
    PROVE  HandoffInv'
<1> USE DEF HandoffInv
<1>0. UNCHANGED <<app, minted, redisClock>>
  BY DEF SignIn!Exchange
<1>1. ASSUME NEW answer, web' = [web EXCEPT ![x] = answer],
             answer = [pc |-> "401", ticket |-> m], SignIn!Take(m) \/ UNCHANGED tickets
      PROVE  HandoffInv'
  <2>1. web' \in [Exchanges -> {SignIn!Pending} \cup SignIn!Refused \cup SignIn!SignedIn]
    BY <1>1 DEF SignIn!TypeOK, SignIn!Refused
  <2>2. DOMAIN tickets' \subseteq DOMAIN tickets /\ \A t \in DOMAIN tickets': tickets'[t] = tickets[t]
    BY <1>1 DEF SignIn!Take
  <2>3. \A y \in Exchanges: web'[y].pc = "200" => web'[y] = web[y]
    BY <1>1 DEF SignIn!TypeOK
  <2>4. SignIn!TypeOK' /\ TicketsAreGood' /\ MintedOnce'
    BY <1>0, <2>1, <2>2 DEF SignIn!TypeOK, TicketsAreGood, MintedOnce
  <2>5. ServedAreGone'
    BY <1>0, <2>2, <2>3 DEF ServedAreGone
  <2> QED
    BY <2>4, <2>5
<1>2. CASE /\ m \in DOMAIN tickets /\ SignIn!Take(m)
           /\ web' = [web EXCEPT ![x] = [pc |-> "200", ticket |-> m, user |-> tickets[m].user, at |-> redisClock]]
  <2> DEFINE answer == [pc |-> "200", ticket |-> m, user |-> tickets[m].user, at |-> redisClock]
  <2>1. /\ answer \in SignIn!SignedIn /\ answer.ticket = m /\ answer.user = tickets[m].user /\ answer.at = redisClock
        /\ web' = [web EXCEPT ![x] = answer]
    BY <1>2 DEF SignIn!TypeOK, SignIn!SignedIn
  <2> HIDE DEF answer
  <2>2. /\ web' \in [Exchanges -> {SignIn!Pending} \cup SignIn!Refused \cup SignIn!SignedIn]
        /\ web'[x] = answer /\ \A y \in Exchanges \ {x}: web'[y] = web[y]
    BY <2>1 DEF SignIn!TypeOK
  <2>3. DOMAIN tickets' = DOMAIN tickets \ {m} /\ \A t \in DOMAIN tickets': tickets'[t] = tickets[t]
    BY <1>2 DEF SignIn!Take
  <2>4. SignIn!TypeOK' /\ TicketsAreGood' /\ MintedOnce'
    BY <1>0, <2>2, <2>3 DEF SignIn!TypeOK, TicketsAreGood, MintedOnce
  <2>5. redisClock - minted[m].at < Ttl /\ m \in DOMAIN minted /\ tickets[m].user = minted[m].user
    BY <1>2 DEF TicketsAreGood, SignIn!TypeOK, SignIn!HandoffAssumption
  <2>6. \A y \in Exchanges: web[y].pc = "200" => web[y].ticket # m
    BY <1>2 DEF ServedAreGone
  <2>7. ServedAreGone'
    BY <1>0, <2>1, <2>2, <2>3, <2>5, <2>6 DEF ServedAreGone
  <2> QED
    BY <2>4, <2>7
<1> QED
  BY <1>1, <1>2 DEF SignIn!Exchange

LEMMA HandoffInductive ==
    ASSUME SignIn!HandoffAssumption
    PROVE  SignIn!Spec => []HandoffInv
<1>1. SignIn!Init => HandoffInv
  BY DEF SignIn!Init, HandoffInv, SignIn!TypeOK, TicketsAreGood, MintedOnce, ServedAreGone, SignIn!Pending,
     SignIn!HandoffAssumption
<1>2. HandoffInv /\ [SignIn!Next]_SignIn!handoffVars => HandoffInv'
  <2> SUFFICES ASSUME HandoffInv, [SignIn!Next]_SignIn!handoffVars
               PROVE  HandoffInv'
    OBVIOUS
  <2>1. CASE SignIn!Tick
    <3>1. DOMAIN tickets' = DOMAIN tickets \ SignIn!Expired /\ \A t \in DOMAIN tickets': tickets'[t] = tickets[t]
      BY <2>1 DEF SignIn!Tick
    <3>2. \A t \in DOMAIN tickets': redisClock + 1 < tickets[t].until
      BY <3>1 DEF SignIn!Expired, HandoffInv, SignIn!TypeOK
    <3>3. redisClock' = redisClock + 1 /\ redisClock' \in 0..LastTick /\ UNCHANGED <<app, web, minted>>
      BY <2>1 DEF SignIn!Tick, HandoffInv, SignIn!TypeOK, SignIn!HandoffAssumption
    <3>4. SignIn!TypeOK' /\ TicketsAreGood' /\ MintedOnce'
      BY <3>1, <3>2, <3>3 DEF HandoffInv, SignIn!TypeOK, TicketsAreGood, MintedOnce
    <3>5. ServedAreGone'
      BY <3>1, <3>3 DEF HandoffInv, ServedAreGone
    <3> QED
      BY <3>4, <3>5 DEF HandoffInv
  <2>2. CASE UNCHANGED SignIn!handoffVars
    BY <2>2 DEF SignIn!handoffVars, HandoffInv, SignIn!TypeOK, TicketsAreGood, MintedOnce, ServedAreGone
  <2> QED
    BY <2>1, <2>2, MintStep, ExchangeStep DEF SignIn!Next
<1> QED
  BY <1>1, <1>2, PTL DEF SignIn!Spec

\* spicy_handoff.py:122 "Redeem a ticket exactly once": however many exchanges of one ticket
\* race, at most one signs in, as the user who minted it and before it is Ttl old.
THEOREM TicketsRedeemedOnce ==
    ASSUME SignIn!HandoffAssumption
    PROVE  SignIn!Spec => []SignIn!RedeemedOnce
<1>1. HandoffInv => SignIn!RedeemedOnce
  BY DEF HandoffInv, ServedAreGone, SignIn!RedeemedOnce
<1> QED
  BY <1>1, HandoffInductive, PTL

-----------------------------------------------------------------------------
(* Sockets.                                                                *)

Channel == [queue: Seq(Events), on: BOOLEAN]
Waits(p, e) == \E i \in DOMAIN heard[p].queue: heard[p].queue[i] = e
Extra(e) == IF e \in twice THEN 1 ELSE 0

\* A device has one socket, and a queue holds an event once.
OneSocket == \A p, q \in Hosts: p # q => conns[p] \cap conns[q] = {}
QueuesAreDistinct ==
    \A p \in Hosts: \A i, j \in DOMAIN heard[p].queue: heard[p].queue[i] = heard[p].queue[j] => i = j
\* What has not been sent has reached nobody; what is being closed went out once.
NewIsUnheard ==
    \A e \in Events:
        /\ sent[e] = "new" => (\A d \in Phones: got[d][e] = 0) /\ \A p \in Hosts: ~Waits(p, e)
        /\ sent[e] \in {"new"} \cup Hosts => e \notin twice
WaitingIsUnheard ==
    \A p \in Hosts, e \in Events: Waits(p, e) => \A d \in conns[p]: got[d][e] <= Extra(e)

SocketsInv ==
    /\ Net!TypeOK /\ OneSocket /\ QueuesAreDistinct /\ NewIsUnheard /\ WaitingIsUnheard
    /\ \A d \in Phones, e \in Events: got[d][e] <= 1 + Extra(e)

\* What _send_to_user_local does.
LEMMA SendLocalEffect ==
    ASSUME Net!TypeOK, NEW p \in Hosts, NEW e \in Events, Net!SendLocal(p, e)
    PROVE  /\ got' \in [Phones -> [Events -> Nat]] /\ conns' \in [Hosts -> SUBSET Phones]
           /\ \A q \in Hosts: conns'[q] \subseteq conns[q]
           /\ \A d \in Phones, x \in Events:
                 /\ x # e \/ d \notin conns[p] => got'[d][x] = got[d][x]
                 /\ got'[d][e] \in {got[d][e], got[d][e] + 1}
<1>1. /\ conns' \in [Hosts -> SUBSET Phones] /\ \A q \in Hosts: conns'[q] \subseteq conns[q]
  BY DEF Net!TypeOK, Net!SendLocal
<1>2. \A d \in Phones: got'[d] = IF d \in conns[p] \cap alive THEN [got[d] EXCEPT ![e] = @ + 1] ELSE got[d]
  BY DEF Net!SendLocal
<1>3. \A d \in Phones: got[d] \in [Events -> Nat]
  BY DEF Net!TypeOK
<1>4. \A d \in Phones: got'[d] \in [Events -> Nat]
  <2> SUFFICES ASSUME NEW d \in Phones
               PROVE  got'[d] \in [Events -> Nat]
    OBVIOUS
  <2>1. got[d] \in [Events -> Nat] /\ got[d][e] + 1 \in Nat
    BY <1>3
  <2>2. [got[d] EXCEPT ![e] = @ + 1] \in [Events -> Nat]
    BY <2>1
  <2> QED
    BY <1>2, <2>1, <2>2
<1>5. got' \in [Phones -> [Events -> Nat]]
  BY <1>4 DEF Net!SendLocal
<1> QED
  BY <1>1, <1>2, <1>3, <1>5

LEMMA PublishStep ==
    ASSUME Net!SocketsAssumption, SocketsInv, NEW p \in Hosts, NEW e \in Events, Net!Publish(p, e)
    PROVE  SocketsInv'
<1> USE DEF SocketsInv
<1>0. sent[e] = "new" /\ UNCHANGED <<alive, redis, twice, outages>> /\ e \notin twice
      /\ (\A d \in Phones: got[d][e] = 0) /\ \A q \in Hosts: ~Waits(q, e)
  BY DEF Net!Publish, NewIsUnheard
<1>1. CASE /\ heard' = [q \in Hosts |-> IF heard[q].on THEN Net!Listening(Append(heard[q].queue, e)) ELSE Net!Dead]
           /\ sent' = [sent EXCEPT ![e] = p] /\ UNCHANGED <<conns, got>>
  <2>1. \A q \in Hosts:
            \/ /\ heard'[q] \in Channel /\ Len(heard'[q].queue) = Len(heard[q].queue) + 1
               /\ heard'[q].queue[Len(heard[q].queue) + 1] = e
               /\ \A i \in 1..Len(heard[q].queue): heard'[q].queue[i] = heard[q].queue[i]
            \/ heard'[q] \in Channel /\ heard'[q].queue = << >>
    <3> SUFFICES ASSUME NEW q \in Hosts
                 PROVE  \/ /\ heard'[q] \in Channel /\ Len(heard'[q].queue) = Len(heard[q].queue) + 1
                           /\ heard'[q].queue[Len(heard[q].queue) + 1] = e
                           /\ \A i \in 1..Len(heard[q].queue): heard'[q].queue[i] = heard[q].queue[i]
                        \/ heard'[q] \in Channel /\ heard'[q].queue = << >>
      OBVIOUS
    <3> DEFINE s == heard[q].queue
    <3>1. s \in Seq(Events)
      BY DEF Net!TypeOK
    <3> HIDE DEF s
    <3>2. /\ Append(s, e) \in Seq(Events) /\ Len(Append(s, e)) = Len(s) + 1 /\ Append(s, e)[Len(s) + 1] = e
          /\ \A i \in 1..Len(s): Append(s, e)[i] = s[i]
      BY <3>1
    <3>3. << >> \in Seq(Events)
      OBVIOUS
    <3>4. heard'[q] = IF heard[q].on THEN Net!Listening(Append(s, e)) ELSE Net!Dead
      BY <1>1 DEF s
    <3> HIDE <3>1
    <3> QED
      BY <3>2, <3>3, <3>4 DEF Net!Listening, Net!Dead, Channel, s
  <2>2. \A q \in Hosts, x \in Events: Waits(q, x)' => Waits(q, x) \/ x = e
    <3> SUFFICES ASSUME NEW q \in Hosts, NEW x \in Events, NEW i \in DOMAIN heard'[q].queue,
                        heard'[q].queue[i] = x, x # e
                 PROVE  Waits(q, x)
      BY DEF Waits
    <3>1. heard[q].queue \in Seq(Events) /\ heard'[q].queue \in Seq(Events)
      BY <2>1 DEF Net!TypeOK, Channel
    <3>2. i \in 1..Len(heard[q].queue)
      BY <2>1, <3>1
    <3>3. heard[q].queue[i] = x
      BY <2>1, <3>1, <3>2
    <3> QED
      BY <3>1, <3>2, <3>3 DEF Waits
  <2>3. heard' \in [Hosts -> Channel] /\ sent' \in [Events -> {"new", "out"} \cup Hosts]
        /\ sent'[e] = p /\ \A x \in Events \ {e}: sent'[x] = sent[x]
    BY <1>1, <2>1 DEF Net!TypeOK
  <2>4. Net!TypeOK' /\ OneSocket'
    BY <1>0, <1>1, <2>3 DEF Net!TypeOK, OneSocket, Channel
  <2>5. QueuesAreDistinct'
    <3> SUFFICES ASSUME NEW q \in Hosts, NEW i \in DOMAIN heard'[q].queue, NEW j \in DOMAIN heard'[q].queue,
                        heard'[q].queue[i] = heard'[q].queue[j]
                 PROVE  i = j
      BY DEF QueuesAreDistinct
    <3>1. heard[q].queue \in Seq(Events) /\ heard'[q].queue \in Seq(Events)
      BY <2>1 DEF Net!TypeOK, Channel
    <3>2. \A k \in 1..Len(heard[q].queue): heard[q].queue[k] # e
      BY <1>0, <3>1 DEF Waits
    <3> DEFINE s == heard[q].queue
               t == heard'[q].queue
               n == Len(s)
    <3>3. n \in Nat /\ i \in 1..Len(t) /\ j \in 1..Len(t)
      BY <3>1
    <3>4. \A k, l \in 1..n: s[k] = s[l] => k = l
      BY <3>1 DEF QueuesAreDistinct
    <3>5. /\ Len(t) = n + 1 /\ t[n + 1] = e /\ \A k \in 1..n: t[k] = s[k]
          \/ Len(t) = 0
      BY <2>1
    <3> HIDE DEF s, t, n
    <3>6. \A k \in 1..n: s[k] # e
      BY <3>2 DEF n, s
    <3>7. t[i] = t[j]
      BY DEF t
    <3> QED
      BY <3>3, <3>4, <3>5, <3>6, <3>7
  <2>6. NewIsUnheard'
    BY <1>0, <1>1, <2>2, <2>3 DEF NewIsUnheard, Net!SocketsAssumption
  <2>7. WaitingIsUnheard'
    <3> SUFFICES ASSUME NEW q \in Hosts, NEW x \in Events, Waits(q, x)', NEW d \in conns[q]
                 PROVE  got[d][x] <= Extra(x)
      BY <1>0, <1>1 DEF WaitingIsUnheard, Extra
    <3>1. CASE x = e
      BY <1>0, <3>1 DEF Extra, Net!TypeOK
    <3>2. CASE x # e
      BY <2>2, <3>2 DEF WaitingIsUnheard
    <3> QED
      BY <3>1, <3>2
  <2>8. \A d \in Phones, x \in Events: got'[d][x] <= 1 + Extra(x)'
    BY <1>0, <1>1 DEF Extra
  <2> QED
    BY <2>4, <2>5, <2>6, <2>7, <2>8
<1>2. CASE Net!SendLocal(p, e) /\ sent' = [sent EXCEPT ![e] = "out"] /\ UNCHANGED heard
  <2>1. sent' \in [Events -> {"new", "out"} \cup Hosts] /\ sent'[e] = "out" /\ \A x \in Events \ {e}: sent'[x] = sent[x]
    BY <1>2 DEF Net!TypeOK
  <2>2. Net!TypeOK' /\ OneSocket' /\ QueuesAreDistinct'
    BY <1>0, <1>2, <2>1, SendLocalEffect DEF Net!TypeOK, OneSocket, QueuesAreDistinct
  <2>3. \A q \in Hosts, x \in Events: Waits(q, x)' = Waits(q, x)
    BY <1>2 DEF Waits
  <2>4. NewIsUnheard'
    BY <1>0, <1>2, <2>1, <2>3, SendLocalEffect DEF NewIsUnheard, Net!SocketsAssumption
  <2>5. WaitingIsUnheard'
    <3> SUFFICES ASSUME NEW q \in Hosts, NEW x \in Events, Waits(q, x), NEW d \in conns'[q]
                 PROVE  got'[d][x] <= Extra(x)
      BY <1>0, <2>3 DEF WaitingIsUnheard, Extra
    <3>1. x # e
      BY <1>0
    <3>2. d \in conns[q] /\ d \in Phones
      BY <1>2, SendLocalEffect DEF Net!TypeOK
    <3>3. got'[d][x] = got[d][x]
      BY <1>2, <3>1, <3>2, SendLocalEffect
    <3> QED
      BY <3>2, <3>3 DEF WaitingIsUnheard
  <2>6. \A d \in Phones, x \in Events: got'[d][x] <= 1 + Extra(x)'
    BY <1>0, <1>2, SendLocalEffect DEF Extra
  <2> QED
    BY <2>2, <2>4, <2>5, <2>6
<1> QED
  BY <1>1, <1>2 DEF Net!Publish

LEMMA CloseStep ==
    ASSUME Net!SocketsAssumption, SocketsInv, NEW e \in Events, Net!Close(e)
    PROVE  SocketsInv'
<1> USE DEF SocketsInv
<1>1. /\ sent[e] \in Hosts /\ sent[e] # "new" /\ e \notin twice /\ UNCHANGED <<alive, redis, heard, outages>>
      /\ sent' \in [Events -> {"new", "out"} \cup Hosts] /\ sent'[e] = "out"
      /\ \A x \in Events \ {e}: sent'[x] = sent[x]
  BY DEF Net!Close, NewIsUnheard, Net!TypeOK, Net!SocketsAssumption
<1>2. \A q \in Hosts, x \in Events: Waits(q, x)' = Waits(q, x)
  BY <1>1 DEF Waits
<1>3. CASE UNCHANGED <<conns, got, twice>>
  <2>1. Net!TypeOK' /\ OneSocket' /\ QueuesAreDistinct'
    BY <1>1, <1>3 DEF Net!TypeOK, OneSocket, QueuesAreDistinct
  <2> QED
    BY <1>1, <1>2, <1>3, <2>1 DEF NewIsUnheard, WaitingIsUnheard, Extra, Net!SocketsAssumption
<1>4. CASE Net!SendLocal(sent[e], e) /\ twice' = twice \cup {e}
  <2>1. Net!TypeOK' /\ OneSocket' /\ QueuesAreDistinct'
    BY <1>1, <1>4, SendLocalEffect DEF Net!TypeOK, OneSocket, QueuesAreDistinct
  <2>2. NewIsUnheard'
    BY <1>1, <1>2, <1>4, SendLocalEffect DEF NewIsUnheard, Net!SocketsAssumption
  <2>3. WaitingIsUnheard'
    <3> SUFFICES ASSUME NEW q \in Hosts, NEW x \in Events, Waits(q, x), NEW d \in conns'[q]
                 PROVE  got'[d][x] <= Extra(x)'
      BY <1>2 DEF WaitingIsUnheard
    <3>1. d \in conns[q] /\ d \in Phones /\ got[d][x] <= Extra(x) /\ got[d][x] \in Nat
      BY <1>1, <1>4, SendLocalEffect DEF WaitingIsUnheard, Net!TypeOK
    <3>2. CASE x = e
      BY <1>1, <1>4, <3>1, <3>2, SendLocalEffect DEF Extra
    <3>3. CASE x # e
      BY <1>1, <1>4, <3>1, <3>3, SendLocalEffect DEF Extra
    <3> QED
      BY <3>2, <3>3
  <2>4. \A d \in Phones, x \in Events: got'[d][x] <= 1 + Extra(x)'
    <3> SUFFICES ASSUME NEW d \in Phones, NEW x \in Events
                 PROVE  got'[d][x] <= 1 + Extra(x)'
      OBVIOUS
    <3>1. got[d][x] \in Nat /\ got[d][x] <= 1 + Extra(x)
      BY DEF Net!TypeOK
    <3> QED
      BY <1>1, <1>4, <3>1, SendLocalEffect DEF Extra
  <2> QED
    BY <2>1, <2>2, <2>3, <2>4
<1> QED
  BY <1>3, <1>4 DEF Net!Close

LEMMA DeliverStep ==
    ASSUME Net!SocketsAssumption, SocketsInv, NEW p \in Hosts, Net!Deliver(p)
    PROVE  SocketsInv'
<1> USE DEF SocketsInv
<1>0. heard[p].queue \in Seq(Events) /\ heard[p].queue # << >>
  BY DEF Net!Deliver, Net!TypeOK
<1>1. PICK s \in Seq(Events), e \in Events: s = heard[p].queue /\ e = Head(s)
  BY <1>0
<1>2. /\ heard' = [heard EXCEPT ![p] = Net!Listening(Tail(s))] /\ s # << >>
      /\ UNCHANGED <<alive, redis, sent, twice, outages>> /\ Net!SendLocal(p, e)
  BY <1>1 DEF Net!Deliver, Net!TypeOK
<1>3. /\ Tail(s) \in Seq(Events) /\ Len(Tail(s)) = Len(s) - 1 /\ Len(s) \in Nat \ {0} /\ s[1] = e
      /\ \A i \in 1..Len(s) - 1: Tail(s)[i] = s[i + 1]
  BY <1>1, <1>2
<1>4. heard' \in [Hosts -> Channel] /\ heard'[p].queue = Tail(s) /\ \A q \in Hosts \ {p}: heard'[q] = heard[q]
  BY <1>2, <1>3 DEF Net!Listening, Channel, Net!TypeOK
<1>5. \A i, j \in 1..Len(s): s[i] = s[j] => i = j
  BY <1>1 DEF QueuesAreDistinct
<1>5a. /\ DOMAIN heard[p].queue = 1..Len(s) /\ DOMAIN heard'[p].queue = 1..(Len(s) - 1)
       /\ \A i \in 1..(Len(s) - 1): heard'[p].queue[i] = s[i + 1] /\ i + 1 \in 1..Len(s)
  <2>1. DOMAIN heard[p].queue = 1..Len(s)
    BY <1>1
  <2>2. DOMAIN Tail(s) = 1..(Len(s) - 1)
    BY <1>3
  <2> QED
    BY <1>3, <1>4, <2>1, <2>2
<1>6. Waits(p, e) /\ ~Waits(p, e)' /\ \A q \in Hosts, x \in Events: Waits(q, x)' => Waits(q, x)
  <2>1. Waits(p, e)
    BY <1>1, <1>3 DEF Waits
  <2>2. ~Waits(p, e)'
    <3> SUFFICES ASSUME NEW i \in 1..(Len(s) - 1), heard'[p].queue[i] = e
                 PROVE  FALSE
      BY <1>5a DEF Waits
    <3>1. s[i + 1] = s[1] /\ i + 1 \in 1..Len(s) /\ 1 \in 1..Len(s)
      BY <1>3, <1>5a
    <3>2. i + 1 = 1
      BY <1>5, <3>1
    <3> QED
      BY <3>2
  <2>3. \A x \in Events: Waits(p, x)' => Waits(p, x)
    <3> SUFFICES ASSUME NEW x \in Events, NEW i \in 1..(Len(s) - 1), heard'[p].queue[i] = x
                 PROVE  Waits(p, x)
      BY <1>5a DEF Waits
    <3>1. heard[p].queue[i + 1] = x /\ i + 1 \in DOMAIN heard[p].queue
      BY <1>1, <1>5a
    <3> QED
      BY <3>1 DEF Waits
  <2> QED
    BY <1>4, <2>1, <2>2, <2>3 DEF Waits
<1>7. \A d \in conns[p]: d \in Phones /\ got[d][e] <= Extra(e) /\ got[d][e] \in Nat
  BY <1>3, <1>6 DEF WaitingIsUnheard, Net!TypeOK
<1>7a. /\ got' \in [Phones -> [Events -> Nat]] /\ conns' \in [Hosts -> SUBSET Phones]
       /\ \A q \in Hosts: conns'[q] \subseteq conns[q]
       /\ \A d \in Phones, x \in Events: x # e \/ d \notin conns[p] => got'[d][x] = got[d][x]
       /\ \A d \in Phones: got'[d][e] \in {got[d][e], got[d][e] + 1}
  BY <1>2, SendLocalEffect
<1>8. Net!TypeOK' /\ OneSocket'
  BY <1>2, <1>4, <1>7a DEF Net!TypeOK, OneSocket, Channel
<1>9. QueuesAreDistinct'
  BY <1>3, <1>4, <1>5 DEF QueuesAreDistinct
<1>10. sent[e] # "new"
  BY <1>3, <1>6 DEF NewIsUnheard
<1>11. NewIsUnheard'
  <2> SUFFICES ASSUME NEW x \in Events
               PROVE  /\ sent[x] = "new" => (\A d \in Phones: got'[d][x] = 0) /\ \A q \in Hosts: ~Waits(q, x)'
                      /\ sent[x] \in {"new"} \cup Hosts => x \notin twice
    BY <1>2 DEF NewIsUnheard
  <2>1. sent[x] = "new" => x # e
    BY <1>10
  <2> QED
    BY <1>6, <1>7a, <2>1 DEF NewIsUnheard
<1>12. WaitingIsUnheard'
  <2> SUFFICES ASSUME NEW q \in Hosts, NEW x \in Events, Waits(q, x)', NEW d \in conns'[q]
               PROVE  got'[d][x] <= Extra(x)'
    BY DEF WaitingIsUnheard
  <2>1. Waits(q, x) /\ d \in conns[q] /\ d \in Phones /\ got[d][x] <= Extra(x)
    BY <1>6, <1>7a DEF WaitingIsUnheard, Net!TypeOK
  <2>2. x # e \/ d \notin conns[p]
    <3>1. CASE q = p
      BY <1>6, <3>1 DEF Waits
    <3>2. CASE q # p
      BY <2>1, <3>2 DEF OneSocket
    <3> QED
      BY <3>1, <3>2
  <2>3. got'[d][x] = got[d][x] /\ Extra(x)' = Extra(x)
    BY <1>2, <1>7a, <2>1, <2>2 DEF Extra
  <2> QED
    BY <2>1, <2>3
<1>13. \A d \in Phones, x \in Events: got'[d][x] <= 1 + Extra(x)'
  <2> SUFFICES ASSUME NEW d \in Phones, NEW x \in Events
               PROVE  got'[d][x] <= 1 + Extra(x)'
    OBVIOUS
  <2>0. Extra(x)' = Extra(x) /\ Extra(x) \in Nat
    BY <1>2 DEF Extra
  <2>1. CASE x = e /\ d \in conns[p]
    <3>1. got[d][e] \in Nat /\ got[d][e] <= Extra(e) /\ got'[d][e] \in {got[d][e], got[d][e] + 1}
      BY <1>7, <1>7a, <2>1
    <3> QED
      BY <2>0, <2>1, <3>1
  <2>2. CASE x # e \/ d \notin conns[p]
    BY <1>7a, <2>0, <2>2
  <2> QED
    BY <2>1, <2>2
<1> QED
  BY <1>8, <1>9, <1>11, <1>12, <1>13

LEMMA LessConnected ==
    ASSUME SocketsInv, alive' \subseteq Phones, UNCHANGED <<redis, heard, sent, got, twice, outages>>,
           conns' \in [Hosts -> SUBSET Phones], \A q \in Hosts: conns'[q] \subseteq conns[q]
    PROVE  SocketsInv'
<1>1. Net!TypeOK'
  BY DEF SocketsInv, Net!TypeOK
<1>2. OneSocket'
  BY DEF SocketsInv, OneSocket
<1>3. \A q \in Hosts, e \in Events: Waits(q, e)' = Waits(q, e) /\ Extra(e)' = Extra(e)
  BY DEF Waits, Extra
<1>4. QueuesAreDistinct' /\ NewIsUnheard'
  BY <1>3 DEF SocketsInv, QueuesAreDistinct, NewIsUnheard
<1>5. WaitingIsUnheard'
  BY <1>3 DEF SocketsInv, WaitingIsUnheard
<1>6. \A d \in Phones, e \in Events: got'[d][e] <= 1 + Extra(e)'
  BY DEF SocketsInv, Extra
<1> QED
  BY <1>1, <1>2, <1>4, <1>5, <1>6 DEF SocketsInv

LEMMA Breaking ==
    ASSUME SocketsInv, NEW d \in Phones, Net!Breaks(d)
    PROVE  SocketsInv'
BY LessConnected DEF Net!Breaks, SocketsInv, Net!TypeOK

LEMMA SocketSteps ==
    ASSUME Net!SocketsAssumption, SocketsInv, NEW p \in Hosts, NEW d \in Phones
    PROVE  /\ Net!Connect(p, d) => SocketsInv'
           /\ Net!Disconnect(p, d) => SocketsInv'
<1> USE DEF SocketsInv
<1>1. ASSUME Net!Connect(p, d)
      PROVE  SocketsInv'
  <2>1. /\ \A q \in Hosts: d \notin conns[q]
        /\ alive' \subseteq Phones /\ UNCHANGED <<redis, heard, sent, twice, outages>>
        /\ conns' \in [Hosts -> SUBSET Phones] /\ conns'[p] = conns[p] \cup {d}
        /\ \A q \in Hosts \ {p}: conns'[q] = conns[q]
        /\ got' \in [Phones -> [Events -> Nat]]
        /\ \A e \in Events: got'[d][e] = 0
        /\ \A b \in Phones \ {d}: got'[b] = got[b]
    BY <1>1 DEF Net!Connect, Net!TypeOK
  <2>2. Net!TypeOK' /\ QueuesAreDistinct'
    BY <2>1 DEF Net!TypeOK, QueuesAreDistinct
  <2>2a. OneSocket'
    <3> SUFFICES ASSUME NEW q \in Hosts, NEW r \in Hosts, q # r
                 PROVE  conns'[q] \cap conns'[r] = {}
      BY DEF OneSocket
    <3> QED
      BY <2>1 DEF OneSocket
  <2>3. \A q \in Hosts, x \in Events: Waits(q, x)' = Waits(q, x)
    BY <2>1 DEF Waits
  <2>4. NewIsUnheard'
    BY <2>1, <2>3 DEF NewIsUnheard
  <2>5. WaitingIsUnheard'
    <3> SUFFICES ASSUME NEW q \in Hosts, NEW x \in Events, Waits(q, x), NEW b \in conns'[q]
                 PROVE  got'[b][x] <= Extra(x)
      BY <2>1, <2>3 DEF WaitingIsUnheard, Extra
    <3>1. CASE b = d
      BY <2>1, <3>1 DEF Extra
    <3>2. CASE b # d
      <4>0. b \in conns[q]
        BY <2>1, <3>2
      <4>1. b \in conns[q] /\ b \in Phones
        BY <4>0 DEF Net!TypeOK
      <4> QED
        BY <2>1, <3>2, <4>1 DEF WaitingIsUnheard
    <3> QED
      BY <3>1, <3>2
  <2>6. \A b \in Phones, x \in Events: got'[b][x] <= 1 + Extra(x)'
    BY <2>1 DEF Extra
  <2> QED
    BY <2>2, <2>2a, <2>4, <2>5, <2>6
<1>2. ASSUME Net!Disconnect(p, d)
      PROVE  SocketsInv'
  BY <1>2, LessConnected DEF Net!Disconnect, Net!TypeOK
<1> QED
  BY <1>1, <1>2

LEMMA RedisSteps ==
    ASSUME Net!SocketsAssumption, SocketsInv
    PROVE  /\ Net!RedisFails \/ Net!RedisReturns \/ UNCHANGED Net!socketVars => SocketsInv'
           /\ \A p \in Hosts: Net!SubscriberDies(p) => SocketsInv'
<1> USE DEF SocketsInv
<1>1. ASSUME Net!RedisFails \/ Net!RedisReturns \/ UNCHANGED Net!socketVars
      PROVE  SocketsInv'
  <2>1. /\ redis' \in BOOLEAN /\ outages' \in 0..Outages
        /\ UNCHANGED <<conns, alive, heard, sent, got, twice>>
    <3>1. redis \in BOOLEAN /\ outages \in 0..Outages /\ Outages \in Nat
      BY DEF Net!TypeOK, Net!SocketsAssumption
    <3> HIDE DEF SocketsInv
    <3>2. CASE Net!RedisFails
      <4>1. /\ outages > 0 /\ outages' = outages - 1 /\ redis' = FALSE
            /\ UNCHANGED <<conns, alive, heard, sent, got, twice>>
        BY <3>2, Zenon DEF Net!RedisFails
      <4>2. outages' \in 0..Outages
        BY <3>1, <4>1
      <4> QED
        BY <4>1, <4>2, Zenon
    <3>3. CASE Net!RedisReturns
      BY <3>1, <3>3 DEF Net!RedisReturns
    <3>4. CASE UNCHANGED Net!socketVars
      BY <3>1, <3>4 DEF Net!socketVars
    <3> QED
      BY <1>1, <3>2, <3>3, <3>4
  <2> QED
    BY <2>1 DEF Net!TypeOK, OneSocket, QueuesAreDistinct, NewIsUnheard, WaitingIsUnheard, Waits, Extra
<1>2. ASSUME NEW p \in Hosts, Net!SubscriberDies(p)
      PROVE  SocketsInv'
  <2>1. << >> \in Seq(Events) /\ DOMAIN << >> = {}
    OBVIOUS
  <2>2. /\ heard' \in [Hosts -> Channel] /\ heard'[p].queue = << >>
        /\ \A q \in Hosts \ {p}: heard'[q] = heard[q]
        /\ UNCHANGED <<conns, alive, redis, sent, got, twice, outages>>
    BY <1>2, <2>1 DEF Net!SubscriberDies, Net!Dead, Channel, Net!TypeOK
  <2>3. \A q \in Hosts, x \in Events: Waits(q, x)' => Waits(q, x)
    BY <2>1, <2>2 DEF Waits
  <2>4. Net!TypeOK' /\ OneSocket' /\ QueuesAreDistinct'
    BY <2>1, <2>2 DEF Net!TypeOK, OneSocket, QueuesAreDistinct, Channel
  <2> QED
    BY <2>2, <2>3, <2>4 DEF NewIsUnheard, WaitingIsUnheard, Extra
<1> QED
  BY <1>1, <1>2

LEMMA SocketsInductive ==
    ASSUME Net!SocketsAssumption
    PROVE  Net!Spec => []SocketsInv
<1>1. Net!Init => SocketsInv
  <2> SUFFICES ASSUME Net!Init
               PROVE  SocketsInv
    OBVIOUS
  <2>1. << >> \in Seq(Events) /\ DOMAIN << >> = {}
    OBVIOUS
  <2>2. \A p \in Hosts: heard[p].queue = << >>
    BY DEF Net!Init, Net!Listening
  <2>3. Net!TypeOK
    BY <2>1 DEF Net!Init, Net!TypeOK, Net!Listening, Net!SocketsAssumption
  <2> QED
    BY <2>1, <2>2, <2>3 DEF Net!Init, SocketsInv, OneSocket, QueuesAreDistinct, NewIsUnheard, WaitingIsUnheard,
       Waits, Extra
<1>2. SocketsInv /\ [Net!Next]_Net!socketVars => SocketsInv'
  BY PublishStep, CloseStep, DeliverStep, SocketSteps, RedisSteps, Breaking DEF Net!Next
<1> QED
  BY <1>1, <1>2, PTL DEF Net!Spec

LEMMA SocketsAreSound == SocketsInv => Net!HeardOnce /\ Net!NotAheadOfQueue
<1>1. ASSUME SocketsInv, NEW p \in Hosts, NEW i \in DOMAIN heard[p].queue
      PROVE  heard[p].queue[i] \in Events /\ Waits(p, heard[p].queue[i])
  BY <1>1 DEF SocketsInv, Net!TypeOK, Waits
<1> QED
  BY <1>1 DEF SocketsInv, WaitingIsUnheard, Extra, Net!HeardOnce, Net!NotAheadOfQueue

-----------------------------------------------------------------------------
(* Recall.                                                                 *)

\* The turns that may yet record a key.
MayRecord(k) ==
    {t \in Turns: \/ turn[t].pc = "choose" /\ k \notin turn[t].keys
                  \/ turn[t].pc = "record" /\ k \in turn[t].keys}
RecallInv ==
    /\ Recitation!TypeOK
    /\ loss \/ \A k \in Facts: Recitation!Uses(k) + Cardinality(MayRecord(k)) <= Repeat + Cardinality(Turns) - 1

Uses(list, k) == {i \in DOMAIN list: k \in list[i]}
TurnRec == [pc: {"idle", "choose", "record"}, keys: SUBSET Facts]

LEMMA RecallNumbers ==
    ASSUME Recitation!RecallAssumption, Recitation!TypeOK, NEW k \in Facts
    PROVE  /\ Repeat \in Nat \ {0} /\ Depth \in Nat \ {0} /\ IsFiniteSet(Turns) /\ Cardinality(Turns) \in Nat
           /\ IsFiniteSet(Uses(used, k)) /\ Recitation!Uses(k) = Cardinality(Uses(used, k))
           /\ Recitation!Uses(k) \in Nat
           /\ IsFiniteSet(MayRecord(k)) /\ Cardinality(MayRecord(k)) \in Nat
           /\ Cardinality(MayRecord(k)) <= Cardinality(Turns)
<1>1. Repeat \in Nat \ {0} /\ Depth \in Nat \ {0} /\ IsFiniteSet(Turns)
  BY DEF Recitation!RecallAssumption, Recitation!IsFiniteSet, IsFiniteSet
<1>2. IsFiniteSet(DOMAIN used)
  <2>1. Len(used) \in Nat /\ DOMAIN used = 1..Len(used)
    BY DEF Recitation!TypeOK
  <2> QED
    BY <2>1, FS_Interval
<1>3. IsFiniteSet(Uses(used, k))
  BY <1>2, FS_Subset DEF Uses
<1>4. Recitation!Uses(k) = Cardinality(Uses(used, k))
  BY DEF Recitation!Uses, Uses, Recitation!Cardinality, Cardinality
<1>5. IsFiniteSet(MayRecord(k)) /\ Cardinality(MayRecord(k)) <= Cardinality(Turns)
  BY <1>1, FS_Subset DEF MayRecord
<1> QED
  BY <1>1, <1>3, <1>4, <1>5, FS_CardinalityType

LEMMA NearestAreFresh ==
    ASSUME NEW found \in Seq(Facts), NEW skip
    PROVE  Recitation!Nearest(found, skip) \subseteq Facts \ skip
<1> SUFFICES ASSUME NEW k \in Recitation!Nearest(found, skip)
             PROVE  k \in Facts /\ k \notin skip
  OBVIOUS
<1>1. PICK i \in DOMAIN found: k \in Recitation!UpTo(found, i, skip)
  BY DEF Recitation!Nearest
<1>2. PICK m \in 1..i: k = found[m] /\ k \notin skip
  BY <1>1 DEF Recitation!UpTo
<1> QED
  BY <1>2

\* What LPUSH and LTRIM leave.
LEMMA TrimFits ==
    ASSUME Recitation!RecallAssumption, NEW list \in Seq(SUBSET Facts), NEW keys \in SUBSET Facts
    PROVE  LET kept == Recitation!Trim(<<keys>> \o list) IN
           /\ kept \in Seq(SUBSET Facts) /\ Len(kept) <= Depth /\ Len(kept) <= Len(list) + 1
           /\ \A i \in 1..Len(kept): kept[i] = IF i = 1 THEN keys ELSE list[i - 1]
<1> DEFINE longer == <<keys>> \o list
           kept == Recitation!Trim(longer)
           n == IF Len(longer) < Depth THEN Len(longer) ELSE Depth
<1>0. Depth \in Nat \ {0} /\ Len(list) \in Nat
  BY DEF Recitation!RecallAssumption
<1>1. /\ longer \in Seq(SUBSET Facts) /\ Len(longer) = Len(list) + 1
      /\ \A i \in 1..Len(longer): longer[i] = IF i = 1 THEN keys ELSE list[i - 1]
  OBVIOUS
<1>2. n \in Nat \ {0} /\ n <= Depth /\ n <= Len(longer)
  BY <1>0, <1>1
<1>3. kept = SubSeq(longer, 1, n)
  BY DEF Recitation!Trim
<1> HIDE DEF longer, n, kept
<1>4. kept \in Seq(SUBSET Facts) /\ Len(kept) = n /\ \A i \in 1..n: kept[i] = longer[i]
  BY <1>1, <1>2, <1>3
<1>5. \A i \in 1..n: kept[i] = IF i = 1 THEN keys ELSE list[i - 1]
  BY <1>1, <1>2, <1>4
<1> QED
  BY <1>1, <1>2, <1>4, <1>5 DEF kept, longer

\* What LPUSH and LTRIM do to the number of turns that used a key.
LEMMA TrimmedUses ==
    ASSUME Recitation!RecallAssumption, NEW list \in Seq(SUBSET Facts), NEW keys \in SUBSET Facts, NEW k \in Facts,
           Len(list) <= Depth
    PROVE  LET kept == Recitation!Trim(<<keys>> \o list) IN
           /\ IsFiniteSet(Uses(kept, k))
           /\ Cardinality(Uses(kept, k)) <= Cardinality(Uses(list, k)) + (IF k \in keys THEN 1 ELSE 0)
<1> DEFINE kept == Recitation!Trim(<<keys>> \o list)
           n == Len(kept)
           Kept == {i \in Uses(list, k): i + 1 \in 1..n}
<1>0. Depth \in Nat \ {0} /\ Len(list) \in Nat /\ DOMAIN list = 1..Len(list)
  BY DEF Recitation!RecallAssumption
<1>4. /\ kept \in Seq(SUBSET Facts) /\ n \in Nat /\ n <= Len(list) + 1 /\ DOMAIN kept = 1..n
      /\ \A i \in 1..n: kept[i] = IF i = 1 THEN keys ELSE list[i - 1]
  BY <1>0, TrimFits
<1> HIDE DEF n, kept
<1>5. Uses(kept, k) \subseteq {i + 1: i \in Kept} \cup (IF k \in keys THEN {1} ELSE {})
  <2> SUFFICES ASSUME NEW i \in Uses(kept, k)
               PROVE  i \in {j + 1: j \in Kept} \/ (k \in keys /\ i = 1)
    OBVIOUS
  <2>1. i \in 1..n /\ k \in kept[i]
    BY <1>4 DEF Uses
  <2>2. CASE i = 1
    BY <1>4, <2>1, <2>2
  <2>3. CASE i # 1
    <3>1. i - 1 \in 1..Len(list) /\ i = (i - 1) + 1
      BY <1>0, <1>4, <2>1, <2>3
    <3>2. k \in list[i - 1]
      BY <1>4, <2>1, <2>3
    <3>3. i - 1 \in Kept
      BY <1>0, <2>1, <3>1, <3>2 DEF Uses
    <3> QED
      BY <3>1, <3>3
  <2> QED
    BY <2>2, <2>3
<1>6. IsFiniteSet(Uses(list, k)) /\ IsFiniteSet(Kept) /\ Cardinality(Kept) <= Cardinality(Uses(list, k))
  <2>1. IsFiniteSet(1..Len(list))
    BY <1>0, FS_Interval
  <2>2. IsFiniteSet(Uses(list, k))
    BY <1>0, <2>1, FS_Subset DEF Uses
  <2> QED
    BY <2>2, FS_Subset
<1>7. /\ IsFiniteSet({i + 1: i \in Kept}) /\ Cardinality({i + 1: i \in Kept}) <= Cardinality(Kept)
  <2> DEFINE S == {i + 1: i \in Kept}
             f == [i \in Kept |-> i + 1]
  <2>1. f \in Surjection(Kept, S)
    BY DEF Surjection
  <2> HIDE DEF S, f
  <2>2. IsFiniteSet(S) /\ Cardinality(S) <= Cardinality(Kept)
    BY <1>6, <2>1, FS_Surjection
  <2> QED
    BY <2>2 DEF S
<1> DEFINE S == {i + 1: i \in Kept}
           T == S \cup (IF k \in keys THEN {1} ELSE {})
<1>8. IsFiniteSet(T) /\ Cardinality(T) <= Cardinality(S) + (IF k \in keys THEN 1 ELSE 0)
  <2>1. CASE k \in keys
    <3>1. T = S \cup {1}
      BY <2>1
    <3> HIDE DEF S, T
    <3>2. IsFiniteSet(S) /\ Cardinality(S) \in Nat
      BY <1>7, FS_CardinalityType DEF S
    <3>3. IsFiniteSet(S \cup {1}) /\ Cardinality(S \cup {1}) = IF 1 \in S THEN Cardinality(S) ELSE Cardinality(S) + 1
      BY <3>2, FS_AddElement
    <3> QED
      BY <2>1, <3>1, <3>2, <3>3
  <2>2. CASE k \notin keys
    <3>1. T = S
      BY <2>2
    <3> HIDE DEF S, T
    <3>2. IsFiniteSet(S) /\ Cardinality(S) \in Nat
      BY <1>7, FS_CardinalityType DEF S
    <3> QED
      BY <2>2, <3>1, <3>2
  <2> QED
    BY <2>1, <2>2
<1>9. Cardinality(Uses(kept, k)) <= Cardinality(T) /\ IsFiniteSet(Uses(kept, k))
  BY <1>5, <1>8, FS_Subset
<1>10. /\ Cardinality(Uses(kept, k)) \in Nat /\ Cardinality(T) \in Nat /\ Cardinality(S) \in Nat
       /\ Cardinality(Kept) \in Nat /\ Cardinality(Uses(list, k)) \in Nat
  BY <1>6, <1>7, <1>8, <1>9, FS_CardinalityType
<1>11. Cardinality(S) <= Cardinality(Kept)
  BY <1>7
<1> HIDE DEF S, T, Kept
<1>12. Cardinality(Uses(kept, k)) <= Cardinality(Uses(list, k)) + (IF k \in keys THEN 1 ELSE 0)
  BY <1>6, <1>8, <1>9, <1>10, <1>11
<1> QED
  BY <1>9, <1>12 DEF kept

LEMMA ReadStep ==
    ASSUME Recitation!RecallAssumption, RecallInv, NEW t \in Turns, Recitation!ReadOverused(t)
    PROVE  RecallInv'
<1>1. PICK keys \in SUBSET Facts:
        /\ turn' = [turn EXCEPT ![t] = [pc |-> "choose", keys |-> keys]] /\ UNCHANGED used
        /\ (keys = Recitation!Overused /\ loss' = loss) \/ loss' = TRUE
  <2>1. Recitation!Overused \in SUBSET Facts /\ {} \in SUBSET Facts
    BY DEF Recitation!Overused
  <2> QED
    BY <2>1 DEF Recitation!ReadOverused
<1>2. turn' \in [Turns -> TurnRec] /\ turn'[t].pc = "choose" /\ turn'[t].keys = keys
      /\ \A s \in Turns \ {t}: turn'[s] = turn[s]
  BY <1>1 DEF RecallInv, Recitation!TypeOK, TurnRec
<1>3. Recitation!TypeOK'
  BY <1>1, <1>2 DEF RecallInv, Recitation!TypeOK, TurnRec
<1>4. ASSUME ~loss', NEW k \in Facts
      PROVE  Recitation!Uses(k)' + Cardinality(MayRecord(k)') <= Repeat + Cardinality(Turns) - 1
  <2>1. keys = Recitation!Overused /\ ~loss
    BY <1>1, <1>4
  <2>2. Recitation!Uses(k)' = Recitation!Uses(k)
    BY <1>1 DEF Recitation!Uses
  <2>3. CASE k \in keys
    <3>1. MayRecord(k)' = MayRecord(k)
      BY <1>2, <2>3 DEF MayRecord, Recitation!ReadOverused
    <3> QED
      BY <2>1, <2>2, <3>1 DEF RecallInv
  <2>4. CASE k \notin keys
    <3>1. Recitation!Uses(k) < Repeat
      BY <2>1, <2>4, RecallNumbers DEF Recitation!Overused, RecallInv
    <3>2. Cardinality(MayRecord(k)') <= Cardinality(Turns) /\ Cardinality(MayRecord(k)') \in Nat
      <4>1. MayRecord(k)' \in SUBSET Turns
        BY DEF MayRecord
      <4> QED
        BY <4>1, FS_Subset, FS_CardinalityType, RecallNumbers DEF RecallInv
    <3>3. Recitation!Uses(k) \in Nat /\ Repeat \in Nat /\ Cardinality(Turns) \in Nat
      BY RecallNumbers DEF RecallInv
    <3> QED
      BY <2>2, <3>1, <3>2, <3>3
  <2> QED
    BY <2>3, <2>4
<1> QED
  BY <1>3, <1>4 DEF RecallInv

LEMMA ChooseStep ==
    ASSUME Recitation!RecallAssumption, RecallInv, NEW t \in Turns, Recitation!Choose(t)
    PROVE  RecallInv'
<1>1. PICK found \in Searches:
        /\ turn' = [turn EXCEPT ![t] = IF Recitation!Nearest(found, turn[t].keys) = {} THEN Recitation!Ready
                                       ELSE [pc |-> "record", keys |-> Recitation!Nearest(found, turn[t].keys)]]
        /\ UNCHANGED <<used, loss>>
  BY DEF Recitation!Choose
<1>2. PICK chosen \in SUBSET (Facts \ turn[t].keys): chosen = Recitation!Nearest(found, turn[t].keys)
  BY NearestAreFresh DEF Recitation!RecallAssumption
<1>3. /\ turn' \in [Turns -> TurnRec] /\ \A s \in Turns \ {t}: turn'[s] = turn[s]
      /\ turn'[t].pc = "idle" \/ (turn'[t].pc = "record" /\ turn'[t].keys = chosen)
  BY <1>1, <1>2 DEF RecallInv, Recitation!TypeOK, TurnRec, Recitation!Ready
<1>4. Recitation!TypeOK'
  BY <1>1, <1>3 DEF RecallInv, Recitation!TypeOK, TurnRec
<1>5. ASSUME ~loss', NEW k \in Facts
      PROVE  Recitation!Uses(k)' + Cardinality(MayRecord(k)') <= Repeat + Cardinality(Turns) - 1
  <2>1. MayRecord(k)' \in SUBSET MayRecord(k)
    <3> SUFFICES ASSUME NEW s \in MayRecord(k)'
                 PROVE  s \in MayRecord(k)
      OBVIOUS
    <3>1. s \in Turns /\ (s # t => s \in MayRecord(k))
      BY <1>3 DEF MayRecord
    <3>2. CASE s = t
      <4>1. turn'[t].pc = "record" /\ turn'[t].keys = chosen /\ k \in chosen
        <5>1. (turn'[t].pc = "choose" /\ k \notin turn'[t].keys) \/ (turn'[t].pc = "record" /\ k \in turn'[t].keys)
          BY <3>2 DEF MayRecord
        <5> QED
          BY <1>3, <5>1
      <4>2. turn[t].pc = "choose" /\ k \notin turn[t].keys
        BY <1>2, <4>1 DEF Recitation!Choose
      <4> QED
        BY <3>2, <4>2 DEF MayRecord
    <3> QED
      BY <3>1, <3>2
  <2>2. Cardinality(MayRecord(k)') <= Cardinality(MayRecord(k)) /\ Cardinality(MayRecord(k)') \in Nat
    BY <2>1, FS_Subset, FS_CardinalityType, RecallNumbers DEF RecallInv
  <2>3. Recitation!Uses(k)' = Recitation!Uses(k) /\ ~loss
    BY <1>1, <1>5 DEF Recitation!Uses
  <2>4. Recitation!Uses(k) \in Nat /\ Repeat \in Nat /\ Cardinality(Turns) \in Nat /\ Cardinality(MayRecord(k)) \in Nat
    BY RecallNumbers DEF RecallInv
  <2>5. Recitation!Uses(k) + Cardinality(MayRecord(k)) <= Repeat + Cardinality(Turns) - 1
    BY <2>3 DEF RecallInv
  <2> QED
    BY <2>2, <2>3, <2>4, <2>5
<1> QED
  BY <1>4, <1>5 DEF RecallInv

LEMMA RecordStep ==
    ASSUME Recitation!RecallAssumption, RecallInv, NEW t \in Turns, Recitation!Record(t)
    PROVE  RecallInv'
<1> DEFINE keys == turn[t].keys
<1>1. /\ turn[t].pc = "record" /\ keys \in SUBSET Facts
      /\ turn' \in [Turns -> TurnRec] /\ turn'[t].pc = "idle" /\ \A s \in Turns \ {t}: turn'[s] = turn[s]
  BY DEF Recitation!Record, RecallInv, Recitation!TypeOK, TurnRec, Recitation!Ready
<1>2. CASE used' = Recitation!Trim(<<keys>> \o used) /\ UNCHANGED loss
  <2>1. used \in Seq(SUBSET Facts) /\ Len(used) <= Depth
    BY DEF RecallInv, Recitation!TypeOK
  <2>2. Recitation!TypeOK'
    <3>1. used' \in Seq(SUBSET Facts) /\ Len(used') <= Depth
      BY <1>1, <1>2, <2>1, TrimFits
    <3> QED
      BY <1>1, <1>2, <3>1 DEF RecallInv, Recitation!TypeOK, TurnRec
  <2>3. ASSUME ~loss', NEW k \in Facts
        PROVE  Recitation!Uses(k)' + Cardinality(MayRecord(k)') <= Repeat + Cardinality(Turns) - 1
    <3>1. Recitation!Uses(k)' = Cardinality(Uses(used', k))
      BY DEF Recitation!Uses, Uses, Recitation!Cardinality, Cardinality
    <3>2. Cardinality(Uses(used', k)) <= Recitation!Uses(k) + (IF k \in keys THEN 1 ELSE 0)
      BY <1>1, <1>2, <2>1, TrimmedUses, RecallNumbers DEF RecallInv
    <3>3. MayRecord(k)' = MayRecord(k) \ {t} /\ (t \in MayRecord(k) <=> k \in keys)
      BY <1>1 DEF MayRecord
    <3>4. Cardinality(MayRecord(k)') = Cardinality(MayRecord(k)) - (IF k \in keys THEN 1 ELSE 0)
      <4>1. IsFiniteSet(MayRecord(k))
        BY RecallNumbers DEF RecallInv
      <4>2. Cardinality(MayRecord(k) \ {t}) =
                IF t \in MayRecord(k) THEN Cardinality(MayRecord(k)) - 1 ELSE Cardinality(MayRecord(k))
        BY <4>1, FS_RemoveElement
      <4>3. Cardinality(MayRecord(k)) \in Nat
        BY <4>1, FS_CardinalityType
      <4> HIDE DEF keys
      <4> QED
        BY <3>3, <4>2, <4>3
    <3>5. Recitation!Uses(k) + Cardinality(MayRecord(k)) <= Repeat + Cardinality(Turns) - 1
      BY <1>2, <2>3 DEF RecallInv
    <3>6. /\ Recitation!Uses(k) \in Nat /\ Repeat \in Nat /\ Cardinality(Turns) \in Nat
          /\ Cardinality(MayRecord(k)) \in Nat /\ Cardinality(Uses(used', k)) \in Nat
      <4>1. IsFiniteSet(Uses(used', k))
        BY <1>1, <1>2, <2>1, TrimmedUses
      <4> QED
        BY <4>1, FS_CardinalityType, RecallNumbers DEF RecallInv
    <3> HIDE DEF keys
    <3> QED
      BY <3>1, <3>2, <3>4, <3>5, <3>6
  <2> QED
    BY <2>2, <2>3 DEF RecallInv
<1>3. CASE UNCHANGED used /\ loss' = TRUE
  BY <1>1, <1>3 DEF RecallInv, Recitation!TypeOK, TurnRec
<1> QED
  BY <1>2, <1>3 DEF Recitation!Record

LEMMA RecallInductive ==
    ASSUME Recitation!RecallAssumption
    PROVE  Recitation!Spec => []RecallInv
<1>1. Recitation!Init => RecallInv
  <2> SUFFICES ASSUME Recitation!Init
               PROVE  RecallInv
    OBVIOUS
  <2>1. used = << >> /\ << >> \in Seq(SUBSET Facts) /\ Len(<< >>) = 0 /\ DOMAIN << >> = {}
    BY DEF Recitation!Init
  <2>2. Recitation!TypeOK
    <3>1. Recitation!Ready \in TurnRec /\ Depth \in Nat
      BY DEF Recitation!Ready, TurnRec, Recitation!RecallAssumption
    <3>2. turn \in [Turns -> TurnRec] /\ loss \in BOOLEAN
      BY <3>1 DEF Recitation!Init
    <3>3. used \in Seq(SUBSET Facts) /\ Len(used) <= Depth
      BY <2>1, <3>1
    <3> QED
      BY <3>2, <3>3 DEF Recitation!TypeOK, TurnRec
  <2>3. ASSUME NEW k \in Facts
        PROVE  Recitation!Uses(k) + Cardinality(MayRecord(k)) <= Repeat + Cardinality(Turns) - 1
    <3>1. Uses(used, k) = {} /\ MayRecord(k) = {}
      BY <2>1 DEF Uses, MayRecord, Recitation!Init, Recitation!Ready
    <3>2. Recitation!Uses(k) = 0 /\ Cardinality(MayRecord(k)) = 0
      BY <2>2, <3>1, FS_EmptySet, RecallNumbers
    <3> QED
      BY <2>2, <3>2, RecallNumbers
  <2> QED
    BY <2>2, <2>3 DEF RecallInv
<1>2. RecallInv /\ [Recitation!Next]_Recitation!recallVars => RecallInv'
  <2> SUFFICES ASSUME RecallInv, [Recitation!Next]_Recitation!recallVars
               PROVE  RecallInv'
    OBVIOUS
  <2>1. CASE Recitation!Expire
    <3>1. used' = << >> /\ << >> \in Seq(SUBSET Facts) /\ Len(<< >>) = 0 /\ Depth \in Nat
      BY <2>1 DEF Recitation!Expire, Recitation!RecallAssumption
    <3> QED
      BY <2>1, <3>1 DEF Recitation!Expire, RecallInv, Recitation!TypeOK
  <2>2. CASE UNCHANGED Recitation!recallVars
    BY <2>2 DEF Recitation!recallVars, RecallInv, Recitation!TypeOK, Recitation!Uses, MayRecord
  <2> QED
    BY <2>1, <2>2, ReadStep, ChooseStep, RecordStep DEF Recitation!Next
<1> QED
  BY <1>1, <1>2, PTL DEF Recitation!Spec

-----------------------------------------------------------------------------
\* session_memory.py:165, websocket_manager._publish and spicy_handoff.py:122: what may come
\* once comes once, or as often as allowed, for any number of turns, processes and exchanges:
\* no memory is recited in more of the last turns than the limit and the other turns under
\* way allow, a socket carries an event once, a ticket signs in once.
THEOREM OnceMeansOnce ==
    ASSUME Recitation!RecallAssumption, Net!SocketsAssumption, SignIn!HandoffAssumption
    PROVE  Recitation!Spec /\ Net!Spec /\ SignIn!Spec => []NothingRepeated
<1>1. RecallInv => Recitation!RecitationBounded
  <2> SUFFICES ASSUME RecallInv, ~loss, NEW k \in Facts
               PROVE  Recitation!Uses(k) <= Repeat + Cardinality(Turns) - 1
    BY DEF Recitation!RecitationBounded, Recitation!Cardinality, Cardinality
  <2>1. /\ Recitation!Uses(k) \in Nat /\ Repeat \in Nat /\ Cardinality(Turns) \in Nat
        /\ Cardinality(MayRecord(k)) \in Nat
    BY RecallNumbers DEF RecallInv
  <2>2. Recitation!Uses(k) + Cardinality(MayRecord(k)) <= Repeat + Cardinality(Turns) - 1
    BY DEF RecallInv
  <2> QED
    BY <2>1, <2>2
<1> QED
  BY <1>1, RecallInductive, SocketsInductive, SocketsAreSound, TicketsRedeemedOnce, PTL DEF NothingRepeated

-----------------------------------------------------------------------------
(* Streak.                                                                 *)

RunSet(D, d) == {n \in 1..d: n..d \subseteq D}
Run(D, d) == Cardinality(RunSet(D, d))

LEMMA RunIsNumber ==
    ASSUME NEW D, NEW d \in Nat
    PROVE  IsFiniteSet(RunSet(D, d)) /\ Run(D, d) \in Nat
<1>1. IsFiniteSet(1..d)
  BY FS_Interval
<1>2. IsFiniteSet(RunSet(D, d))
  BY <1>1, FS_Subset DEF RunSet
<1> QED
  BY <1>2, FS_CardinalityType DEF Run

\* More days make no run shorter.
LEMMA RunGrows ==
    ASSUME NEW D, NEW E, D \subseteq E, NEW d \in Nat
    PROVE  Run(D, d) <= Run(E, d)
<1>1. RunSet(D, d) \in SUBSET RunSet(E, d)
  BY DEF RunSet
<1> QED
  BY <1>1, RunIsNumber, FS_Subset DEF Run

\* The day after a run makes it longer by one.
LEMMA RunGoesOn ==
    ASSUME NEW D, NEW d \in Nat, d + 1 \in D
    PROVE  Run(D, d + 1) = Run(D, d) + 1
<1>1. RunSet(D, d + 1) = RunSet(D, d) \cup {d + 1}
  <2>1. ASSUME NEW n \in RunSet(D, d + 1), n # d + 1
        PROVE  n \in RunSet(D, d)
    BY <2>1 DEF RunSet
  <2>2. ASSUME NEW n \in RunSet(D, d)
        PROVE  n \in RunSet(D, d + 1)
    <3>1. n \in 1..(d + 1) /\ n..d \subseteq D
      BY <2>2 DEF RunSet
    <3>2. n..(d + 1) \subseteq D
      <4> SUFFICES ASSUME NEW m \in n..(d + 1)
                   PROVE  m \in D
        OBVIOUS
      <4>1. m \in n..d \/ m = d + 1
        BY <3>1
      <4> QED
        BY <3>1, <4>1
    <3> QED
      BY <3>1, <3>2 DEF RunSet
  <2>3. d + 1 \in RunSet(D, d + 1)
    BY DEF RunSet
  <2> QED
    BY <2>1, <2>2, <2>3
<1>2. d + 1 \notin RunSet(D, d)
  BY DEF RunSet
<1>3. IsFiniteSet(RunSet(D, d))
  BY RunIsNumber
<1>4. Cardinality(RunSet(D, d) \cup {d + 1}) = Cardinality(RunSet(D, d)) + 1
  BY <1>2, <1>3, FS_AddElement
<1> QED
  BY <1>1, <1>4 DEF Run

LEMMA RunOfDay ==
    ASSUME NEW D, NEW d \in Nat \ {0}, d \in D
    PROVE  Run(D, d) >= 1
<1>1. d - 1 \in Nat /\ (d - 1) + 1 = d
  OBVIOUS
<1>2. Run(D, (d - 1) + 1) = Run(D, d - 1) + 1
  BY <1>1, RunGoesOn
<1> QED
  BY <1>1, <1>2, RunIsNumber

LEMMA LeastElement ==
    ASSUME NEW T, T \subseteq Nat, T # {}
    PROVE  \E x \in T: \A y \in T: x <= y
<1>1. PICK x \in T: \A y \in T: ~(<<y, x>> \in OpToRel(<, Nat))
  BY NatLessThanWellFounded, WFMin
<1>2. \A y \in T: ~(y < x)
  BY <1>1 DEF OpToRel
<1> QED
  BY <1>2

LEMMA LatestIsLast ==
    ASSUME NEW n \in Nat, NEW D \in SUBSET (1..n), D # {}
    PROVE  Streaks!Latest(D) \in D /\ \A e \in D: e <= Streaks!Latest(D)
<1> DEFINE T == {n - d: d \in D}
<1>1. T \subseteq Nat /\ T # {}
  OBVIOUS
<1>2. PICK t \in T: \A u \in T: t <= u
  BY <1>1, LeastElement
<1>3. PICK d \in D: t = n - d
  BY <1>2
<1>4. \A e \in D: e <= d
  <2> SUFFICES ASSUME NEW e \in D
               PROVE  e <= d
    OBVIOUS
  <2>1. n - d <= n - e
    BY <1>2, <1>3
  <2> QED
    BY <2>1
<1> QED
  BY <1>3, <1>4 DEF Streaks!Latest

\* A day the streak or a snapshot stands on is a day the user wrote on.
StandsOn(d) == d # 0 => d \in wrote
OnePass == ~overlap => \A p, q \in Hosts: p # q => scan[p].pc = "sleep" \/ scan[q].pc = "sleep"
\* While one scan runs alone the streak lags behind its snapshot.
RowLags ==
    \A p \in Hosts: scan[p].pc = "update" =>
        scan[p].last # 0 /\ scan[p].last \in wrote /\ (~overlap => streak.last <= scan[p].last)
Earned ==
    ~overlap => streak.current <= Run(wrote, streak.last) /\ \E d \in 0..Days: streak.longest <= Run(wrote, d)

StreakInv ==
    /\ Streaks!TypeOK /\ StandsOn(streak.last) /\ OnePass /\ RowLags
    /\ streak.current <= streak.longest /\ Earned

RowRec == [current: Nat, longest: Nat, last: 0..Days]
PassRec == [pc: {"sleep", "update", "find", "reset"}, last: 0..Days]

LEMMA StreakTypes ==
    ASSUME Streaks!StreakAssumption, Streaks!TypeOK
    PROVE  /\ Days \in Nat \ {0} /\ today \in 1..Days /\ wrote \subseteq 1..Days /\ streak \in RowRec
           /\ streak.last \in Nat /\ streak.current \in Nat /\ streak.longest \in Nat /\ scan \in [Hosts -> PassRec]
BY DEF Streaks!StreakAssumption, Streaks!TypeOK, RowRec, PassRec, Streaks!NoDay

\* A step that leaves streak and snapshot steps alone but may add a day.
LEMMA DayStep ==
    ASSUME Streaks!StreakAssumption, StreakInv, Streaks!NewDay \/ Streaks!Write \/ UNCHANGED Streaks!streakVars
    PROVE  StreakInv'
<1>1. /\ today' \in 1..Days /\ wrote' \subseteq 1..today' /\ wrote \subseteq wrote'
      /\ UNCHANGED <<streak, scan, ran, overlap>>
  <2>1. Days \in Nat /\ today \in 1..Days /\ wrote \subseteq 1..today
    BY StreakTypes DEF StreakInv, Streaks!TypeOK
  <2>2. CASE Streaks!NewDay
    BY <2>1, <2>2 DEF Streaks!NewDay
  <2>3. CASE Streaks!Write
    <3>1. wrote' = wrote \cup {today} /\ UNCHANGED <<today, streak, scan, ran, overlap>>
      BY <2>3 DEF Streaks!Write
    <3>2. wrote' \subseteq 1..today /\ wrote \subseteq wrote'
      BY <2>1, <3>1
    <3> QED
      BY <2>1, <3>1, <3>2, Zenon
  <2>4. CASE UNCHANGED Streaks!streakVars
    BY <2>1, <2>4, Zenon DEF Streaks!streakVars
  <2> QED
    BY <2>2, <2>3, <2>4
<1>2. Streaks!TypeOK' /\ OnePass' /\ RowLags' /\ StandsOn(streak.last)' /\ (streak.current <= streak.longest)'
  BY <1>1 DEF StreakInv, Streaks!TypeOK, OnePass, RowLags, StandsOn
<1>3. Earned'
  <2> SUFFICES ASSUME ~overlap
               PROVE  streak.current <= Run(wrote', streak.last) /\ \E d \in 0..Days: streak.longest <= Run(wrote', d)
    BY <1>1 DEF Earned
  <2>1. PICK d \in 0..Days: streak.longest <= Run(wrote, d)
    BY DEF StreakInv, Earned
  <2>2. /\ streak.last \in Nat /\ d \in Nat /\ streak.current \in Nat /\ streak.longest \in Nat
        /\ streak.current <= Run(wrote, streak.last)
    BY StreakTypes DEF StreakInv, Earned
  <2>3. /\ Run(wrote, streak.last) <= Run(wrote', streak.last) /\ Run(wrote, d) <= Run(wrote', d)
        /\ Run(wrote, d) \in Nat /\ Run(wrote', d) \in Nat
        /\ Run(wrote, streak.last) \in Nat /\ Run(wrote', streak.last) \in Nat
    BY <1>1, <2>2, RunGrows, RunIsNumber
  <2>4. streak.longest <= Run(wrote', d) /\ streak.current <= Run(wrote', streak.last)
    BY <2>1, <2>2, <2>3
  <2> QED
    BY <2>4
<1> QED
  BY <1>2, <1>3 DEF StreakInv

\* A step of one scan on to another of its steps.
LEMMA ScanMoves ==
    ASSUME Streaks!StreakAssumption, StreakInv, NEW p \in Hosts, NEW step \in {"sleep", "update", "find", "reset"},
           NEW last \in 0..Days, Streaks!Step(p, step, last)
    PROVE  /\ scan' \in [Hosts -> PassRec] /\ scan'[p].pc = step /\ scan'[p].last = last
           /\ \A q \in Hosts \ {p}: scan'[q] = scan[q]
BY StreakTypes DEF StreakInv, Streaks!Step, PassRec

LEMMA SnapshotStep ==
    ASSUME Streaks!StreakAssumption, StreakInv, NEW p \in Hosts, Streaks!Snapshot(p)
    PROVE  StreakInv'
<1>0. Days \in Nat \ {0} /\ today \in 1..Days /\ wrote \in SUBSET (1..today) /\ streak.last \in Nat
  BY StreakTypes DEF StreakInv, Streaks!TypeOK
<1>1. /\ Streaks!Latest(wrote) \in 0..Days
      /\ wrote # {} => Streaks!Latest(wrote) \in wrote /\ Streaks!Latest(wrote) # 0
      /\ wrote # {} => streak.last <= Streaks!Latest(wrote)
  <2>1. CASE wrote = {}
    BY <1>0, <2>1 DEF Streaks!Latest, Streaks!NoDay
  <2>2. CASE wrote # {}
    <3>1. Streaks!Latest(wrote) \in wrote /\ \A e \in wrote: e <= Streaks!Latest(wrote)
      BY <1>0, <2>2, LatestIsLast
    <3>2. streak.last = 0 \/ streak.last \in wrote
      BY DEF StreakInv, StandsOn
    <3>3. Streaks!Latest(wrote) \in 1..today
      BY <1>0, <3>1
    <3> QED
      BY <1>0, <2>2, <3>1, <3>2, <3>3
  <2> QED
    BY <2>1, <2>2
<1> DEFINE step == IF wrote = {} THEN "find" ELSE "update"
<1>2. /\ scan[p].pc = "sleep" /\ Streaks!Step(p, step, Streaks!Latest(wrote)) /\ ran' = [ran EXCEPT ![p] = today]
      /\ overlap' = (overlap \/ \E q \in Hosts \ {p}: scan[q].pc # "sleep") /\ UNCHANGED <<today, wrote, streak>>
  BY DEF Streaks!Snapshot
<1>3. /\ scan' \in [Hosts -> PassRec] /\ scan'[p].pc = step /\ scan'[p].last = Streaks!Latest(wrote)
      /\ \A q \in Hosts \ {p}: scan'[q] = scan[q]
  BY <1>1, <1>2, ScanMoves
<1>4. overlap' \in BOOLEAN /\ (overlap => overlap') /\ (~overlap' => \A q \in Hosts \ {p}: scan[q].pc = "sleep")
  BY <1>2
<1>5. Streaks!TypeOK'
  <2>1. ran' \in [Hosts -> 0..Days]
    BY <1>0, <1>2 DEF StreakInv, Streaks!TypeOK, Streaks!NoDay
  <2> QED
    BY <1>2, <1>3, <1>4, <2>1 DEF StreakInv, Streaks!TypeOK, PassRec, Streaks!NoDay
<1>6. OnePass'
  BY <1>3, <1>4 DEF OnePass
<1>7. RowLags'
  <2> SUFFICES ASSUME NEW q \in Hosts, scan'[q].pc = "update"
               PROVE  scan'[q].last # 0 /\ scan'[q].last \in wrote /\ (~overlap' => streak.last <= scan'[q].last)
    BY <1>2 DEF RowLags
  <2>1. CASE q = p
    BY <1>1, <1>3, <2>1
  <2>2. CASE q # p
    BY <1>3, <1>4, <2>2 DEF StreakInv, RowLags
  <2> QED
    BY <2>1, <2>2
<1>8. Earned' /\ StandsOn(streak.last)' /\ (streak.current <= streak.longest)'
  BY <1>2, <1>4 DEF StreakInv, Earned, StandsOn
<1> QED
  BY <1>5, <1>6, <1>7, <1>8 DEF StreakInv

LEMMA NewStreakIsEarned ==
    ASSUME Streaks!StreakAssumption, StreakInv, NEW last \in 1..Days, last \in wrote
    PROVE  /\ Streaks!NewStreak(last) \in Nat
           /\ ~overlap /\ streak.last <= last => Streaks!NewStreak(last) <= Run(wrote, last)
<1>1. streak.last \in Nat /\ streak.current \in Nat /\ last \in Nat \ {0} /\ Run(wrote, last) \in Nat
  BY StreakTypes, RunIsNumber DEF StreakInv
<1>2. Run(wrote, last) >= 1
  BY <1>1, RunOfDay
<1>3. ~overlap => streak.current <= Run(wrote, streak.last) /\ Run(wrote, streak.last) \in Nat
  BY <1>1, RunIsNumber DEF StreakInv, Earned
<1>4. last = streak.last + 1 => Run(wrote, last) = Run(wrote, streak.last) + 1
  BY <1>1, RunGoesOn
<1>5. CASE streak.last = 0
  BY <1>1, <1>2, <1>5 DEF Streaks!NewStreak, Streaks!NoDay
<1>6. CASE streak.last # 0 /\ last = streak.last
  BY <1>1, <1>3, <1>6 DEF Streaks!NewStreak, Streaks!NoDay
<1>7. CASE streak.last # 0 /\ last = streak.last + 1
  BY <1>1, <1>3, <1>4, <1>7 DEF Streaks!NewStreak, Streaks!NoDay
<1>8. CASE streak.last # 0 /\ last > streak.last + 1
  BY <1>1, <1>2, <1>8 DEF Streaks!NewStreak, Streaks!NoDay
<1>9. CASE streak.last # 0 /\ last < streak.last
  BY <1>1, <1>9 DEF Streaks!NewStreak, Streaks!NoDay
<1> QED
  BY <1>1, <1>5, <1>6, <1>7, <1>8, <1>9

LEMMA UpdateStep ==
    ASSUME Streaks!StreakAssumption, StreakInv, NEW p \in Hosts, Streaks!Update(p)
    PROVE  StreakInv'
<1> DEFINE last == scan[p].last
           grown == Streaks!NewStreak(last)
<1>1. /\ last \in 1..Days /\ last \in wrote /\ (~overlap => streak.last <= last) /\ last \in 0..Days
      /\ scan[p].pc = "update" /\ UNCHANGED <<today, wrote, ran, overlap>>
      /\ Streaks!Step(p, "find", last)
  BY StreakTypes DEF StreakInv, RowLags, Streaks!Update, PassRec
<1>2. /\ scan' \in [Hosts -> PassRec] /\ scan'[p].pc = "find" /\ \A q \in Hosts \ {p}: scan'[q] = scan[q]
  BY <1>1, ScanMoves
<1>3. OnePass'
  BY <1>1, <1>2 DEF StreakInv, OnePass
<1>4. ~overlap => \A q \in Hosts \ {p}: scan[q].pc # "update"
  BY <1>1 DEF StreakInv, OnePass
<1>5. CASE UNCHANGED streak
  <2>1. Streaks!TypeOK' /\ StandsOn(streak.last)' /\ RowLags' /\ (streak.current <= streak.longest)' /\ Earned'
    BY <1>1, <1>2, <1>5 DEF StreakInv, Streaks!TypeOK, StandsOn, RowLags, Earned, PassRec, Streaks!NoDay
  <2> QED
    BY <1>3, <2>1 DEF StreakInv
<1>6. CASE streak' = [current |-> grown, longest |-> Streaks!Highest(streak.longest, grown), last |-> last]
  <2>1. grown \in Nat /\ (~overlap => grown <= Run(wrote, last)) /\ Run(wrote, last) \in Nat
    BY <1>1, NewStreakIsEarned, RunIsNumber
  <2>2. streak.longest \in Nat /\ (~overlap => \E d \in 0..Days: streak.longest <= Run(wrote, d))
    BY StreakTypes DEF StreakInv, Earned
  <2> HIDE DEF grown, last
  <2>3. /\ streak' \in RowRec /\ streak'.current = grown /\ streak'.last = last
        /\ streak'.longest \in {streak.longest, grown} /\ grown <= streak'.longest
    BY <1>1, <1>6, <2>1, <2>2 DEF RowRec, Streaks!Highest
  <2>4. Streaks!TypeOK' /\ StandsOn(streak.last)' /\ (streak.current <= streak.longest)'
    BY <1>1, <1>2, <2>3 DEF StreakInv, Streaks!TypeOK, StandsOn, RowRec, PassRec, Streaks!NoDay
  <2>5. RowLags'
    BY <1>1, <1>2, <1>4 DEF StreakInv, RowLags
  <2>6. Earned'
    BY <1>1, <2>1, <2>2, <2>3 DEF Earned
  <2> QED
    BY <1>3, <2>4, <2>5, <2>6 DEF StreakInv
<1> QED
  BY <1>5, <1>6 DEF Streaks!Update

LEMMA RestSteps ==
    ASSUME Streaks!StreakAssumption, StreakInv, NEW p \in Hosts, Streaks!FindDormant(p) \/ Streaks!Reset(p)
    PROVE  StreakInv'
<1>1. /\ UNCHANGED <<today, wrote, ran, overlap>>
      /\ \E step \in {"sleep", "reset"}: Streaks!Step(p, step, 0)
      /\ streak' = streak \/ streak' = [streak EXCEPT !.current = 0]
      /\ scan[p].pc \in {"find", "reset"}
  BY DEF Streaks!FindDormant, Streaks!Reset, Streaks!NoDay
<1>2. /\ scan' \in [Hosts -> PassRec] /\ scan'[p].pc \in {"sleep", "reset"}
      /\ \A q \in Hosts \ {p}: scan'[q] = scan[q]
  BY <1>1, ScanMoves, StreakTypes DEF StreakInv
<1>3. /\ streak' \in RowRec /\ streak'.last = streak.last /\ streak'.longest = streak.longest /\ streak'.current \in {streak.current, 0}
  BY <1>1, StreakTypes DEF StreakInv, RowRec
<1>4. OnePass' /\ RowLags' /\ StandsOn(streak.last)'
  BY <1>1, <1>2, <1>3 DEF StreakInv, OnePass, RowLags, StandsOn
<1>5. Streaks!TypeOK'
  BY <1>1, <1>2, <1>3 DEF StreakInv, Streaks!TypeOK, RowRec, PassRec, Streaks!NoDay
<1>6. (streak.current <= streak.longest)' /\ Earned'
  <2>1. Run(wrote, streak.last) \in Nat /\ streak.longest \in Nat /\ streak.current \in Nat
    BY StreakTypes, RunIsNumber DEF StreakInv
  <2> QED
    BY <1>1, <1>3, <2>1 DEF StreakInv, Earned
<1> QED
  BY <1>4, <1>5, <1>6 DEF StreakInv

LEMMA StreakInductive ==
    ASSUME Streaks!StreakAssumption
    PROVE  Streaks!Spec => []StreakInv
<1>1. Streaks!Init => StreakInv
  <2> SUFFICES ASSUME Streaks!Init
               PROVE  StreakInv
    OBVIOUS
  <2>1. Days \in Nat \ {0}
    BY DEF Streaks!StreakAssumption
  <2>2. Streaks!TypeOK /\ streak.last = 0 /\ streak.current = 0 /\ streak.longest = 0
    <3>1. Streaks!Asleep \in PassRec
      BY <2>1 DEF Streaks!Asleep, PassRec, Streaks!NoDay
    <3>1a. /\ scan = [p \in Hosts |-> Streaks!Asleep] /\ ran = [p \in Hosts |-> 0] /\ overlap \in BOOLEAN
      BY Zenon DEF Streaks!Init, Streaks!NoDay
    <3>2. scan \in [Hosts -> PassRec] /\ ran \in [Hosts -> 0..Days] /\ overlap \in BOOLEAN
      BY <2>1, <3>1, <3>1a
    <3>3. streak \in RowRec /\ streak.last = 0 /\ streak.current = 0 /\ streak.longest = 0
      BY <2>1 DEF Streaks!Init, RowRec, Streaks!NoDay
    <3>4. today \in 1..Days /\ wrote \subseteq 1..today
      BY <2>1 DEF Streaks!Init
    <3> QED
      BY <3>2, <3>3, <3>4 DEF Streaks!TypeOK, PassRec, RowRec, Streaks!NoDay
  <2>3. Run(wrote, 0) \in Nat /\ 0 \in 0..Days
    BY <2>1, RunIsNumber
  <2>4. Earned
    BY <2>2, <2>3 DEF Earned
  <2> QED
    BY <2>2, <2>4 DEF Streaks!Init, StreakInv, StandsOn, OnePass, RowLags, Streaks!Asleep
<1>2. StreakInv /\ [Streaks!Next]_Streaks!streakVars => StreakInv'
  BY DayStep, SnapshotStep, UpdateStep, RestSteps DEF Streaks!Next
<1> QED
  BY <1>1, <1>2, PTL DEF Streaks!Spec

\* streak_tracker.py: however the days, the messages and the passes of all processes
\* interleave, the longest streak is never shorter than the current one, and as long as no
\* two passes overlap neither is longer than days the user really wrote on in a streak.
THEOREM StreaksStayEarned ==
    ASSUME Streaks!StreakAssumption
    PROVE  Streaks!Spec => []StreaksAreEarned
<1>1. StreakInv => Streaks!StreaksAreEarned
  <2>1. \A d: Streaks!RunUpTo(d) = Run(wrote, d)
    BY DEF Streaks!RunUpTo, Run, RunSet, Streaks!Cardinality, Cardinality
  <2> QED
    BY <2>1 DEF StreakInv, Earned, Streaks!StreaksAreEarned, Streaks!NoDay
<1> QED
  BY <1>1, StreakInductive, PTL DEF StreaksAreEarned

-----------------------------------------------------------------------------
(* Skill setup.                                                            *)

Calling(c) == setup[c].pc \in {"think", "status", "merge"}
\* A call that read the row after it was last paused, or after a key was last written,
\* read what is still there.
ReadsHold ==
    \A c \in Edits: Calling(c) =>
        /\ skill.status = "paused" /\ written.pause <= read[c] => setup[c].row.status = "paused"
        /\ \A f \in Fields: written.setup[f] <= read[c] => setup[c].row.setup[f] = skill.setup[f]
CallsKnowTheirStep ==
    \A c \in Edits:
        /\ setup[c].pc = "think" => setup[c].row = Skills!NoRow
        /\ setup[c].pc \in {"status", "put"} => setup[c].status # "none"
        /\ setup[c].pc \in {"status", "merge"} => setup[c].row.status # "none"
\* Only what never had a row has a setup nobody wrote.
NoRowIsEmpty == skill.status = "none" => skill = Skills!NoRow

SkillInv == Skills!TypeOK /\ ReadsHold /\ CallsKnowTheirStep /\ NoRowIsEmpty

LEMMA SkillInit ==
    ASSUME Skills!SkillAssumption, Skills!Init
    PROVE  SkillInv
<1> USE DEF Skills!SkillAssumption, Skills!Init, Skills!Nobody, Skills!NoRow, Skills!Quiet
<1>1. Skills!TypeOK
  BY DEF Skills!TypeOK, Skills!Row, Skills!Statuses
<1>2. ReadsHold /\ CallsKnowTheirStep /\ NoRowIsEmpty
  BY DEF ReadsHold, Calling, CallsKnowTheirStep, NoRowIsEmpty
<1> QED
  BY <1>1, <1>2 DEF SkillInv

\* A write of a row with a status changes what it says, and makes every earlier read of
\* what it changed an old one.
LEMMA WriteEffect ==
    ASSUME SkillInv, NEW status \in Skills!Statuses,
           NEW kept \in [Fields -> Edits \cup {Skills!Nobody}],
           Skills!Write(status, kept)
    PROVE  /\ skill' = [status |-> status, setup |-> kept] /\ skill' \in Skills!Row
           /\ skill'.status # "none"
           /\ version' \in Nat /\ version' = version + 1 /\ read' = read
           /\ read \in [Edits -> 0..version'] /\ \A c \in Edits: read[c] < version'
           /\ written' \in [pause: 0..version', setup: [Fields -> 0..version']]
           /\ written'.pause = IF status = "paused" THEN version' ELSE written.pause
           /\ \A f \in Fields: written'.setup[f] =
                  IF kept[f] # skill.setup[f] THEN version' ELSE written.setup[f]
<1> USE DEF SkillInv, Skills!TypeOK, Skills!Write
<1>1. /\ skill' = [status |-> status, setup |-> kept] /\ skill' \in Skills!Row /\ skill'.status # "none"
  BY DEF Skills!Row, Skills!Statuses
<1>2. /\ version' \in Nat /\ version' = version + 1 /\ read' = read
      /\ read \in [Edits -> 0..version'] /\ \A c \in Edits: read[c] < version'
  OBVIOUS
<1>3. written.pause \in 0..version' /\ \A f \in Fields: written.setup[f] \in 0..version'
  BY <1>2
<1> QED
  BY <1>1, <1>2, <1>3

\* What a step that writes a row and moves one call on leaves true.
LEMMA WriteKeeps ==
    ASSUME SkillInv, NEW c \in Edits, NEW status \in Skills!Statuses,
           NEW kept \in [Fields -> Edits \cup {Skills!Nobody}],
           Skills!Write(status, kept),
           \/ Skills!Ends(c)
           \/ setup[c].pc = "status" /\ setup' = [setup EXCEPT ![c].pc = "merge"]
    PROVE  SkillInv'
<1> USE DEF SkillInv
<1>1. /\ skill' = [status |-> status, setup |-> kept] /\ skill' \in Skills!Row
      /\ skill'.status # "none"
      /\ version' \in Nat /\ version' = version + 1 /\ read' = read
      /\ read \in [Edits -> 0..version'] /\ \A d \in Edits: read[d] < version'
      /\ written' \in [pause: 0..version', setup: [Fields -> 0..version']]
      /\ written'.pause = IF status = "paused" THEN version' ELSE written.pause
      /\ \A f \in Fields: written'.setup[f] =
             IF kept[f] # skill.setup[f] THEN version' ELSE written.setup[f]
  BY WriteEffect
<1>2. Skills!TypeOK'
  <2>1. setup' \in [Edits -> [pc: {"idle", "think", "status", "merge", "put", "done"},
                              row: Skills!Row, fields: SUBSET Fields,
                              status: Skills!Statuses \cup {"none"}]]
    <3>1. [Skills!Quiet EXCEPT !.pc = "done"] = [pc |-> "done", row |-> Skills!NoRow, fields |-> {}, status |-> "none"]
      BY DEF Skills!Quiet
    <3>2. Skills!NoRow \in Skills!Row
      BY DEF Skills!Row, Skills!NoRow, Skills!Nobody
    <3>3. CASE Skills!Ends(c)
      BY <3>1, <3>2, <3>3 DEF Skills!TypeOK, Skills!Ends
    <3>4. CASE setup' = [setup EXCEPT ![c].pc = "merge"]
      BY <3>4 DEF Skills!TypeOK
    <3> QED
      BY <3>3, <3>4
  <2> QED
    BY <1>1, <2>1 DEF Skills!TypeOK
<1>3. \A d \in Edits: /\ Calling(d)' => Calling(d) /\ setup'[d].row = setup[d].row
                      /\ setup'[d].pc \in {"think", "put", "status"} => setup'[d] = setup[d]
                      /\ setup'[d].pc = "merge" => setup[d].pc \in {"status", "merge"}
  BY DEF Skills!TypeOK, Skills!Ends, Skills!Quiet, Calling
<1>4. ReadsHold'
  <2> SUFFICES ASSUME NEW d \in Edits, Calling(d)'
               PROVE  /\ skill'.status = "paused" /\ written'.pause <= read'[d]
                            => setup'[d].row.status = "paused"
                      /\ \A f \in Fields: written'.setup[f] <= read'[d]
                            => setup'[d].row.setup[f] = skill'.setup[f]
    BY DEF ReadsHold
  <2>1. Calling(d) /\ setup'[d].row = setup[d].row /\ read[d] \in 0..version /\ read[d] < version'
    BY <1>1, <1>3 DEF Skills!TypeOK
  <2>2. ~(skill'.status = "paused" /\ written'.pause <= read'[d])
    BY <1>1, <2>1
  <2>3. ASSUME NEW f \in Fields, written'.setup[f] <= read'[d]
        PROVE  setup'[d].row.setup[f] = skill'.setup[f]
    BY <1>1, <2>1, <2>3 DEF ReadsHold
  <2> QED
    BY <2>2, <2>3
<1>5. CallsKnowTheirStep' /\ NoRowIsEmpty'
  BY <1>1, <1>3 DEF CallsKnowTheirStep, NoRowIsEmpty, Calling
<1> QED
  BY <1>2, <1>4, <1>5

LEMMA LookKeeps ==
    ASSUME SkillInv, NEW c \in Edits, NEW step \in {"think", "status", "merge", "done"},
           NEW fields \in SUBSET Fields, NEW status \in Skills!Statuses \cup {"none"},
           step = "think" => skill.status = "none", step = "status" => status # "none",
           step \in {"status", "merge"} => skill.status # "none",
           Skills!Looks(c, step, fields, status)
    PROVE  SkillInv' /\ skill' = skill
<1> USE DEF SkillInv, Skills!Looks, Skills!TypeOK
<1>1. Skills!TypeOK'
  OBVIOUS
<1>2. ReadsHold'
  <2> SUFFICES ASSUME NEW d \in Edits, Calling(d)'
               PROVE  /\ skill'.status = "paused" /\ written'.pause <= read'[d]
                            => setup'[d].row.status = "paused"
                      /\ \A f \in Fields: written'.setup[f] <= read'[d]
                            => setup'[d].row.setup[f] = skill'.setup[f]
    BY DEF ReadsHold
  <2>1. CASE d = c
    BY <2>1
  <2>2. CASE d # c
    BY <2>2 DEF ReadsHold, Calling
  <2> QED
    BY <2>1, <2>2
<1>3. CallsKnowTheirStep' /\ NoRowIsEmpty'
  BY DEF CallsKnowTheirStep, NoRowIsEmpty
<1> QED
  BY <1>1, <1>2, <1>3

\* What a pause and a preference outlive, as one step.
PauseHeld ==
    skill.status = "paused" /\ skill'.status # "paused" =>
        \E c \in Edits :
            /\ Skills!Acts(c)
            /\ setup[c].status \notin {"none", "paused"} \/ read[c] < written.pause
PreferencesHeld ==
    \A f \in Fields : skill'.setup[f] # skill.setup[f] =>
        \E c \in Edits :
            /\ Skills!Acts(c)
            /\ \/ f \in setup[c].fields \/ setup[c].pc = "put"
               \/ read[c] < written.setup[f] \/ skill.setup[f] = Skills!Nobody

LEMMA PersistStep ==
    ASSUME SkillInv, NEW c \in Edits, Skills!Persist(c)
    PROVE  SkillInv' /\ PauseHeld /\ PreferencesHeld
<1> USE DEF SkillInv
<1>1. setup[c].pc = "think" /\ Calling(c) /\ setup[c].row = Skills!NoRow /\ Skills!Ends(c)
  BY DEF Skills!Persist, Calling, CallsKnowTheirStep
<1>2. Skills!Acts(c)
  BY <1>1 DEF Skills!Acts, Skills!Ends, Skills!Quiet, Skills!TypeOK
<1>3. skill.status = "paused" => read[c] < written.pause
  BY <1>1 DEF ReadsHold, Skills!NoRow, Skills!TypeOK
<1>4. \A f \in Fields: read[c] < written.setup[f] \/ skill.setup[f] = Skills!Nobody
  BY <1>1 DEF ReadsHold, Skills!NoRow, Skills!TypeOK
<1>5. PauseHeld /\ PreferencesHeld
  BY <1>2, <1>3, <1>4 DEF PauseHeld, PreferencesHeld
<1>6. CASE UNCHANGED <<skill, version, written, read>>
  <2>1. Skills!TypeOK'
    BY <1>1, <1>6 DEF Skills!TypeOK, Skills!Ends, Skills!Quiet, Skills!NoRow, Skills!Row, Skills!Nobody
  <2>2. ReadsHold' /\ CallsKnowTheirStep' /\ NoRowIsEmpty'
    BY <1>1, <1>6 DEF ReadsHold, CallsKnowTheirStep, NoRowIsEmpty, Calling, Skills!Ends, Skills!Quiet, Skills!TypeOK
  <2> QED
    BY <1>5, <2>1, <2>2
<1>7. CASE \E status \in Skills!Statuses, kept \in [Fields -> Edits \cup {Skills!Nobody}]:
              Skills!Write(status, kept)
  BY <1>1, <1>5, <1>7, WriteKeeps
<1>8. skill.setup \in [Fields -> Edits \cup {Skills!Nobody}]
  BY DEF Skills!TypeOK, Skills!Row
<1>9. \A fields \in SUBSET Fields:
        [f \in Fields |-> IF f \in fields THEN c ELSE Skills!Nobody]
          \in [Fields -> Edits \cup {Skills!Nobody}]
  OBVIOUS
<1>10. "active" \in Skills!Statuses /\ "onboarding_partial" \in Skills!Statuses
  BY DEF Skills!Statuses
<1> QED
  BY <1>6, <1>7, <1>8, <1>9, <1>10 DEF Skills!Persist

LEMMA SetStatusStep ==
    ASSUME SkillInv, NEW c \in Edits, Skills!SetStatus(c)
    PROVE  SkillInv' /\ PauseHeld /\ PreferencesHeld
<1> USE DEF SkillInv
<1>1. setup[c].pc = "status" /\ setup[c].status \in Skills!Statuses
      /\ skill.setup \in [Fields -> Edits \cup {Skills!Nobody}]
  BY DEF Skills!SetStatus, CallsKnowTheirStep, Skills!TypeOK, Skills!Row
<1>2. Skills!Write(setup[c].status, skill.setup)
      /\ (Skills!Ends(c) \/ setup' = [setup EXCEPT ![c].pc = "merge"])
  BY DEF Skills!SetStatus
<1>3. SkillInv'
  BY <1>1, <1>2, WriteKeeps
<1>4. Skills!Acts(c)
  BY <1>1, <1>2 DEF Skills!Acts, Skills!Ends, Skills!Quiet, Skills!TypeOK
<1>5. skill'.status = setup[c].status /\ skill'.setup = skill.setup
  BY <1>2 DEF Skills!Write
<1>6. PauseHeld
  BY <1>1, <1>4, <1>5 DEF PauseHeld, CallsKnowTheirStep
<1> QED
  BY <1>3, <1>5, <1>6 DEF PreferencesHeld

LEMMA MergeStep ==
    ASSUME SkillInv, NEW c \in Edits, Skills!Merge(c)
    PROVE  SkillInv' /\ PauseHeld /\ PreferencesHeld
<1> USE DEF SkillInv
<1> DEFINE kept == [f \in Fields |-> IF f \in setup[c].fields THEN c ELSE setup[c].row.setup[f]]
<1>1. setup[c].pc = "merge" /\ Calling(c) /\ Skills!Ends(c) /\ setup[c].row \in Skills!Row
  BY DEF Skills!Merge, Calling, Skills!TypeOK
<1>2. Skills!Write(Skills!StatusAfter(c), kept)
  BY DEF Skills!Merge
<1>3. kept \in [Fields -> Edits \cup {Skills!Nobody}]
  BY <1>1 DEF Skills!Row
<1>4. Skills!StatusAfter(c) \in Skills!Statuses
  BY <1>1 DEF Skills!StatusAfter, Skills!TypeOK, Skills!Row, CallsKnowTheirStep
<1>5. SkillInv'
  BY <1>1, <1>2, <1>3, <1>4, WriteKeeps
<1>6. Skills!Acts(c)
  BY <1>1 DEF Skills!Acts, Skills!Ends, Skills!Quiet, Skills!TypeOK
<1>7. skill'.status = Skills!StatusAfter(c) /\ skill'.setup = kept
  BY <1>2 DEF Skills!Write
<1>8. PauseHeld
  BY <1>1, <1>6, <1>7 DEF PauseHeld, Skills!StatusAfter, ReadsHold, Skills!TypeOK
<1>9. PreferencesHeld
  BY <1>1, <1>6, <1>7 DEF PreferencesHeld, ReadsHold, Skills!TypeOK
<1> QED
  BY <1>5, <1>8, <1>9

LEMMA PutStateStep ==
    ASSUME SkillInv, NEW c \in Edits, Skills!Put(c)
    PROVE  SkillInv' /\ PauseHeld /\ PreferencesHeld
<1> USE DEF SkillInv
<1>1. setup[c].pc = "put" /\ Skills!Ends(c) /\ setup[c].status \in Skills!Statuses
      /\ skill.setup \in [Fields -> Edits \cup {Skills!Nobody}]
  BY DEF Skills!Put, CallsKnowTheirStep, Skills!TypeOK, Skills!Row
<1>2. PICK kept \in [Fields -> Edits \cup {Skills!Nobody}]: Skills!Write(setup[c].status, kept)
  BY <1>1 DEF Skills!Put
<1>3. SkillInv'
  BY <1>1, <1>2, WriteKeeps
<1>4. Skills!Acts(c)
  BY <1>1 DEF Skills!Acts, Skills!Ends, Skills!Quiet, Skills!TypeOK
<1>5. skill'.status = setup[c].status
  BY <1>2 DEF Skills!Write
<1> QED
  BY <1>1, <1>3, <1>4, <1>5 DEF PauseHeld, PreferencesHeld, CallsKnowTheirStep

LEMMA AskPutStep ==
    ASSUME SkillInv, NEW c \in Edits, NEW fields \in SUBSET Fields, NEW status \in Skills!Statuses,
           Skills!AskPut(c, fields, status)
    PROVE  SkillInv' /\ skill' = skill
<1> USE DEF SkillInv, Skills!AskPut, Skills!TypeOK
<1>1. Skills!NoRow \in Skills!Row /\ status # "none"
  BY DEF Skills!NoRow, Skills!Row, Skills!Nobody, Skills!Statuses
<1>2. Skills!TypeOK'
  BY <1>1
<1>3. ReadsHold' /\ CallsKnowTheirStep' /\ NoRowIsEmpty'
  BY <1>1 DEF ReadsHold, CallsKnowTheirStep, NoRowIsEmpty, Calling
<1> QED
  BY <1>2, <1>3

LEMMA SkillInductive ==
    ASSUME SkillInv, [Skills!Next]_(Skills!skillVars)
    PROVE  SkillInv' /\ PauseHeld /\ PreferencesHeld
<1>1. ASSUME skill' = skill
      PROVE  PauseHeld /\ PreferencesHeld
  BY <1>1 DEF PauseHeld, PreferencesHeld
<1>2. CASE UNCHANGED Skills!skillVars
  <2>1. SkillInv'
    BY <1>2 DEF SkillInv, ReadsHold, CallsKnowTheirStep, NoRowIsEmpty, Calling, Skills!TypeOK,
                Skills!skillVars
  <2> QED
    BY <1>1, <1>2, <2>1 DEF Skills!skillVars
<1>3. ASSUME NEW c \in Edits, Skills!Prepare(c)
      PROVE  SkillInv' /\ PauseHeld /\ PreferencesHeld
  <2>1. PICK step \in {"think", "done"}:
            (step = "think" => skill.status = "none") /\ Skills!Looks(c, step, {}, "none")
    BY <1>3 DEF Skills!Prepare, Skills!Exists
  <2> QED
    BY <1>1, <2>1, LookKeeps
<1>4. ASSUME NEW c \in Edits, NEW fields \in SUBSET Fields,
             NEW status \in {"none", "active", "paused"}, Skills!AskEdit(c, fields, status)
      PROVE  SkillInv' /\ PauseHeld /\ PreferencesHeld
  <2>1. PICK step \in {"status", "merge", "done"}:
            (step = "status" => status # "none") /\ Skills!Looks(c, step, fields, status)
    BY <1>4 DEF Skills!AskEdit
  <2>1a. skill.status # "none"
    BY <1>4 DEF Skills!AskEdit, Skills!Exists
  <2>2. status \in Skills!Statuses \cup {"none"}
    BY DEF Skills!Statuses
  <2> QED
    BY <1>1, <2>1, <2>1a, <2>2, LookKeeps
<1> QED
  BY <1>1, <1>2, <1>3, <1>4, PersistStep, SetStatusStep, MergeStep, PutStateStep, AskPutStep
  DEF Skills!Next

\* A skill the user paused stays paused, and a preference they set stays, through any
\* number of racing turns and requests: a step that ends the one or replaces the other
\* was asked to, or belongs to a call that read the row before (skills.py, _persist_parsed
\* _skill_state of routes/chat.py).
THEOREM SetupStays ==
    ASSUME Skills!SkillAssumption
    PROVE  Skills!Spec => SkillStays
<1>1. Skills!Init => SkillInv
  BY SkillInit
<1>2. SkillInv /\ [Skills!Next]_(Skills!skillVars) => SkillInv'
  BY SkillInductive
<1>3. SkillInv /\ [Skills!Next]_(Skills!skillVars) =>
          (skill.status = "paused" /\ skill'.status # "paused" =>
              \E c \in Edits :
                  Skills!Acts(c) /\ (setup[c].status \notin {"none", "paused"} \/ read[c] < written.pause))
  BY SkillInductive DEF PauseHeld
<1>4. SkillInv /\ [Skills!Next]_(Skills!skillVars) =>
          \A f \in Fields : skill'.setup[f] # skill.setup[f] =>
              \E c \in Edits :
                  /\ Skills!Acts(c)
                  /\ \/ f \in setup[c].fields \/ setup[c].pc = "put"
                      \/ read[c] < written.setup[f] \/ skill.setup[f] = Skills!Nobody
  BY SkillInductive DEF PreferencesHeld
<1>5. Skills!Spec => Skills!PauseStays
  BY <1>1, <1>2, <1>3, PTL DEF Skills!Spec, Skills!PauseStays
<1>6. Skills!Spec => Skills!PreferencesStay
  BY <1>1, <1>2, <1>4, PTL DEF Skills!Spec, Skills!PreferencesStay
<1> QED
  BY <1>5, <1>6 DEF SkillStays

-----------------------------------------------------------------------------
(* Memory.                                                                 *)

\* The rows a pass over the present facts would drop.
Older(s) == \E t \in DOMAIN facts: FactMemory!NearRows(s, t) /\ facts[s].at < facts[t].at
OldOnes == {s \in DOMAIN facts: Older(s)}

FactsAreNumbered == \A s \in DOMAIN facts: facts[s].id <= clock /\ facts[s].at <= clock
TasksAreTyped ==
    \A m \in Messages: task[m].pc = "store" =>
        DOMAIN task[m].left \subseteq Slots /\ \A s \in DOMAIN task[m].left: task[m].left[s] \in Values
\* What a pass is about to delete is what it would delete now, unless a row changed.
ListIsCurrent ==
    \A p \in Passes: pass[p].pc = "delete" /\ p \notin stale =>
        pass[p].losers = {facts[s].id: s \in OldOnes}
\* The steps of the tasks and the passes are records.
Recorded ==
    /\ task \in [Messages -> [pc: {"idle", "store", "done"}, left: {task[m].left: m \in Messages}]]
    /\ pass \in [Passes -> [pc: {"idle", "delete", "done"}, losers: SUBSET Nat]]

MemoryInv ==
    FactMemory!TypeOK /\ FactsAreNumbered /\ TasksAreTyped /\ ListIsCurrent /\ Recorded

LEMMA MemoryInit ==
    ASSUME FactMemory!MemoryAssumption, FactMemory!Init
    PROVE  MemoryInv
<1> USE DEF FactMemory!MemoryAssumption, FactMemory!Init
<1>1. DOMAIN facts = {}
  OBVIOUS
<1>2. FactMemory!TypeOK /\ FactsAreNumbered
  BY <1>1 DEF FactMemory!TypeOK, FactsAreNumbered
<1>3. TasksAreTyped /\ ListIsCurrent /\ Recorded
  BY DEF TasksAreTyped, ListIsCurrent, Recorded
<1> QED
  BY <1>2, <1>3 DEF MemoryInv

\* A step that leaves the rows alone, or makes every pass under way a stale one.
LEMMA ListStays ==
    ASSUME MemoryInv, pass' = pass,
           \/ facts' = facts /\ stale' = stale
           \/ stale' = stale \cup FactMemory!Looking
    PROVE  ListIsCurrent'
<1>1. CASE facts' = facts /\ stale' = stale
  BY <1>1 DEF MemoryInv, ListIsCurrent, OldOnes, Older, FactMemory!NearRows
<1>2. CASE stale' = stale \cup FactMemory!Looking
  BY <1>2 DEF ListIsCurrent, FactMemory!Looking
<1> QED
  BY <1>1, <1>2

LEMMA ExtractStep ==
    ASSUME MemoryInv, NEW m \in Messages, FactMemory!Extract(m)
    PROVE  MemoryInv'
<1> USE DEF MemoryInv
<1>1. UNCHANGED <<facts, clock, pass, stale>> /\ task[m].pc = "idle"
  BY DEF FactMemory!Extract
<1>2. ListIsCurrent' /\ FactsAreNumbered'
  BY <1>1, ListStays DEF FactsAreNumbered
<1>3. CASE task' = [task EXCEPT ![m].pc = "done"]
  <2>1. \A k \in Messages: task'[k] = IF k = m THEN [task[m] EXCEPT !.pc = "done"] ELSE task[k]
    BY <1>3 DEF Recorded
  <2>2. \A k \in Messages: /\ task'[k].pc \in {"idle", "store", "done"}
                           /\ task'[k].pc = "store" => task'[k] = task[k]
                           /\ task'[k].left = task[k].left
                           /\ task'[k] = [pc |-> task'[k].pc, left |-> task'[k].left]
    BY <2>1 DEF Recorded
  <2>3. TasksAreTyped'
    BY <2>2 DEF TasksAreTyped
  <2>4. task' \in [Messages -> [pc: {"idle", "store", "done"}, left: {task'[k].left: k \in Messages}]]
    BY <1>3, <2>2 DEF Recorded
  <2>5. Recorded'
    BY <1>1, <2>4 DEF Recorded
  <2>6. FactMemory!TypeOK'
    BY <1>1, <2>2 DEF FactMemory!TypeOK
  <2> QED
    BY <1>2, <2>3, <2>5, <2>6
<1>4. ASSUME NEW f \in FactMemory!Extracted, task' = [task EXCEPT ![m] = [pc |-> "store", left |-> f]]
      PROVE  MemoryInv'
  <2>1. DOMAIN f \subseteq Slots /\ \A s \in DOMAIN f: f[s] \in Values
    BY DEF FactMemory!Extracted
  <2>2. \A k \in Messages: task'[k] = IF k = m THEN [pc |-> "store", left |-> f] ELSE task[k]
    BY <1>4 DEF Recorded
  <2>3. TasksAreTyped'
    BY <2>1, <2>2 DEF TasksAreTyped
  <2>4. task' \in [Messages -> [pc: {"idle", "store", "done"}, left: {task'[k].left: k \in Messages}]]
    BY <1>4, <2>2 DEF Recorded
  <2>5. Recorded'
    BY <1>1, <2>4 DEF Recorded
  <2>6. FactMemory!TypeOK'
    BY <1>1, <2>2 DEF FactMemory!TypeOK
  <2> QED
    BY <1>2, <2>3, <2>5, <2>6
<1> QED
  BY <1>3, <1>4 DEF FactMemory!Extract

LEMMA UpsertKeeps ==
    ASSUME MemoryInv, NEW s \in Slots, NEW v \in Values, NEW embedded \in BOOLEAN,
           FactMemory!Upsert(s, v, embedded), pass' = pass
    PROVE  /\ FactsAreNumbered' /\ ListIsCurrent' /\ clock' = clock + 1
           /\ DOMAIN facts' \subseteq Slots /\ \A t \in DOMAIN facts': facts'[t] \in FactMemory!Fact
           /\ \A q, t \in DOMAIN facts': q # t => facts'[q].id # facts'[t].id /\ facts'[q].at # facts'[t].at
           /\ stale' \subseteq Passes
<1> USE DEF MemoryInv, FactMemory!TypeOK
<1> DEFINE id == IF s \in DOMAIN facts THEN facts[s].id ELSE clock + 1
           new == [value |-> v, id |-> id, at |-> clock + 1, embedded |-> embedded]
<1>1. /\ facts' = [t \in DOMAIN facts \cup {s} |-> IF t = s THEN new ELSE facts[t]]
      /\ clock' = clock + 1 /\ stale' = stale \cup FactMemory!Looking
  BY DEF FactMemory!Upsert
<1>2. \A t \in DOMAIN facts: facts[t].id \in Nat /\ facts[t].at \in Nat
                              /\ facts[t].id <= clock /\ facts[t].at <= clock
  BY DEF FactMemory!Fact, FactsAreNumbered
<1>3. new \in FactMemory!Fact /\ new.id = id /\ new.at = clock + 1 /\ id \in Nat /\ id <= clock + 1
  BY <1>2 DEF FactMemory!Fact
<1>4. \A t \in DOMAIN facts: t # s => id # facts[t].id
  BY <1>2
<1> HIDE DEF new, id
<1>5. DOMAIN facts' = DOMAIN facts \cup {s}
      /\ \A t \in DOMAIN facts': facts'[t] = IF t = s THEN new ELSE facts[t]
  BY <1>1
<1>6. FactsAreNumbered'
  BY <1>1, <1>2, <1>3, <1>5 DEF FactsAreNumbered
<1>7. DOMAIN facts' \subseteq Slots /\ \A t \in DOMAIN facts': facts'[t] \in FactMemory!Fact
  BY <1>3, <1>5
<1>8. ASSUME NEW q \in DOMAIN facts', NEW t \in DOMAIN facts', q # t
      PROVE  facts'[q].id # facts'[t].id /\ facts'[q].at # facts'[t].at
  <2>1. CASE q = s
    BY <1>2, <1>3, <1>4, <1>5, <1>8, <2>1
  <2>2. CASE t = s
    BY <1>2, <1>3, <1>4, <1>5, <1>8, <2>2
  <2>3. CASE q # s /\ t # s
    BY <1>5, <1>8, <2>3
  <2> QED
    BY <2>1, <2>2, <2>3
<1>9. ListIsCurrent' /\ stale' \subseteq Passes
  BY <1>1, ListStays DEF FactMemory!Looking
<1> QED
  BY <1>1, <1>6, <1>7, <1>8, <1>9

LEMMA StoreStep ==
    ASSUME MemoryInv, NEW m \in Messages, FactMemory!Store(m)
    PROVE  MemoryInv'
<1> USE DEF MemoryInv
<1>1. PICK s \in DOMAIN task[m].left, embedded \in BOOLEAN:
          LET rest == FactMemory!Restrict(task[m].left, DOMAIN task[m].left \ {s}) IN
          /\ FactMemory!Upsert(s, task[m].left[s], embedded)
          /\ task' = [task EXCEPT ![m] =
                 [pc |-> IF DOMAIN rest = {} THEN "done" ELSE "store", left |-> rest]]
  BY DEF FactMemory!Store
<1> DEFINE rest == FactMemory!Restrict(task[m].left, DOMAIN task[m].left \ {s})
           step == [pc |-> IF DOMAIN rest = {} THEN "done" ELSE "store", left |-> rest]
<1>2. task[m].pc = "store" /\ pass' = pass
  BY DEF FactMemory!Store
<1>3. s \in Slots /\ task[m].left[s] \in Values
      /\ DOMAIN task[m].left \subseteq Slots /\ \A t \in DOMAIN task[m].left: task[m].left[t] \in Values
  BY <1>2 DEF TasksAreTyped
<1>4. DOMAIN rest \subseteq Slots /\ \A t \in DOMAIN rest: rest[t] \in Values
  BY <1>3 DEF FactMemory!Restrict
<1> HIDE DEF rest
<1>5. step.pc \in {"store", "done"} /\ step.left = rest
  OBVIOUS
<1>6. step \in [pc: {"idle", "store", "done"}, left: {rest}]
  OBVIOUS
<1> HIDE DEF step
<1>7. task' = [task EXCEPT ![m] = step] /\ FactMemory!Upsert(s, task[m].left[s], embedded)
  BY <1>1 DEF step, rest
<1>8. \A k \in Messages: task'[k] = IF k = m THEN step ELSE task[k]
  BY <1>7 DEF Recorded
<1>9. TasksAreTyped'
  BY <1>4, <1>5, <1>8 DEF TasksAreTyped
<1>10. task' \in [Messages -> [pc: {"idle", "store", "done"}, left: {task'[k].left: k \in Messages}]]
  <2>1. \A k \in Messages: task'[k] \in [pc: {"idle", "store", "done"}, left: {task'[k].left}]
    BY <1>5, <1>6, <1>8 DEF Recorded
  <2> QED
    BY <1>7, <2>1 DEF Recorded
<1>11. /\ FactsAreNumbered' /\ ListIsCurrent' /\ clock' = clock + 1
       /\ DOMAIN facts' \subseteq Slots /\ \A t \in DOMAIN facts': facts'[t] \in FactMemory!Fact
       /\ \A q, t \in DOMAIN facts': q # t => facts'[q].id # facts'[t].id /\ facts'[q].at # facts'[t].at
       /\ stale' \subseteq Passes
  BY <1>2, <1>3, <1>7, UpsertKeeps
<1>12. FactMemory!TypeOK'
  <2>1. clock' \in Nat /\ \A p \in Passes: pass'[p].losers \subseteq 0..clock'
    BY <1>2, <1>11 DEF FactMemory!TypeOK
  <2>2. \A k \in Messages: task'[k].pc \in {"idle", "store", "done"}
    BY <1>5, <1>8 DEF FactMemory!TypeOK
  <2> QED
    BY <1>2, <1>11, <2>1, <2>2 DEF FactMemory!TypeOK
<1> QED
  BY <1>2, <1>9, <1>10, <1>11, <1>12 DEF Recorded

LEMMA BackfillStep ==
    ASSUME MemoryInv, NEW s \in Slots, FactMemory!Backfill(s)
    PROVE  MemoryInv'
<1> USE DEF MemoryInv
<1>1. /\ s \in DOMAIN facts /\ facts' = [facts EXCEPT ![s].embedded = TRUE]
      /\ UNCHANGED <<clock, task, pass>> /\ stale' = stale \cup FactMemory!Looking
  BY DEF FactMemory!Backfill
<1>2. DOMAIN facts' = DOMAIN facts
      /\ \A t \in DOMAIN facts: /\ facts'[t] \in FactMemory!Fact /\ facts'[t].id = facts[t].id
                                /\ facts'[t].at = facts[t].at
  BY <1>1 DEF FactMemory!TypeOK, FactMemory!Fact
<1>3. ListIsCurrent' /\ stale' \subseteq Passes
  BY <1>1, ListStays DEF FactMemory!TypeOK, FactMemory!Looking
<1>4. FactsAreNumbered'
  BY <1>1, <1>2 DEF FactsAreNumbered
<1>5. \A q, t \in DOMAIN facts': q # t => facts'[q].id # facts'[t].id /\ facts'[q].at # facts'[t].at
  BY <1>2 DEF FactMemory!TypeOK
<1>6. FactMemory!TypeOK'
  BY <1>1, <1>2, <1>3, <1>5 DEF FactMemory!TypeOK
<1> QED
  BY <1>1, <1>3, <1>4, <1>6 DEF TasksAreTyped, Recorded

\* The losers of the pairs a pass finds are the rows with a newer near one.
LEMMA LosersAreOlder ==
    ASSUME FactMemory!MemoryAssumption, MemoryInv
    PROVE  {FactMemory!Loser(st[1], st[2]): st \in
               {st \in (DOMAIN facts) \X (DOMAIN facts): FactMemory!NearRows(st[1], st[2])}} = OldOnes
<1> DEFINE pairs == {st \in (DOMAIN facts) \X (DOMAIN facts): FactMemory!NearRows(st[1], st[2])}
<1>1. \A s, t \in DOMAIN facts: FactMemory!NearRows(s, t) => FactMemory!NearRows(t, s)
  BY DEF FactMemory!NearRows, FactMemory!MemoryAssumption
<1>2. \A s, t \in DOMAIN facts: s # t => facts[s].at < facts[t].at \/ facts[t].at < facts[s].at
  BY DEF MemoryInv, FactMemory!TypeOK, FactMemory!Fact
<1>3. ASSUME NEW st \in pairs
      PROVE  FactMemory!Loser(st[1], st[2]) \in OldOnes
  BY <1>1, <1>2 DEF FactMemory!Loser, OldOnes, Older, FactMemory!NearRows
<1>4. ASSUME NEW s \in OldOnes
      PROVE  \E st \in pairs: s = FactMemory!Loser(st[1], st[2])
  <2>1. PICK t \in DOMAIN facts: FactMemory!NearRows(s, t) /\ facts[s].at < facts[t].at
    BY DEF OldOnes, Older
  <2>2. <<s, t>> \in pairs /\ s = FactMemory!Loser(s, t)
    BY <2>1 DEF OldOnes, FactMemory!Loser
  <2> QED
    BY <2>2
<1> QED
  BY <1>3, <1>4

LEMMA CompareStep ==
    ASSUME FactMemory!MemoryAssumption, MemoryInv, NEW p \in Passes, FactMemory!Compare(p)
    PROVE  MemoryInv'
<1> USE DEF MemoryInv
<1> DEFINE ids == {facts[s].id: s \in OldOnes}
           step == [pc |-> IF OldOnes = {} THEN "done" ELSE "delete", losers |-> ids]
<1>1. pass' = [pass EXCEPT ![p] = step] /\ UNCHANGED <<facts, clock, task, stale>>
  BY LosersAreOlder DEF FactMemory!Compare
<1>2. ids \subseteq 0..clock
  BY DEF OldOnes, FactMemory!TypeOK, FactMemory!Fact, FactsAreNumbered
<1> HIDE DEF ids
<1>3. step \in [pc: {"idle", "delete", "done"}, losers: SUBSET Nat] /\ step.losers = ids
      /\ step.pc \in {"done", "delete"}
  BY <1>2 DEF FactMemory!TypeOK
<1> HIDE DEF step
<1>4. \A q \in Passes: pass'[q] = IF q = p THEN step ELSE pass[q]
  BY <1>1 DEF Recorded
<1>5. OldOnes' = OldOnes
  BY <1>1 DEF OldOnes, Older, FactMemory!NearRows
<1>6. ListIsCurrent'
  BY <1>1, <1>3, <1>4, <1>5 DEF ListIsCurrent, ids
<1>7. FactMemory!TypeOK'
  BY <1>1, <1>2, <1>3, <1>4 DEF FactMemory!TypeOK
<1> QED
  BY <1>1, <1>3, <1>6, <1>7 DEF FactsAreNumbered, TasksAreTyped, Recorded

\* An undisturbed pass deletes the rows with a newer near one, and no other.
LEMMA DropEffect ==
    ASSUME MemoryInv, NEW p \in Passes, FactMemory!Drop(p), p \notin stale
    PROVE  DOMAIN facts' = DOMAIN facts \ OldOnes
<1> USE DEF MemoryInv
<1>1. pass[p].losers = {facts[s].id: s \in OldOnes}
  BY DEF FactMemory!Drop, ListIsCurrent
<1>2. \A s \in DOMAIN facts: facts[s].id \in pass[p].losers <=> s \in OldOnes
  BY <1>1 DEF FactMemory!TypeOK, OldOnes
<1> QED
  BY <1>2 DEF FactMemory!Drop, FactMemory!Restrict, OldOnes

LEMMA DropStep ==
    ASSUME MemoryInv, NEW p \in Passes, FactMemory!Drop(p)
    PROVE  MemoryInv'
<1> USE DEF MemoryInv
<1> DEFINE end == [pc |-> "done", losers |-> {}]
<1>1. /\ pass[p].pc = "delete" /\ pass' = [pass EXCEPT ![p] = end] /\ UNCHANGED <<clock, task>>
      /\ stale' = stale \cup IF facts' = facts THEN {} ELSE FactMemory!Looking \ {p}
  BY DEF FactMemory!Drop
<1>2. DOMAIN facts' \subseteq DOMAIN facts /\ \A s \in DOMAIN facts': facts'[s] = facts[s]
  BY DEF FactMemory!Drop, FactMemory!Restrict
<1>3. end \in [pc: {"idle", "delete", "done"}, losers: SUBSET Nat] /\ end.pc = "done" /\ end.losers = {}
  OBVIOUS
<1> HIDE DEF end
<1>4. \A q \in Passes: pass'[q] = IF q = p THEN end ELSE pass[q]
  BY <1>1 DEF Recorded
<1>5. ListIsCurrent'
  <2>1. CASE facts' = facts
    <3>1. OldOnes' = OldOnes
      BY <2>1 DEF OldOnes, Older, FactMemory!NearRows
    <3> QED
      BY <1>1, <1>3, <1>4, <2>1, <3>1 DEF ListIsCurrent
  <2>2. CASE facts' # facts
    BY <1>1, <1>3, <1>4, <2>2 DEF ListIsCurrent, FactMemory!Looking
  <2> QED
    BY <2>1, <2>2
<1>6. FactMemory!TypeOK' /\ FactsAreNumbered'
  BY <1>1, <1>2, <1>3, <1>4 DEF FactMemory!TypeOK, FactMemory!Looking, FactsAreNumbered
<1> QED
  BY <1>1, <1>3, <1>5, <1>6 DEF TasksAreTyped, Recorded

\* Of a chain of near rows, the newest is not an older one.
LEMMA NewestStays ==
    ASSUME MemoryInv, NEW s \in OldOnes
    PROVE  \E t \in FactMemory!Linked(s): t \notin OldOnes /\ facts[t].at > facts[s].at
<1> USE DEF MemoryInv
<1> DEFINE L == FactMemory!Linked(s)
<1>1. s \in L /\ L \subseteq DOMAIN facts
  BY DEF OldOnes, FactMemory!Linked
<1>2. \A q \in L, r \in DOMAIN facts: FactMemory!NearRows(q, r) => r \in L
  BY DEF FactMemory!Linked
<1> DEFINE ages == {clock - facts[t].at: t \in L}
<1> HIDE DEF L
<1>3. \A t \in L: facts[t].at \in Nat /\ facts[t].at <= clock
  BY <1>1 DEF FactMemory!TypeOK, FactMemory!Fact, FactsAreNumbered
<1>4. clock \in Nat /\ ages \in SUBSET Nat /\ clock - facts[s].at \in ages
  BY <1>1, <1>3 DEF FactMemory!TypeOK
<1> HIDE DEF ages
<1>5. PICK a \in ages: \A b \in ages: a <= b
  BY <1>4, LeastElement
<1>6. PICK t \in L: a = clock - facts[t].at
  BY <1>5 DEF ages
<1>7. \A q \in L: facts[q].at <= facts[t].at
  <2> SUFFICES ASSUME NEW q \in L
               PROVE  facts[q].at <= facts[t].at
    OBVIOUS
  <2>1. clock - facts[q].at \in ages
    BY DEF ages
  <2>2. clock - facts[t].at <= clock - facts[q].at
    BY <1>5, <1>6, <2>1
  <2> QED
    BY <1>3, <1>4, <2>2
<1>8. t \notin OldOnes
  BY <1>1, <1>2, <1>3, <1>6, <1>7 DEF OldOnes, Older
<1>9. facts[t].at > facts[s].at
  <2>1. PICK q \in DOMAIN facts: FactMemory!NearRows(s, q) /\ facts[s].at < facts[q].at
    BY DEF OldOnes, Older
  <2>2. q \in L
    BY <1>1, <1>2, <2>1
  <2> QED
    BY <1>1, <1>3, <1>6, <1>7, <2>1, <2>2
<1> QED
  BY <1>6, <1>8, <1>9 DEF L

LEMMA MemoryInductive ==
    ASSUME FactMemory!MemoryAssumption, MemoryInv, [FactMemory!Next]_(FactMemory!memoryVars)
    PROVE  MemoryInv'
<1>1. CASE UNCHANGED FactMemory!memoryVars
  <2> USE <1>1 DEF FactMemory!memoryVars
  <2>1. FactMemory!TypeOK' /\ FactsAreNumbered'
    BY DEF MemoryInv, FactMemory!TypeOK, FactsAreNumbered
  <2>2. TasksAreTyped' /\ Recorded'
    BY DEF MemoryInv, TasksAreTyped, Recorded
  <2>3. OldOnes' = OldOnes
    BY DEF OldOnes, Older, FactMemory!NearRows
  <2>4. ListIsCurrent'
    BY <2>3 DEF MemoryInv, ListIsCurrent
  <2> QED
    BY <2>1, <2>2, <2>4 DEF MemoryInv
<1> QED
  BY <1>1, ExtractStep, StoreStep, CompareStep, DropStep, BackfillStep DEF FactMemory!Next

\* The step that ends a pass is its own.
LEMMA PassEnds ==
    ASSUME FactMemory!MemoryAssumption, MemoryInv, [FactMemory!Next]_(FactMemory!memoryVars),
           NEW p \in Passes, pass[p].pc = "delete", pass'[p].pc = "done"
    PROVE  FactMemory!Drop(p)
<1>1. pass' # pass
  OBVIOUS
<1>2. PICK q \in Passes: FactMemory!Compare(q) \/ FactMemory!Drop(q)
  BY <1>1 DEF FactMemory!Next, FactMemory!Extract, FactMemory!Store, FactMemory!Backfill,
              FactMemory!memoryVars
<1>3. q = p
  BY <1>2 DEF FactMemory!Compare, FactMemory!Drop, MemoryInv, Recorded
<1> QED
  BY <1>2, <1>3 DEF FactMemory!Compare

\* A fact is forgotten only for a newer near-duplicate that stays, and a pass that nothing
\* disturbed leaves no pair to merge, for any number of facts, exchanges and passes
\* (consolidate_once of memory_consolidation.py).
THEOREM MemoriesAreKept ==
    ASSUME FactMemory!MemoryAssumption
    PROVE  FactMemory!Spec => MemoryKept
<1>1. FactMemory!Init => MemoryInv
  BY MemoryInit
<1>2. MemoryInv /\ [FactMemory!Next]_(FactMemory!memoryVars) => MemoryInv'
  BY MemoryInductive
<1>3. MemoryInv /\ [FactMemory!Next]_(FactMemory!memoryVars) =>
        (\A p \in Passes : pass[p].pc = "delete" /\ pass'[p].pc = "done" /\ p \notin stale =>
            \A s \in DOMAIN facts \ DOMAIN facts' :
                \E t \in FactMemory!Linked(s) \cap DOMAIN facts' : facts[t].at > facts[s].at)
  <2> SUFFICES ASSUME MemoryInv, [FactMemory!Next]_(FactMemory!memoryVars), NEW p \in Passes,
                      pass[p].pc = "delete", pass'[p].pc = "done", p \notin stale,
                      NEW s \in DOMAIN facts \ DOMAIN facts'
               PROVE  \E t \in FactMemory!Linked(s) \cap DOMAIN facts' : facts[t].at > facts[s].at
    OBVIOUS
  <2>1. DOMAIN facts' = DOMAIN facts \ OldOnes
    BY PassEnds, DropEffect
  <2>2. \A t \in FactMemory!Linked(s): t \in DOMAIN facts
    BY DEF FactMemory!Linked
  <2> QED
    BY <2>1, <2>2, NewestStays
<1>4. MemoryInv /\ [FactMemory!Next]_(FactMemory!memoryVars) =>
        (\A p \in Passes : pass[p].pc = "delete" /\ pass'[p].pc = "done" /\ p \notin stale =>
            \A s, t \in DOMAIN facts' : <<s, t>> \notin {st \in (DOMAIN facts) \X (DOMAIN facts) :
                                                         FactMemory!NearRows(st[1], st[2])})
  <2> SUFFICES ASSUME MemoryInv, [FactMemory!Next]_(FactMemory!memoryVars), NEW p \in Passes,
                      pass[p].pc = "delete", pass'[p].pc = "done", p \notin stale,
                      NEW s \in DOMAIN facts', NEW t \in DOMAIN facts', FactMemory!NearRows(s, t)
               PROVE  FALSE
    OBVIOUS
  <2>1. DOMAIN facts' = DOMAIN facts \ OldOnes
    BY PassEnds, DropEffect
  <2>2. s # t /\ FactMemory!NearRows(t, s)
    BY <2>1 DEF FactMemory!NearRows, FactMemory!MemoryAssumption
  <2>3. facts[s].at < facts[t].at \/ facts[t].at < facts[s].at
    BY <2>1, <2>2 DEF MemoryInv, FactMemory!TypeOK, FactMemory!Fact
  <2> QED
    BY <2>1, <2>2, <2>3 DEF OldOnes, Older
<1>5. FactMemory!Spec => FactMemory!NewerTwinStays
  BY <1>1, <1>2, <1>3, PTL DEF FactMemory!Spec, FactMemory!NewerTwinStays
<1>6. FactMemory!Spec => FactMemory!PassLeavesNoPair
  BY <1>1, <1>2, <1>4, PTL DEF FactMemory!Spec, FactMemory!PassLeavesNoPair
<1> QED
  BY <1>5, <1>6 DEF MemoryKept

-----------------------------------------------------------------------------
(* SkillFilter.                                                            *)

Size == Len(OpenTag)
Text == Seq(Markers!Letters)

LEMMA TagIsText ==
    ASSUME Markers!FilterAssumption
    PROVE  OpenTag \in Text /\ Size \in Nat \ {0} /\ MaxText \in Nat
<1>1. OpenTag \in Seq(Markers!ToSet(OpenTag)) /\ OpenTag # << >> /\ MaxText \in Nat
  BY DEF Markers!FilterAssumption
<1>2. Markers!ToSet(OpenTag) \subseteq Markers!Letters
  BY DEF Markers!Letters
<1> QED
  BY <1>1, <1>2, EmptySeq DEF Size, Text

\* The tag starts at i: letter by letter.
LEMMA StartsWhere ==
    ASSUME Markers!FilterAssumption, NEW text \in Text, NEW i \in Nat \ {0}
    PROVE  Markers!StartsAt(text, i) <=>
             i + Size - 1 <= Len(text) /\ \A j \in 1..Size: text[i + j - 1] = OpenTag[j]
<1>1. OpenTag \in Text /\ Size \in Nat \ {0} /\ Len(text) \in Nat
  BY TagIsText DEF Text
<1>2. ASSUME i + Size - 1 <= Len(text)
      PROVE  SubSeq(text, i, i + Size - 1) = OpenTag <=> \A j \in 1..Size: text[i + j - 1] = OpenTag[j]
  <2>1. \A k \in i..(i + Size - 1): text[k] \in Markers!Letters
    BY <1>1, <1>2, ElementOfSeq DEF Text
  <2>2. /\ SubSeq(text, i, i + Size - 1) \in Text /\ Len(SubSeq(text, i, i + Size - 1)) = Size
        /\ \A j \in 1..Size: SubSeq(text, i, i + Size - 1)[j] = text[i + j - 1]
    <3>1. /\ SubSeq(text, i, i + Size - 1) \in Text
          /\ Len(SubSeq(text, i, i + Size - 1)) = IF i <= i + Size - 1 THEN (i + Size - 1) - i + 1 ELSE 0
          /\ \A j \in 1..((i + Size - 1) - i + 1): SubSeq(text, i, i + Size - 1)[j] = text[i + j - 1]
      BY <1>1, <2>1, SubSeqProperties DEF Text
    <3> QED
      BY <1>1, <3>1
  <2>3. ASSUME \A j \in 1..Size: text[i + j - 1] = OpenTag[j]
        PROVE  SubSeq(text, i, i + Size - 1) = OpenTag
    <3>1. \A j \in 1..Size: SubSeq(text, i, i + Size - 1)[j] = OpenTag[j]
      BY <2>2, <2>3
    <3> QED
      BY <1>1, <2>2, <3>1, SeqEqual DEF Text, Size
  <2> QED
    BY <2>2, <2>3
<1> QED
  BY <1>2 DEF Markers!StartsAt, Size

\* The last k letters are the first of the tag: letter by letter.
LEMMA OverlapsWhere ==
    ASSUME Markers!FilterAssumption, NEW text \in Text, NEW k \in 0..Size
    PROVE  Markers!Overlaps(text, k) <=>
             k <= Len(text) /\ \A j \in 1..k: text[Len(text) - k + j] = OpenTag[j]
<1>1. OpenTag \in Text /\ Size \in Nat \ {0} /\ Len(text) \in Nat /\ k \in Nat /\ k <= Size
  BY TagIsText DEF Text
<1>2. ASSUME k <= Len(text)
      PROVE  SubSeq(text, Len(text) - k + 1, Len(text)) = SubSeq(OpenTag, 1, k)
               <=> \A j \in 1..k: text[Len(text) - k + j] = OpenTag[j]
  <2> DEFINE a == SubSeq(text, Len(text) - k + 1, Len(text))
             b == SubSeq(OpenTag, 1, k)
  <2>1. /\ \A i \in (Len(text) - k + 1)..Len(text): text[i] \in Markers!Letters
        /\ \A i \in 1..k: OpenTag[i] \in Markers!Letters
    <3>1. \A i \in 1..Len(text): text[i] \in Markers!Letters
      BY ElementOfSeq DEF Text
    <3>2. \A i \in 1..Size: OpenTag[i] \in Markers!Letters
      BY <1>1, ElementOfSeq DEF Text, Size
    <3> QED
      BY <1>1, <1>2, <3>1, <3>2
  <2>2. /\ a \in Text /\ Len(a) = k /\ \A j \in 1..k: a[j] = text[Len(text) - k + j]
    <3>1. /\ a \in Text
          /\ Len(a) = IF Len(text) - k + 1 <= Len(text) THEN Len(text) - (Len(text) - k + 1) + 1 ELSE 0
          /\ \A j \in 1..(Len(text) - (Len(text) - k + 1) + 1): a[j] = text[(Len(text) - k + 1) + j - 1]
      BY <1>1, <2>1, SubSeqProperties DEF Text
    <3> HIDE DEF a
    <3>2. \A j \in 1..k: (Len(text) - k + 1) + j - 1 = Len(text) - k + j
      BY <1>1
    <3> QED
      BY <1>1, <1>2, <3>1, <3>2
  <2>3. /\ b \in Text /\ Len(b) = k /\ \A j \in 1..k: b[j] = OpenTag[j]
    <3>1. /\ b \in Text /\ Len(b) = IF 1 <= k THEN k - 1 + 1 ELSE 0
          /\ \A j \in 1..(k - 1 + 1): b[j] = OpenTag[1 + j - 1]
      BY <1>1, <2>1, SubSeqProperties DEF Text
    <3> HIDE DEF b
    <3>2. \A j \in 1..k: 1 + j - 1 = j
      OBVIOUS
    <3> QED
      BY <1>1, <3>1, <3>2
  <2> HIDE DEF a, b
  <2>4. ASSUME \A j \in 1..k: text[Len(text) - k + j] = OpenTag[j]
        PROVE  a = b
    <3>1. \A j \in 1..Len(a): a[j] = b[j]
      BY <2>2, <2>3, <2>4
    <3> QED
      BY <2>2, <2>3, <3>1, SeqEqual DEF Text
  <2>5. a = b <=> \A j \in 1..k: text[Len(text) - k + j] = OpenTag[j]
    BY <2>2, <2>3, <2>4
  <2> QED
    BY <2>5 DEF a, b
<1> QED
  BY <1>1, <1>2 DEF Markers!Overlaps, Size

\* Where the tag is found first.
LEMMA FindIs ==
    ASSUME Markers!FilterAssumption, NEW text \in Text
    PROVE  \/ Markers!Find(text) = 0 /\ \A i \in 1..Len(text): ~Markers!StartsAt(text, i)
           \/ /\ Markers!Find(text) \in 1..Len(text) /\ Markers!StartsAt(text, Markers!Find(text))
              /\ \A i \in 1..(Markers!Find(text) - 1): ~Markers!StartsAt(text, i)
<1>1. DOMAIN text = 1..Len(text) /\ Len(text) \in Nat
  BY DEF Text
<1>2. CASE ~\E i \in DOMAIN text: Markers!StartsAt(text, i)
  BY <1>1, <1>2 DEF Markers!Find
<1>3. CASE \E i \in DOMAIN text: Markers!StartsAt(text, i)
  <2> DEFINE places == {i \in DOMAIN text: Markers!StartsAt(text, i)}
  <2>1. PICK i \in places: \A j \in places: i <= j
    <3>1. places \subseteq Nat /\ places # {}
      BY <1>1, <1>3
    <3> QED
      BY <3>1, LeastElement
  <2>2. \E k \in DOMAIN text: Markers!StartsAt(text, k) /\ \A j \in 1..k - 1: ~Markers!StartsAt(text, j)
    <3>1. \A j \in 1..i - 1: ~Markers!StartsAt(text, j)
      BY <1>1, <2>1
    <3> QED
      BY <2>1, <3>1
  <2> DEFINE k == Markers!Find(text)
  <2>3. k = CHOOSE n \in DOMAIN text: Markers!StartsAt(text, n) /\ \A j \in 1..n - 1: ~Markers!StartsAt(text, j)
    BY <1>3 DEF Markers!Find
  <2>4. k \in DOMAIN text /\ Markers!StartsAt(text, k) /\ \A j \in 1..k - 1: ~Markers!StartsAt(text, j)
    BY <2>2, <2>3
  <2> QED
    BY <1>1, <2>4
<1> QED
  BY <1>2, <1>3

\* What can be told of a text where the tag is found at a place, the other way round.
LEMMA FoundAt ==
    ASSUME Markers!FilterAssumption, NEW text \in Text, NEW i \in 1..Len(text), Markers!StartsAt(text, i),
           \A j \in 1..(i - 1): ~Markers!StartsAt(text, j)
    PROVE  Markers!Find(text) = i
<1> DEFINE k == Markers!Find(text)
<1>1. /\ k \in 1..Len(text) /\ Markers!StartsAt(text, k)
      /\ \A j \in 1..(k - 1): ~Markers!StartsAt(text, j)
  BY FindIs
<1> HIDE DEF k
<1>2. Len(text) \in Nat
  BY DEF Text
<1>3. ~(k < i) /\ ~(i < k)
  BY <1>1, <1>2
<1>4. k = i
  BY <1>1, <1>2, <1>3
<1> QED
  BY <1>4 DEF k

\* What feed holds back is the longest tail the tag could start with.
LEMMA HeldBackIs ==
    ASSUME Markers!FilterAssumption, NEW text \in Text
    PROVE  /\ Markers!HeldBack(text) \in 0..Size /\ Markers!Overlaps(text, Markers!HeldBack(text))
           /\ \A n \in (Markers!HeldBack(text) + 1)..Size: ~Markers!Overlaps(text, n)
<1>1. Size \in Nat \ {0} /\ Len(text) \in Nat
  BY TagIsText DEF Text
<1> DEFINE lacks == {m \in Nat: m <= Size /\ Markers!Overlaps(text, Size - m)}
<1>2. Size \in lacks
  <2>1. Markers!Overlaps(text, 0)
    BY <1>1, OverlapsWhere
  <2> QED
    BY <1>1, <2>1
<1>3. PICK m \in lacks: \A n \in lacks: m <= n
  BY <1>2, LeastElement
<1>4. \A n \in (Size - m + 1)..Size: ~Markers!Overlaps(text, n)
  <2> SUFFICES ASSUME NEW n \in (Size - m + 1)..Size, Markers!Overlaps(text, n)
               PROVE  FALSE
    OBVIOUS
  <2>1. Size - n \in Nat /\ Size - n <= Size /\ Size - (Size - n) = n /\ Size - n < m
    BY <1>1, <1>3
  <2>2. Size - n \in lacks
    BY <2>1
  <2> QED
    BY <1>3, <2>1, <2>2
<1>5. \E k \in 0..Size: Markers!Overlaps(text, k) /\ \A n \in k + 1..Size: ~Markers!Overlaps(text, n)
  <2>1. Size - m \in 0..Size /\ Markers!Overlaps(text, Size - m)
    BY <1>1, <1>3
  <2> QED
    BY <1>4, <2>1
<1>6. Markers!HeldBack(text) =
        CHOOSE k \in 0..Size: Markers!Overlaps(text, k) /\ \A n \in k + 1..Size: ~Markers!Overlaps(text, n)
  BY DEF Markers!HeldBack, Size
<1> QED
  BY <1>5, <1>6

\* A text of which another one is the beginning.
LEMMA StartsInside ==
    ASSUME Markers!FilterAssumption, NEW s \in Text, NEW t \in Text, NEW i \in 1..Len(s), i + Size - 1 <= Len(s)
    PROVE  Markers!StartsAt(s \o t, i) <=> Markers!StartsAt(s, i)
<1>1. Size \in Nat \ {0} /\ Len(s) \in Nat /\ Len(t) \in Nat /\ i \in Nat \ {0}
  BY TagIsText DEF Text
<1>2. /\ s \o t \in Text /\ Len(s \o t) = Len(s) + Len(t)
      /\ \A k \in 1..Len(s) + Len(t): (s \o t)[k] = IF k <= Len(s) THEN s[k] ELSE t[k - Len(s)]
  BY ConcatProperties DEF Text
<1>3. \A j \in 1..Size: (s \o t)[i + j - 1] = s[i + j - 1]
  BY <1>1, <1>2
<1>4. i + Size - 1 <= Len(s \o t)
  BY <1>1, <1>2
<1>5. Markers!StartsAt(s \o t, i) <=> \A j \in 1..Size: (s \o t)[i + j - 1] = OpenTag[j]
  BY <1>1, <1>2, <1>4, StartsWhere
<1>6. Markers!StartsAt(s, i) <=> \A j \in 1..Size: s[i + j - 1] = OpenTag[j]
  BY <1>1, StartsWhere
<1> QED
  BY <1>3, <1>5, <1>6

LEMMA StartsBehind ==
    ASSUME Markers!FilterAssumption, NEW s \in Text, NEW t \in Text, NEW i \in 1..Len(t)
    PROVE  Markers!StartsAt(s \o t, Len(s) + i) <=> Markers!StartsAt(t, i)
<1>1. Size \in Nat \ {0} /\ Len(s) \in Nat /\ Len(t) \in Nat /\ i \in Nat \ {0} /\ Len(s) + i \in Nat \ {0}
  BY TagIsText DEF Text
<1>2. /\ s \o t \in Text /\ Len(s \o t) = Len(s) + Len(t)
      /\ \A k \in 1..Len(s) + Len(t): (s \o t)[k] = IF k <= Len(s) THEN s[k] ELSE t[k - Len(s)]
  BY ConcatProperties DEF Text
<1>3. ASSUME i + Size - 1 <= Len(t)
      PROVE  \A j \in 1..Size: (s \o t)[Len(s) + i + j - 1] = t[i + j - 1]
  <2> SUFFICES ASSUME NEW j \in 1..Size
               PROVE  (s \o t)[Len(s) + i + j - 1] = t[i + j - 1]
    OBVIOUS
  <2>1. /\ Len(s) + i + j - 1 \in 1..Len(s) + Len(t) /\ ~(Len(s) + i + j - 1 <= Len(s))
        /\ Len(s) + i + j - 1 - Len(s) = i + j - 1
    BY <1>1, <1>3
  <2> QED
    BY <1>2, <2>1
<1>4. Len(s) + i + Size - 1 <= Len(s \o t) <=> i + Size - 1 <= Len(t)
  BY <1>1, <1>2
<1>5. Markers!StartsAt(s \o t, Len(s) + i) <=>
        i + Size - 1 <= Len(t) /\ \A j \in 1..Size: (s \o t)[Len(s) + i + j - 1] = OpenTag[j]
  BY <1>1, <1>2, <1>4, StartsWhere
<1> QED
  BY <1>1, <1>3, <1>5, StartsWhere

\* A tail that the tag could start with was one before the last letters came, if it is longer.
LEMMA OverlapBefore ==
    ASSUME Markers!FilterAssumption, NEW s \in Text, NEW t \in Text, NEW k \in 0..Size, k >= Len(t),
           Markers!Overlaps(s \o t, k)
    PROVE  Markers!Overlaps(s, k - Len(t))
<1>1. Size \in Nat \ {0} /\ Len(s) \in Nat /\ Len(t) \in Nat /\ k \in Nat /\ k - Len(t) \in 0..Size
  BY TagIsText DEF Text
<1>2. /\ s \o t \in Text /\ Len(s \o t) = Len(s) + Len(t)
      /\ \A n \in 1..Len(s) + Len(t): (s \o t)[n] = IF n <= Len(s) THEN s[n] ELSE t[n - Len(s)]
  BY ConcatProperties DEF Text
<1>3. k <= Len(s) + Len(t) /\ \A j \in 1..k: (s \o t)[Len(s) + Len(t) - k + j] = OpenTag[j]
  <2>1. k <= Len(s \o t) /\ \A j \in 1..k: (s \o t)[Len(s \o t) - k + j] = OpenTag[j]
    BY <1>2, OverlapsWhere
  <2> QED
    BY <1>2, <2>1
<1>4. \A j \in 1..(k - Len(t)): s[Len(s) - (k - Len(t)) + j] = OpenTag[j]
  <2> SUFFICES ASSUME NEW j \in 1..(k - Len(t))
               PROVE  s[Len(s) - (k - Len(t)) + j] = OpenTag[j]
    OBVIOUS
  <2>1. /\ j \in 1..k /\ Len(s) + Len(t) - k + j \in 1..Len(s) + Len(t) /\ Len(s) + Len(t) - k + j <= Len(s)
        /\ Len(s) - (k - Len(t)) + j = Len(s) + Len(t) - k + j
    BY <1>1, <1>3
  <2> QED
    BY <1>2, <1>3, <2>1
<1>5. k - Len(t) <= Len(s)
  BY <1>1, <1>3
<1> QED
  BY <1>1, <1>4, <1>5, OverlapsWhere

\* And it is one of its last letters alone, if it is not longer than they are.
LEMMA OverlapBehind ==
    ASSUME Markers!FilterAssumption, NEW s \in Text, NEW t \in Text, NEW k \in 0..Size, k <= Len(t),
           Markers!Overlaps(s \o t, k)
    PROVE  Markers!Overlaps(t, k)
<1>1. Size \in Nat \ {0} /\ Len(s) \in Nat /\ Len(t) \in Nat /\ k \in Nat
  BY TagIsText DEF Text
<1>2. /\ s \o t \in Text /\ Len(s \o t) = Len(s) + Len(t)
      /\ \A n \in 1..Len(s) + Len(t): (s \o t)[n] = IF n <= Len(s) THEN s[n] ELSE t[n - Len(s)]
  BY ConcatProperties DEF Text
<1>3. \A j \in 1..k: (s \o t)[Len(s) + Len(t) - k + j] = OpenTag[j]
  <2>1. \A j \in 1..k: (s \o t)[Len(s \o t) - k + j] = OpenTag[j]
    BY <1>2, OverlapsWhere
  <2> QED
    BY <1>2, <2>1
<1>4. \A j \in 1..k: t[Len(t) - k + j] = OpenTag[j]
  <2> SUFFICES ASSUME NEW j \in 1..k
               PROVE  t[Len(t) - k + j] = OpenTag[j]
    OBVIOUS
  <2>1. /\ Len(s) + Len(t) - k + j \in 1..Len(s) + Len(t) /\ ~(Len(s) + Len(t) - k + j <= Len(s))
        /\ Len(s) + Len(t) - k + j - Len(s) = Len(t) - k + j
    BY <1>1
  <2> QED
    BY <1>2, <1>3, <2>1
<1> QED
  BY <1>1, <1>4, OverlapsWhere

\* No tag starts in what was sent, whatever comes: the tail it could start with was held back.
LEMMA NoneInSent ==
    ASSUME Markers!FilterAssumption, NEW before \in Text, NEW held \in Text, NEW token \in Text,
           \A i \in 1..Len(before \o held): ~Markers!StartsAt(before \o held, i),
           \A k \in (Len(held) + 1)..Size: ~Markers!Overlaps(before \o held, k)
    PROVE  \A i \in 1..Len(before): ~Markers!StartsAt((before \o held) \o token, i)
<1> DEFINE s == before \o held
<1>1. Size \in Nat \ {0} /\ Len(before) \in Nat /\ Len(held) \in Nat /\ Len(token) \in Nat
  BY TagIsText DEF Text
<1>2. s \in Text /\ Len(s) = Len(before) + Len(held)
  BY ConcatProperties DEF Text
<1>3. /\ \A i \in 1..Len(s): ~Markers!StartsAt(s, i)
      /\ \A k \in (Len(held) + 1)..Size: ~Markers!Overlaps(s, k)
  OBVIOUS
<1> HIDE DEF s
<1> SUFFICES ASSUME NEW i \in 1..Len(before), Markers!StartsAt(s \o token, i)
             PROVE  FALSE
  BY DEF s
<1>4. /\ s \o token \in Text /\ Len(s \o token) = Len(s) + Len(token)
      /\ \A n \in 1..Len(s) + Len(token): (s \o token)[n] = IF n <= Len(s) THEN s[n] ELSE token[n - Len(s)]
  <2>1. \A u, v \in Text:
          /\ u \o v \in Text /\ Len(u \o v) = Len(u) + Len(v)
          /\ \A n \in 1..Len(u) + Len(v): (u \o v)[n] = IF n <= Len(u) THEN u[n] ELSE v[n - Len(u)]
    BY ConcatProperties DEF Text
  <2> QED
    BY <1>2, <2>1
<1>5. CASE i + Size - 1 <= Len(s)
  <2>1. i \in 1..Len(s)
    BY <1>1, <1>2
  <2> QED
    BY <1>2, <1>3, <1>5, <2>1, StartsInside
<1>6. CASE ~(i + Size - 1 <= Len(s))
  <2> DEFINE k == Len(s) - i + 1
  <2>1. k \in (Len(held) + 1)..Size /\ k \in 0..Size /\ k <= Len(s) /\ i \in Nat \ {0} /\ Len(s) - k + 1 = i
    BY <1>1, <1>2, <1>6
  <2>2. \A j \in 1..k: s[Len(s) - k + j] = OpenTag[j]
    <3> SUFFICES ASSUME NEW j \in 1..k
                 PROVE  s[Len(s) - k + j] = OpenTag[j]
      OBVIOUS
    <3>1. \A n \in 1..Size: (s \o token)[i + n - 1] = OpenTag[n]
      BY <1>4, <2>1, StartsWhere
    <3>2. /\ j \in 1..Size /\ i + j - 1 = Len(s) - k + j /\ i + j - 1 <= Len(s)
          /\ i + j - 1 \in 1..Len(s) + Len(token)
      BY <1>1, <1>2, <2>1
    <3> HIDE DEF k
    <3> QED
      BY <1>4, <3>1, <3>2
  <2>3. Markers!Overlaps(s, k)
    BY <1>2, <2>1, <2>2, OverlapsWhere
  <2> QED
    BY <1>3, <2>1, <2>3
<1> QED
  BY <1>5, <1>6

\* While the tag has not come, what was sent and what is held back make the text, and no
\* longer tail of it could be the start of the tag; once it has, the text before it was sent.
FilterTypes ==
    /\ full \in Text /\ buffer \in Text /\ shown \in Text /\ Len(full) <= MaxText
    /\ suppressed \in BOOLEAN /\ over \in BOOLEAN
Listening ==
    ~suppressed =>
        /\ full = shown \o buffer /\ Markers!Find(full) = 0
        /\ over => buffer = << >>
        /\ ~over => Len(buffer) < Size /\ \A k \in (Len(buffer) + 1)..Size: ~Markers!Overlaps(full, k)
Silenced ==
    suppressed => Markers!Find(full) # 0 /\ shown = SubSeq(full, 1, Markers!Find(full) - 1)
FilterInv == FilterTypes /\ Listening /\ Silenced

LEMMA NotFound ==
    ASSUME Markers!FilterAssumption, NEW text \in Text
    PROVE  Markers!Find(text) = 0 <=> \A i \in 1..Len(text): ~Markers!StartsAt(text, i)
<1>1. Markers!Find(text) = 0 => \A i \in 1..Len(text): ~Markers!StartsAt(text, i)
  BY FindIs
<1>2. Markers!Find(text) # 0 => \E i \in 1..Len(text): Markers!StartsAt(text, i)
  BY FindIs
<1> QED
  BY <1>1, <1>2

LEMMA Texts ==
    /\ \A u, v \in Text: u \o v \in Text /\ Len(u \o v) = Len(u) + Len(v)
    /\ \A u, v, w \in Text: (u \o v) \o w = u \o (v \o w)
    /\ \A u \in Text: u \o << >> = u /\ SubSeq(u, 1, Len(u)) = u /\ Len(u) \in Nat
    /\ << >> \in Text
BY ConcatProperties, ConcatAssociative, ConcatEmptySeq, SubSeqFull, EmptySeq DEF Text

\* Cutting a text in two.
LEMMA CutInTwo ==
    ASSUME NEW text \in Text, NEW n \in 0..Len(text)
    PROVE  /\ SubSeq(text, 1, n) \in Text /\ SubSeq(text, n + 1, Len(text)) \in Text
           /\ Len(SubSeq(text, n + 1, Len(text))) = Len(text) - n
           /\ Len(SubSeq(text, 1, n)) = n
           /\ SubSeq(text, 1, n) \o SubSeq(text, n + 1, Len(text)) = text
<1>1. Len(text) \in Nat /\ n \in Nat /\ n <= Len(text)
  BY DEF Text
<1>2. \A i \in 1..Len(text): text[i] \in Markers!Letters
  BY ElementOfSeq DEF Text
<1>3. /\ SubSeq(text, 1, n) \in Text /\ Len(SubSeq(text, 1, n)) = IF 1 <= n THEN n - 1 + 1 ELSE 0
  BY <1>1, <1>2, SubSeqProperties DEF Text
<1>4. /\ SubSeq(text, n + 1, Len(text)) \in Text
      /\ Len(SubSeq(text, n + 1, Len(text))) = IF n + 1 <= Len(text) THEN Len(text) - (n + 1) + 1 ELSE 0
  BY <1>1, <1>2, SubSeqProperties DEF Text
<1>5. SubSeq(text, 1, n) \o SubSeq(text, n + 1, Len(text)) = SubSeq(text, 1, Len(text))
  <2>1. 1 \in 1..Len(text) + 1 /\ n \in 1 - 1..Len(text) /\ Len(text) \in n..Len(text)
    BY <1>1
  <2> QED
    BY <2>1, ConcatAdjacentSubSeq DEF Text
<1>6. SubSeq(text, 1, Len(text)) = text
  BY SubSeqFull DEF Text
<1>7. Len(SubSeq(text, 1, n)) = n /\ Len(SubSeq(text, n + 1, Len(text))) = Len(text) - n
  BY <1>1, <1>3, <1>4
<1> QED
  BY <1>3, <1>4, <1>5, <1>6, <1>7

\* The first n letters of a text that goes on.
LEMMA BeginningStays ==
    ASSUME NEW s \in Text, NEW t \in Text, NEW n \in 0..Len(s)
    PROVE  SubSeq(s \o t, 1, n) = SubSeq(s, 1, n)
<1>1. Len(s) \in Nat
  BY DEF Text
<1>2. CASE n = 0
  BY <1>2, SubSeqEmpty
<1>3. CASE n # 0
  <2>1. 1 \in 1..Len(s) /\ n \in 1..Len(s)
    BY <1>1, <1>3
  <2> QED
    BY <2>1, SubSeqOfConcat1 DEF Text
<1> QED
  BY <1>2, <1>3

LEMMA Regroup ==
    ASSUME NEW u \in Text, NEW v \in Text, NEW w \in Text
    PROVE  (u \o v) \o w = u \o (v \o w) /\ (u \o v) \in Text
BY Texts

\* What comes first in a text of three parts.
LEMMA FirstParts ==
    ASSUME NEW u \in Text, NEW v \in Text, NEW w \in Text
    PROVE  SubSeq(u \o (v \o w), 1, Len(u) + Len(v)) = u \o v
<1>1. (u \o v) \o w = u \o (v \o w) /\ u \o v \in Text
  BY Regroup
<1>2. Len(u \o v) = Len(u) + Len(v) /\ Len(u \o v) \in 0..Len(u \o v)
  BY <1>1, Texts
<1>3. \A x \in Text: \A n \in 0..Len(x): SubSeq(x \o w, 1, n) = SubSeq(x, 1, n)
  BY BeginningStays
<1>4. SubSeq((u \o v) \o w, 1, Len(u \o v)) = SubSeq(u \o v, 1, Len(u \o v))
  BY <1>1, <1>2, <1>3, Zenon
<1>5. SubSeq(u \o v, 1, Len(u \o v)) = u \o v
  BY <1>1, Texts, Zenon
<1> QED
  BY <1>1, <1>2, <1>4, <1>5, Zenon

\* A tag found behind letters where none starts is the first of the whole text, and what is
\* before it is those letters and what is before it in the rest.
LEMMA FoundBehind ==
    ASSUME Markers!FilterAssumption, NEW s \in Text, NEW text \in Text, NEW longer, longer = s \o text,
           \A i \in 1..Len(s): ~Markers!StartsAt(longer, i),
           NEW tag \in 1..Len(text), Markers!StartsAt(text, tag),
           \A i \in 1..(tag - 1): ~Markers!StartsAt(text, i)
    PROVE  /\ Markers!Find(longer) = Len(s) + tag
           /\ s \o SubSeq(text, 1, tag - 1) = SubSeq(longer, 1, Len(s) + tag - 1)
           /\ s \o SubSeq(text, 1, tag - 1) \in Text
<1>1. /\ longer \in Text /\ Len(longer) = Len(s) + Len(text)
      /\ Len(s) \in Nat /\ Len(text) \in Nat /\ tag \in Nat \ {0} /\ tag <= Len(text)
  BY Texts DEF Text
<1>2. \A i \in 1..Len(text): Markers!StartsAt(longer, Len(s) + i) <=> Markers!StartsAt(text, i)
  BY StartsBehind
<1>3. Markers!Find(longer) = Len(s) + tag
  <2> DEFINE place == Len(s) + tag
  <2>1. place \in 1..Len(longer) /\ Markers!StartsAt(longer, place)
    BY <1>1, <1>2
  <2>2. ASSUME NEW j \in 1..(place - 1)
        PROVE  ~Markers!StartsAt(longer, j)
    <3>1. CASE j <= Len(s)
      BY <1>1, <3>1
    <3>2. CASE j > Len(s)
      <4>1. j - Len(s) \in 1..(tag - 1) /\ j - Len(s) \in 1..Len(text) /\ Len(s) + (j - Len(s)) = j
        BY <1>1, <3>2
      <4>2. ~Markers!StartsAt(text, j - Len(s))
        BY <4>1
      <4>3. ~Markers!StartsAt(longer, Len(s) + (j - Len(s)))
        BY <1>2, <4>1, <4>2
      <4> QED
        BY <4>1, <4>3
    <3> QED
      BY <1>1, <3>1, <3>2
  <2> HIDE DEF place
  <2>3. Markers!Find(longer) = place
    BY <1>1, <2>1, <2>2, FoundAt
  <2> QED
    BY <2>3 DEF place
<1> DEFINE n == tag - 1
<1>4. n \in 0..Len(text) /\ n \in Nat
  BY <1>1
<1> HIDE DEF n
<1>5. PICK a \in Text, b \in Text: a = SubSeq(text, 1, n) /\ a \o b = text /\ Len(a) = n
  BY <1>4, CutInTwo
<1>6. s \o a \in Text
  BY <1>5, Texts
<1>7. SubSeq(s \o (a \o b), 1, Len(s) + Len(a)) = s \o a
  BY FirstParts, Zenon
<1>8. s \o a = SubSeq(longer, 1, Len(s) + n)
  BY <1>5, <1>7, Zenon
<1>9. Len(s) + n = Len(s) + tag - 1
  BY <1>1 DEF n
<1> QED
  BY <1>3, <1>5, <1>6, <1>8, <1>9 DEF n

\* feed, before the tag has come.
LEMMA FeedListening ==
    ASSUME Markers!FilterAssumption, FilterInv, NEW token \in Text, Markers!Feed(token), ~suppressed
    PROVE  FilterInv'
<1> DEFINE text == buffer \o token
           tag == Markers!Find(text)
           safe == IF tag # 0 THEN tag - 1 ELSE Len(text) - Markers!HeldBack(text)
<1>1. /\ ~over /\ over' = over /\ Len(full) + Len(token) <= MaxText /\ full' = full \o token
      /\ shown' = shown \o SubSeq(text, 1, safe) /\ suppressed' = (tag # 0)
      /\ buffer' = IF tag # 0 THEN << >> ELSE SubSeq(text, safe + 1, Len(text))
  BY DEF Markers!Feed
<1>2. /\ full \in Text /\ buffer \in Text /\ shown \in Text /\ over \in BOOLEAN
      /\ full = shown \o buffer /\ Markers!Find(full) = 0
      /\ Len(buffer) < Size /\ \A k \in (Len(buffer) + 1)..Size: ~Markers!Overlaps(full, k)
  BY <1>1 DEF FilterInv, FilterTypes, Listening
<1>3. /\ text \in Text /\ full \o token = shown \o text /\ full \o token \in Text
      /\ Len(text) = Len(buffer) + Len(token) /\ Len(full \o token) = Len(shown) + Len(text)
      /\ Len(full \o token) = Len(full) + Len(token)
  BY <1>2, Texts
<1>4. Size \in Nat /\ Len(text) \in Nat /\ Len(shown) \in Nat /\ Len(buffer) \in Nat /\ Len(token) \in Nat
  BY <1>2, <1>3, TagIsText DEF Text
<1>5. \A i \in 1..Len(shown): ~Markers!StartsAt(full \o token, i)
  <2>1. \A i \in 1..Len(full): ~Markers!StartsAt(full, i)
    BY <1>2, NotFound
  <2> QED
    BY <1>2, <2>1, NoneInSent
<1>6. \A i \in 1..Len(text): Markers!StartsAt(full \o token, Len(shown) + i) <=> Markers!StartsAt(text, i)
  BY <1>2, <1>3, StartsBehind
<1> DEFINE longer == full \o token
<1>7. longer \in Text /\ longer = shown \o text /\ full' = longer /\ Len(longer) = Len(shown) + Len(text)
  BY <1>1, <1>3
<1> HIDE DEF text
<1>8. CASE tag # 0
  <2>1. /\ tag \in 1..Len(text) /\ Markers!StartsAt(text, tag)
        /\ \A i \in 1..(tag - 1): ~Markers!StartsAt(text, i)
    BY <1>3, <1>8, FindIs
  <2> HIDE DEF tag, longer
  <2>2. \A i \in 1..Len(shown): ~Markers!StartsAt(longer, i)
    BY <1>5 DEF longer
  <2>3. /\ Markers!Find(longer) = Len(shown) + tag
        /\ shown \o SubSeq(text, 1, tag - 1) = SubSeq(longer, 1, Len(shown) + tag - 1)
        /\ shown \o SubSeq(text, 1, tag - 1) \in Text
    <3>1. shown \in Text /\ text \in Text /\ longer = shown \o text
      BY <1>2, <1>3, <1>7, Zenon
    <3>2. \A s, t \in Text:
            (\A i \in 1..Len(s): ~Markers!StartsAt(s \o t, i)) =>
              \A n \in 1..Len(t):
                Markers!StartsAt(t, n) /\ (\A i \in 1..(n - 1): ~Markers!StartsAt(t, i)) =>
                  /\ Markers!Find(s \o t) = Len(s) + n
                  /\ s \o SubSeq(t, 1, n - 1) = SubSeq(s \o t, 1, Len(s) + n - 1)
                  /\ s \o SubSeq(t, 1, n - 1) \in Text
      BY FoundBehind, Zenon
    <3> QED
      BY <2>1, <2>2, <3>1, <3>2, Zenon
  <2>4. Markers!Find(longer) # 0 /\ Markers!Find(longer) - 1 = Len(shown) + tag - 1
    BY <1>4, <2>1, <2>3
  <2>5. shown' = SubSeq(longer, 1, Markers!Find(longer) - 1) /\ shown' \in Text
    BY <1>1, <1>8, <2>3, <2>4
  <2>6. buffer' = << >> /\ buffer' \in Text /\ suppressed' = TRUE
    BY <1>1, <1>8, EmptySeq DEF Text, tag
  <2>7. Len(full') <= MaxText
    BY <1>1, <1>3, <1>7 DEF longer
  <2>8. FilterTypes'
    BY <1>1, <1>2, <1>7, <2>5, <2>6, <2>7 DEF FilterTypes
  <2> QED
    BY <1>7, <2>4, <2>5, <2>6, <2>8 DEF FilterInv, Listening, Silenced
<1>9. CASE tag = 0
  <2> DEFINE h == Markers!HeldBack(text)
  <2>1. /\ h \in 0..Size /\ Markers!Overlaps(text, h)
        /\ \A n \in (h + 1)..Size: ~Markers!Overlaps(text, n)
    BY <1>3, HeldBackIs
  <2>2. \A i \in 1..Len(text): ~Markers!StartsAt(text, i)
    BY <1>3, <1>9, NotFound
  <2>3. safe = Len(text) - h
    BY <1>9
  <2> HIDE DEF tag, longer, h, safe
  <2>4. h <= Len(text) /\ \A j \in 1..h: text[Len(text) - h + j] = OpenTag[j]
    BY <1>3, <2>1, OverlapsWhere
  <2>5. h < Size
    <3>1. CASE h = Size
      <4>1. /\ Len(text) - h + 1 \in Nat \ {0} /\ Len(text) - h + 1 + Size - 1 <= Len(text)
            /\ Len(text) - h + 1 \in 1..Len(text)
        BY <1>4, <2>4, <3>1, TagIsText
      <4>2. \A j \in 1..Size: text[Len(text) - h + 1 + j - 1] = OpenTag[j]
        <5>1. \A j \in 1..Size: Len(text) - h + 1 + j - 1 = Len(text) - h + j
          BY <1>4, <2>1
        <5> QED
          BY <2>4, <3>1, <5>1
      <4>3. Markers!StartsAt(text, Len(text) - h + 1)
        BY <1>3, <4>1, <4>2, StartsWhere
      <4> QED
        BY <2>2, <4>1, <4>3
    <3> QED
      BY <1>4, <2>1, <3>1
  <2>6. safe \in 0..Len(text) /\ Len(text) - safe = h
    BY <1>4, <2>1, <2>3, <2>4
  <2>7. /\ shown' = shown \o SubSeq(text, 1, safe) /\ buffer' = SubSeq(text, safe + 1, Len(text))
        /\ suppressed' = FALSE
    BY <1>1, <1>9 DEF tag, safe
  <2>8. /\ SubSeq(text, 1, safe) \in Text /\ buffer' \in Text /\ Len(buffer') = h
        /\ SubSeq(text, 1, safe) \o buffer' = text
    BY <1>3, <2>6, <2>7, CutInTwo
  <2>9. shown' \in Text /\ shown' \o buffer' = longer
    <3>1. PICK a \in Text, b \in Text: a \o b = text /\ shown' = shown \o a /\ buffer' = b
      BY <2>7, <2>8
    <3>2. (shown \o a) \o b = shown \o (a \o b) /\ shown \o a \in Text
      BY <1>2, <3>1, Regroup
    <3> QED
      BY <1>7, <3>1, <3>2
  <2>10. Markers!Find(longer) = 0
    <3> SUFFICES ASSUME NEW i \in 1..Len(longer)
                 PROVE  ~Markers!StartsAt(longer, i)
      BY <1>7, NotFound
    <3>1. CASE i <= Len(shown)
      BY <1>4, <1>5, <3>1 DEF longer
    <3>2. CASE i > Len(shown)
      <4>1. i - Len(shown) \in 1..Len(text) /\ Len(shown) + (i - Len(shown)) = i
        BY <1>4, <1>7, <3>2
      <4> QED
        BY <1>6, <2>2, <4>1 DEF longer
    <3> QED
      BY <1>4, <1>7, <3>1, <3>2
  <2>11. \A k \in (h + 1)..Size: ~Markers!Overlaps(longer, k)
    <3> SUFFICES ASSUME NEW k \in (h + 1)..Size, Markers!Overlaps(longer, k)
                 PROVE  FALSE
      OBVIOUS
    <3>0. k \in 0..Size /\ k \in Nat
      BY <1>4, <2>1
    <3>1. CASE k <= Len(text)
      <4>1. Markers!Overlaps(text, k)
        BY <1>2, <1>3, <1>7, <3>0, <3>1, OverlapBehind
      <4> QED
        BY <2>1, <4>1
    <3>2. CASE k > Len(text)
      <4>1. k >= Len(token) /\ k - Len(token) \in (Len(buffer) + 1)..Size
        BY <1>3, <1>4, <3>0, <3>2
      <4>2. Markers!Overlaps(full, k - Len(token))
        BY <1>2, <3>0, <4>1, OverlapBefore DEF longer
      <4> QED
        BY <1>2, <4>1, <4>2
    <3> QED
      BY <1>4, <3>0, <3>1, <3>2
  <2>12. Len(full') <= MaxText
    BY <1>1, <1>3, <1>7 DEF longer
  <2> QED
    BY <1>1, <1>2, <1>7, <2>5, <2>7, <2>8, <2>9, <2>10, <2>11, <2>12
    DEF FilterInv, FilterTypes, Listening, Silenced
<1> QED
  BY <1>8, <1>9

\* feed, when the tag has come: nothing after it can move its place.
LEMMA FeedSilenced ==
    ASSUME Markers!FilterAssumption, FilterInv, NEW token \in Text, Markers!Feed(token), suppressed
    PROVE  FilterInv'
<1>1. /\ ~over /\ over' = over /\ Len(full) + Len(token) <= MaxText /\ full' = full \o token
      /\ buffer' = buffer /\ shown' = shown /\ suppressed' = suppressed
  BY DEF Markers!Feed
<1>2. /\ full \in Text /\ buffer \in Text /\ shown \in Text /\ over \in BOOLEAN /\ suppressed = TRUE
      /\ Markers!Find(full) # 0 /\ shown = SubSeq(full, 1, Markers!Find(full) - 1)
  BY DEF FilterInv, FilterTypes, Silenced
<1>3. full \o token \in Text /\ Len(full \o token) = Len(full) + Len(token)
  BY <1>2, ConcatProperties DEF Text
<1> DEFINE tag == Markers!Find(full)
<1>4. /\ tag \in 1..Len(full) /\ Markers!StartsAt(full, tag)
      /\ \A i \in 1..(tag - 1): ~Markers!StartsAt(full, i)
  BY <1>2, FindIs
<1> HIDE DEF tag
<1>5. Size \in Nat \ {0} /\ Len(full) \in Nat /\ Len(token) \in Nat
  BY <1>2, TagIsText DEF Text
<1>6. tag + Size - 1 <= Len(full)
  BY <1>2, <1>4, <1>5, StartsWhere
<1>7. Markers!Find(full \o token) = tag
  <2>1. Markers!StartsAt(full \o token, tag)
    BY <1>2, <1>4, <1>6, StartsInside
  <2>2. ASSUME NEW i \in 1..(tag - 1)
        PROVE  ~Markers!StartsAt(full \o token, i)
    <3>1. i \in 1..Len(full) /\ i + Size - 1 <= Len(full)
      BY <1>4, <1>5, <1>6
    <3> QED
      BY <1>2, <1>4, <3>1, StartsInside
  <2>3. tag \in 1..Len(full \o token)
    BY <1>3, <1>4, <1>5
  <2> QED
    BY <1>3, <2>1, <2>2, <2>3, FoundAt
<1>8. SubSeq(full \o token, 1, tag - 1) = SubSeq(full, 1, tag - 1)
  <2>1. tag - 1 \in 0..Len(full)
    BY <1>4, <1>5
  <2> QED
    BY <1>2, <2>1, BeginningStays
<1> QED
  BY <1>1, <1>2, <1>3, <1>4, <1>7, <1>8 DEF FilterInv, FilterTypes, Listening, Silenced, tag

LEMMA FilterInductive ==
    ASSUME Markers!FilterAssumption, FilterInv, [Markers!Next]_(Markers!filterVars)
    PROVE  FilterInv'
<1>1. CASE UNCHANGED Markers!filterVars
  BY <1>1 DEF Markers!filterVars, FilterInv, FilterTypes, Listening, Silenced
<1>2. CASE Markers!Flush
  <2>1. /\ ~over /\ over' = TRUE /\ full' = full /\ suppressed' = suppressed
        /\ shown' = IF suppressed THEN shown ELSE shown \o buffer
        /\ buffer' = IF suppressed THEN buffer ELSE << >>
    BY <1>2 DEF Markers!Flush
  <2>2. full \in Text /\ << >> \in Text /\ (~suppressed => shown \o buffer = full) /\ full \o << >> = full
    BY EmptySeq, ConcatEmptySeq DEF FilterInv, FilterTypes, Listening, Text
  <2> QED
    BY <2>1, <2>2 DEF FilterInv, FilterTypes, Listening, Silenced
<1>3. ASSUME NEW token \in Markers!Tokens, Markers!Feed(token)
      PROVE  FilterInv'
  <2>1. token \in Text
    BY DEF Markers!Tokens, Markers!FilterAssumption, Text
  <2> QED
    BY <1>3, <2>1, FeedListening, FeedSilenced
<1> QED
  BY <1>1, <1>2, <1>3 DEF Markers!Next

LEMMA FilterStart ==
    ASSUME Markers!FilterAssumption, Markers!Init
    PROVE  FilterInv
<1>1. /\ buffer = << >> /\ full = << >> /\ suppressed = FALSE /\ shown = << >> /\ over = FALSE
      /\ << >> \in Text /\ Len(<< >>) = 0 /\ Size \in Nat \ {0} /\ MaxText \in Nat
  BY TagIsText, EmptySeq DEF Markers!Init, Text
<1>2. << >> \o << >> = << >>
  BY ConcatEmptySeq
<1>3. Markers!Find(<< >>) = 0
  BY <1>1, NotFound
<1>4. \A k \in 1..Size: ~Markers!Overlaps(<< >>, k)
  BY <1>1, OverlapsWhere
<1>5. FilterTypes
  <2>1. Len(full) = 0 /\ 0 <= MaxText
    BY <1>1
  <2> QED
    BY <1>1, <2>1 DEF FilterTypes
<1>6. Listening /\ Silenced
  <2>1. full = shown \o buffer /\ Markers!Find(full) = 0 /\ buffer = << >> /\ Len(buffer) = 0 /\ ~suppressed
    BY <1>1, <1>2, <1>3
  <2>2. \A k \in (Len(buffer) + 1)..Size: ~Markers!Overlaps(full, k)
    BY <1>1, <1>4, <2>1
  <2> QED
    BY <1>1, <2>1, <2>2 DEF Listening, Silenced
<1> QED
  BY <1>5, <1>6 DEF FilterInv

\* parse_skill_state_block on a reply that ends in its block: what is left is the text before
\* the block. The recursion has a solution, the letters up to the next block, and no other.
LEMMA CleanedOfBlock ==
    ASSUME Markers!FilterAssumption, NEW text \in Text, Markers!Find(text) # 0,
           Markers!Closes(text, Markers!Find(text)) = {Len(text)}
    PROVE  Markers!Cleaned(text) = SubSeq(text, 1, Markers!Find(text) - 1)
<1> DEFINE N == Len(text)
           first == Markers!Find(text)
           Cut(i) == Markers!StartsAt(text, i) /\ Markers!Closes(text, i) # {}
           Jump(i) == CHOOSE j \in Markers!Closes(text, i): \A k \in Markers!Closes(text, i): j <= k
           Equation(f) == f = [i \in 1..N + 1 |->
                                 IF i > N THEN << >> ELSE IF Cut(i) THEN f[Jump(i) + 1] ELSE <<text[i]>> \o f[i + 1]]
           rest == CHOOSE f: Equation(f)
           Upto(i, m) == m \in (i - 1)..N /\ (\A j \in i..m: ~Cut(j)) /\ (m < N => Cut(m + 1))
           upto == [i \in 1..N + 1 |-> CHOOSE m: Upto(i, m)]
           all == [i \in 1..N + 1 |-> SubSeq(text, i, upto[i])]
<1>1. N \in Nat /\ Size \in Nat \ {0} /\ first \in 1..N /\ Markers!StartsAt(text, first)
      /\ \A i \in 1..(first - 1): ~Markers!StartsAt(text, i)
  BY TagIsText, FindIs DEF Text
<1>2. N \in (first + Size + 1)..N /\ Cut(first)
  <2>1. Markers!Closes(text, first) = {N}
    OBVIOUS
  <2>2. N \in (first + Size + 1)..N
    BY <2>1 DEF Markers!Closes, Size
  <2> QED
    BY <1>1, <2>1, <2>2
<1>3. ASSUME NEW i \in 1..N, Cut(i)
      PROVE  first <= i /\ Jump(i) = N
  <2>1. first <= i
    BY <1>1, <1>3
  <2>2. \A j \in Markers!Closes(text, i): j \in Markers!Closes(text, first)
    <3>1. \A j \in (i + Size + 1)..N: j \in (first + Size + 1)..N
      BY <1>1, <2>1
    <3> QED
      BY <3>1 DEF Markers!Closes, Size
  <2>3. Markers!Closes(text, i) = {N}
    BY <1>3, <2>2
  <2>4. \A j, k \in {N}: j <= k
    BY <1>1
  <2> QED
    BY <2>1, <2>3, <2>4
<1> HIDE DEF Cut, Jump
<1>4. \A i \in 1..N + 1: \E m: Upto(i, m)
  <2> SUFFICES ASSUME NEW i \in 1..N + 1
               PROVE  \E m: Upto(i, m)
    OBVIOUS
  <2>1. CASE \A j \in i..N: ~Cut(j)
    <3>1. Upto(i, N)
      BY <1>1, <2>1
    <3> QED
      BY <3>1
  <2>2. CASE \E j \in i..N: Cut(j)
    <3> DEFINE T == {j \in i..N: Cut(j)}
    <3>1. PICK j \in T: \A k \in T: j <= k
      <4>1. T \subseteq Nat /\ T # {}
        BY <1>1, <2>2
      <4> QED
        BY <4>1, LeastElement
    <3>2. Upto(i, j - 1)
      <4>1. j - 1 \in (i - 1)..N /\ j - 1 + 1 = j
        BY <1>1
      <4>2. \A k \in i..j - 1: ~Cut(k)
        BY <1>1, <3>1
      <4> QED
        BY <3>1, <4>1, <4>2
    <3> QED
      BY <3>2
  <2> QED
    BY <2>1, <2>2
<1>5. \A i \in 1..N + 1: Upto(i, upto[i])
  BY <1>4
<1>6. ASSUME NEW i \in Nat, NEW m, NEW n, Upto(i, m), Upto(i, n)
      PROVE  m = n
  BY <1>1, <1>6
<1> HIDE DEF upto
<1>7. /\ \A i \in 1..N + 1: all[i] = SubSeq(text, i, upto[i])
      /\ all = [i \in 1..N + 1 |-> all[i]]
  OBVIOUS
<1> HIDE DEF all
<1>8. ASSUME NEW i \in 1..N + 1
      PROVE  all[i] = IF i > N THEN << >> ELSE IF Cut(i) THEN all[Jump(i) + 1] ELSE <<text[i]>> \o all[i + 1]
  <2>1. i \in Nat /\ i <= N + 1 /\ N + 1 \in 1..N + 1 /\ all[i] = SubSeq(text, i, upto[i])
    BY <1>1, <1>7
  <2>2. Upto(i, upto[i])
    BY <1>5
  <2>3. CASE i > N
    <3>1. i = N + 1 /\ upto[i] = N
      BY <1>1, <2>1, <2>2, <2>3
    <3>2. SubSeq(text, N + 1, N) = << >>
      BY <1>1, SubSeqEmpty
    <3> QED
      BY <2>1, <2>3, <3>1, <3>2
  <2>4. CASE i <= N /\ Cut(i)
    <3>1. upto[i] = i - 1
      BY <1>1, <2>1, <2>2, <2>4
    <3>2. SubSeq(text, i, i - 1) = << >>
      BY <2>1, SubSeqEmpty
    <3>3. Jump(i) = N
      BY <1>3, <2>1, <2>4
    <3>4. upto[N + 1] = N
      BY <1>1, <1>5, <2>1
    <3>5. SubSeq(text, N + 1, N) = << >>
      BY <1>1, SubSeqEmpty
    <3>6. all[N + 1] = << >>
      BY <2>1, <3>4, <3>5, <1>7
    <3> QED
      BY <1>1, <2>1, <2>4, <3>1, <3>2, <3>3, <3>6
  <2>5. CASE i <= N /\ ~Cut(i)
    <3>1. i + 1 \in 1..N + 1 /\ i \in 1..N /\ all[i + 1] = SubSeq(text, i + 1, upto[i + 1])
      BY <1>1, <2>1, <2>5, <1>7
    <3>2. Upto(i + 1, upto[i + 1])
      BY <1>5, <3>1
    <3>3. Upto(i, upto[i + 1])
      <4>1. upto[i + 1] \in (i - 1)..N /\ upto[i + 1] \in Nat
        BY <1>1, <2>1, <3>2
      <4>2. \A j \in i..upto[i + 1]: j = i \/ j \in (i + 1)..upto[i + 1]
        BY <2>1, <4>1
      <4> QED
        BY <2>5, <3>2, <4>1, <4>2
    <3>4. upto[i] = upto[i + 1] /\ upto[i] \in i..N
      <4>1. upto[i] = upto[i + 1]
        BY <1>6, <2>1, <2>2, <3>3
      <4> QED
        BY <1>1, <2>1, <3>1, <3>2, <4>1
    <3>5. SubSeq(text, i, upto[i]) = <<text[i]>> \o SubSeq(text, i + 1, upto[i])
      <4> HIDE DEF upto
      <4> QED
        BY <3>1, <3>4, SubSeqRecursiveFirst DEF Text
    <3>6. all[i] = <<text[i]>> \o all[i + 1]
      BY <2>1, <3>1, <3>4, <3>5, Zenon
    <3>7. ~(i > N)
      BY <1>1, <2>1, <2>5
    <3> QED
      BY <2>5, <3>6, <3>7, Zenon
  <2>6. i > N \/ (i <= N /\ Cut(i)) \/ (i <= N /\ ~Cut(i))
    BY <1>1, <2>1
  <2> QED
    BY <2>3, <2>4, <2>5, <2>6, Zenon
<1>9. Equation(all)
  BY <1>8, <1>7
<1>10. Equation(rest)
  <2> HIDE DEF all, Equation
  <2> QED
    BY <1>9
<1>11. \A i \in 1..N + 1:
         rest[i] = IF i > N THEN << >> ELSE IF Cut(i) THEN rest[Jump(i) + 1] ELSE <<text[i]>> \o rest[i + 1]
  <2> HIDE DEF rest
  <2> QED
    BY <1>10
<1> HIDE DEF rest, all
<1>12. rest[1] = all[1]
  <2> DEFINE T == {n \in 0..N: rest[N + 1 - n] # all[N + 1 - n]}
  <2>1. CASE T = {}
    <3>1. N \in 0..N /\ N + 1 - N = 1
      BY <1>1
    <3> QED
      BY <2>1, <3>1
  <2>2. CASE T # {}
    <3>1. PICK n \in T: \A m \in T: n <= m
      <4>1. T \subseteq Nat
        BY <1>1
      <4> QED
        BY <2>2, <4>1, LeastElement
    <3> DEFINE i == N + 1 - n
    <3>2. i \in 1..N + 1 /\ rest[i] # all[i] /\ n \in 0..N
      BY <1>1, <3>1
    <3>3. \A j \in (i + 1)..N + 1: rest[j] = all[j]
      <4> SUFFICES ASSUME NEW j \in (i + 1)..N + 1, rest[j] # all[j]
                   PROVE  FALSE
        OBVIOUS
      <4>1. N + 1 - j \in 0..N /\ N + 1 - j < n /\ N + 1 - (N + 1 - j) = j
        BY <1>1, <3>2
      <4>2. N + 1 - j \in T
        BY <4>1
      <4> QED
        BY <3>1, <3>2, <4>1, <4>2
    <3> HIDE DEF T, i
    <3>4. CASE i > N
      BY <1>8, <1>11, <3>2, <3>4
    <3>5. CASE i <= N /\ Cut(i)
      <4>1. Jump(i) = N /\ N + 1 \in (i + 1)..N + 1 /\ i \in 1..N
        BY <1>1, <1>3, <3>2, <3>5
      <4> QED
        BY <1>1, <1>8, <1>11, <3>2, <3>3, <3>5, <4>1
    <3>6. CASE i <= N /\ ~Cut(i)
      <4>1. i + 1 \in (i + 1)..N + 1 /\ ~(i > N)
        BY <1>1, <3>2, <3>6
      <4> QED
        BY <1>8, <1>11, <3>2, <3>3, <3>6, <4>1
    <3> QED
      BY <1>1, <3>2, <3>4, <3>5, <3>6
  <2> QED
    BY <2>1, <2>2
<1>13. upto[1] = first - 1
  <2>1. \A j \in 1..first - 1: ~Cut(j)
    BY <1>1 DEF Cut
  <2>2. first - 1 \in (1 - 1)..N /\ first - 1 + 1 = first /\ 1 \in 1..N + 1
    BY <1>1
  <2>3. Upto(1, first - 1)
    BY <1>2, <2>1, <2>2
  <2>4. Upto(1, upto[1])
    BY <1>5, <2>2
  <2> HIDE DEF Upto, upto
  <2> QED
    BY <1>6, <2>3, <2>4
<1>14. all[1] = SubSeq(text, 1, first - 1)
  <2>1. 1 \in 1..N + 1
    BY <1>1
  <2> QED
    BY <1>13, <2>1, <1>7
<1>15. Markers!Cleaned(text) = rest[1]
  BY DEF Markers!Cleaned, rest, Cut, Jump
<1> QED
  BY <1>12, <1>14, <1>15

\* skill_parser.py SkillStateStreamFilter, "we must NOT emit the <skill_state> literal": for
\* every tag whose first letter does not recur, and however a reply is cut into pieces, the
\* app is sent the text before the block and nothing of the tag, is never kept waiting
\* for more letters than the tag has, and has all of it when the reply is over; and what
\* parse_skill_state_block stores of a reply that ends in its block is what the app was sent.
THEOREM MarkersAreHidden ==
    ASSUME Markers!FilterAssumption
    PROVE  Markers!Spec => []MarkersStayHidden
<1>1. ASSUME FilterInv
      PROVE  Markers!TagNeverLeaks
  <2>1. /\ full \in Text /\ buffer \in Text /\ shown \in Text /\ suppressed \in BOOLEAN /\ over \in BOOLEAN
        /\ Size \in Nat /\ Len(full) \in Nat /\ Len(shown) \in Nat /\ Len(buffer) \in Nat
    BY <1>1, TagIsText DEF FilterInv, FilterTypes, Text
  <2>2. CASE ~suppressed
    <3>1. /\ full = shown \o buffer /\ Markers!Find(full) = 0 /\ (over => buffer = << >>)
          /\ ~over => Len(buffer) < Size
      BY <1>1, <2>2 DEF FilterInv, Listening
    <3>2. Len(full) = Len(shown) + Len(buffer)
      BY <2>1, <3>1, ConcatProperties DEF Text
    <3>3. SubSeq(full, 1, Len(shown)) = SubSeq(shown, 1, Len(shown))
      <4>1. Len(shown) \in 0..Len(shown)
        BY <2>1
      <4> QED
        BY <2>1, <3>1, <4>1, BeginningStays
    <3>4. over => shown = full
      BY <2>1, <3>1, ConcatEmptySeq DEF Text
    <3>5. Markers!Visible(full) = full
      BY <3>1 DEF Markers!Visible
    <3>6. Len(full) - Len(shown) < Size
      <4>1. CASE over
        BY <2>1, <3>4, <4>1, TagIsText
      <4> QED
        BY <2>1, <3>1, <3>2, <4>1
    <3> QED
      BY <2>1, <2>2, <3>2, <3>3, <3>4, <3>5, <3>6 DEF Markers!TagNeverLeaks, Markers!IsPrefix, Size
  <2>3. CASE suppressed
    <3>1. Markers!Visible(full) = shown
      BY <1>1, <2>3 DEF FilterInv, Silenced, Markers!Visible
    <3> QED
      BY <2>1, <2>3, <3>1 DEF Markers!TagNeverLeaks, Markers!IsPrefix
  <2> QED
    BY <2>2, <2>3
<1>2. ASSUME FilterInv
      PROVE  Markers!StoredAsShown
  <2> SUFFICES ASSUME Markers!Find(full) # 0, Markers!Closes(full, Markers!Find(full)) = {Len(full)}
               PROVE  Markers!Cleaned(full) = shown
    BY DEF Markers!StoredAsShown
  <2>1. full \in Text /\ shown = SubSeq(full, 1, Markers!Find(full) - 1)
    BY <1>2 DEF FilterInv, FilterTypes, Listening, Silenced
  <2> QED
    BY <2>1, CleanedOfBlock
<1>3. ASSUME FilterInv
      PROVE  MarkersStayHidden
  BY <1>1, <1>2, <1>3 DEF MarkersStayHidden
<1> QED
  BY <1>3, FilterStart, FilterInductive, PTL DEF Markers!Spec

-----------------------------------------------------------------------------
(* The composition.                                                        *)

\* A behaviour that TLC explores is a behaviour of every part: the one that runs takes its
\* own steps and the others rest.  So what is proved of a part holds of SocialSpec.
THEOREM SocialRunsItsParts ==
    SocialSpec => /\ Spec /\ Mail!Spec /\ FactMemory!Spec /\ Recitation!Spec /\ Net!Spec /\ SignIn!Spec
                  /\ Skills!Spec /\ Markers!Spec /\ Streaks!Spec
<1> DEFINE A == Next
           B == Mail!Next
           C == FactMemory!Next
           D == Recitation!Next
           E == Net!Next
           F == SignIn!Next
           G == Skills!Next
           H == Markers!Next
           I == Streaks!Next
<1>1. SocialInit => /\ Init /\ Mail!Init /\ FactMemory!Init /\ Recitation!Init /\ Net!Init /\ SignIn!Init
                    /\ Skills!Init /\ Markers!Init /\ Streaks!Init
  BY DEF SocialInit
<1>2. ASSUME [SocialNext]_socialVars
      PROVE  /\ [A]_vars /\ [B]_(Mail!inboxVars) /\ [C]_(FactMemory!memoryVars) /\ [D]_(Recitation!recallVars)
             /\ [E]_(Net!socketVars) /\ [F]_(SignIn!handoffVars) /\ [G]_(Skills!skillVars)
             /\ [H]_(Markers!filterVars) /\ [I]_(Streaks!streakVars)
  <2> HIDE DEF A, B, C, D, E, F, G, H, I
  <2> DEFINE a == UNCHANGED vars
             b == UNCHANGED Mail!inboxVars
             c == UNCHANGED FactMemory!memoryVars
             d == UNCHANGED Recitation!recallVars
             e == UNCHANGED Net!socketVars
             f == UNCHANGED SignIn!handoffVars
             g == UNCHANGED Skills!skillVars
             h == UNCHANGED Markers!filterVars
             i == UNCHANGED Streaks!streakVars
  <2>1. CASE InChat
    BY <2>1 DEF InChat, A, inboxVars, memoryVars, recallVars, socketVars, handoffVars, setupVars, filterVars, streakVars,
       Mail!inboxVars, FactMemory!memoryVars, Recitation!recallVars, Net!socketVars, SignIn!handoffVars,
       Skills!skillVars, Markers!filterVars, Streaks!streakVars
  <2>2. CASE InInbox
    BY <2>2 DEF InInbox, B, chatVars, memoryVars, recallVars, socketVars, handoffVars, setupVars, filterVars, streakVars,
       FactMemory!memoryVars, Recitation!recallVars, Net!socketVars, SignIn!handoffVars,
       Skills!skillVars, Markers!filterVars, Streaks!streakVars
  <2>3. CASE InMemory
    BY <2>3 DEF InMemory, C, chatVars, inboxVars, recallVars, socketVars, handoffVars, setupVars, filterVars, streakVars,
       Mail!inboxVars, Recitation!recallVars, Net!socketVars, SignIn!handoffVars,
       Skills!skillVars, Markers!filterVars, Streaks!streakVars
  <2>4. CASE InRecall
    BY <2>4 DEF InRecall, D, chatVars, inboxVars, memoryVars, socketVars, handoffVars, setupVars, filterVars, streakVars,
       Mail!inboxVars, FactMemory!memoryVars, Net!socketVars, SignIn!handoffVars,
       Skills!skillVars, Markers!filterVars, Streaks!streakVars
  <2>5. CASE InSockets
    BY <2>5 DEF InSockets, E, chatVars, inboxVars, memoryVars, recallVars, handoffVars, setupVars, filterVars, streakVars,
       Mail!inboxVars, FactMemory!memoryVars, Recitation!recallVars, SignIn!handoffVars,
       Skills!skillVars, Markers!filterVars, Streaks!streakVars
  <2>6. CASE InHandoff
    BY <2>6 DEF InHandoff, F, chatVars, inboxVars, memoryVars, recallVars, socketVars, setupVars, filterVars, streakVars,
       Mail!inboxVars, FactMemory!memoryVars, Recitation!recallVars, Net!socketVars,
       Skills!skillVars, Markers!filterVars, Streaks!streakVars
  <2>7. CASE InSetup
    BY <2>7 DEF InSetup, G, chatVars, inboxVars, memoryVars, recallVars, socketVars, handoffVars, filterVars, streakVars,
       Mail!inboxVars, FactMemory!memoryVars, Recitation!recallVars, Net!socketVars, SignIn!handoffVars,
       Markers!filterVars, Streaks!streakVars
  <2>8. CASE InFilter
    BY <2>8 DEF InFilter, H, chatVars, inboxVars, memoryVars, recallVars, socketVars, handoffVars, setupVars, streakVars,
       Mail!inboxVars, FactMemory!memoryVars, Recitation!recallVars, Net!socketVars, SignIn!handoffVars,
       Skills!skillVars, Streaks!streakVars
  <2>9. CASE InStreak
    BY <2>9 DEF InStreak, I, chatVars, inboxVars, memoryVars, recallVars, socketVars, handoffVars, setupVars, filterVars,
       Mail!inboxVars, FactMemory!memoryVars, Recitation!recallVars, Net!socketVars, SignIn!handoffVars,
       Skills!skillVars, Markers!filterVars
  <2>10. CASE UNCHANGED socialVars
    BY <2>10 DEF socialVars, chatVars, inboxVars, memoryVars, recallVars, socketVars, handoffVars, setupVars, filterVars,
       streakVars, Mail!inboxVars, FactMemory!memoryVars, Recitation!recallVars, Net!socketVars, SignIn!handoffVars,
       Skills!skillVars, Markers!filterVars, Streaks!streakVars
  <2> QED
    BY <1>2, <2>1, <2>2, <2>3, <2>4, <2>5, <2>6, <2>7, <2>8, <2>9, <2>10 DEF SocialNext
<1> QED
  BY <1>1, <1>2, PTL DEF SocialSpec, Spec, Mail!Spec, FactMemory!Spec, Recitation!Spec, Net!Spec, SignIn!Spec,
     Skills!Spec, Markers!Spec, Streaks!Spec

PartIsKnown ==
    part \in {"chat", "inbox", "memory", "recall", "sockets", "handoff", "setup", "filter", "streak"}

\* The variables of the part that runs keep their types.  In Inbox that every row belongs to
\* a user of the app and every message to a row or to none, in Memory that no two facts
\* share an id or an age, in Recall that the list is no longer than its depth.
THEOREM SocialTypeCorrect ==
    ASSUME Mail!InboxAssumption, FactMemory!MemoryAssumption, Recitation!RecallAssumption, SignIn!HandoffAssumption,
           Skills!SkillAssumption, Markers!FilterAssumption, Net!SocketsAssumption, Streaks!StreakAssumption
    PROVE  SocialSpec => []SocialTypeOK
<1>1. FactMemory!Spec => []MemoryInv
  BY MemoryInit, MemoryInductive, PTL DEF FactMemory!Spec
<1>2. Skills!Spec => []SkillInv
  BY SkillInit, SkillInductive, PTL DEF Skills!Spec
<1>3. Markers!Spec => []FilterInv
  BY FilterStart, FilterInductive, PTL DEF Markers!Spec
<1>4. FilterInv => Markers!TypeOK
  <2> SUFFICES ASSUME FilterInv
               PROVE  Markers!TypeOK
    OBVIOUS
  <2>1. full \in Text /\ Len(full) \in 0..MaxText
    BY TagIsText DEF FilterInv, FilterTypes, Text
  <2>2. full \in [1..Len(full) -> Markers!Letters]
    BY <2>1 DEF Text
  <2>3. full \in Markers!BoundedSeq(Markers!Letters, MaxText)
    BY <2>1, <2>2 DEF Markers!BoundedSeq, Markers!SeqOf
  <2> QED
    BY <2>3 DEF FilterInv, FilterTypes, Markers!TypeOK, Text
<1>5. PartIsKnown /\ TypeOK /\ InboxInv /\ MemoryInv /\ RecallInv /\ SocketsInv /\ HandoffInv /\ SkillInv /\ FilterInv
        /\ StreakInv => SocialTypeOK
  <2> SUFFICES ASSUME PartIsKnown,
                      TypeOK, Mail!TypeOK, FactMemory!TypeOK, Recitation!TypeOK, Net!TypeOK, SignIn!TypeOK,
                      Skills!TypeOK, Markers!TypeOK, Streaks!TypeOK
               PROVE  SocialTypeOK
    BY <1>4 DEF InboxInv, MemoryInv, RecallInv, SocketsInv, HandoffInv, SkillInv, StreakInv
  <2> QED
    BY DEF SocialTypeOK, PartIsKnown
<1>6. SocialSpec => []PartIsKnown
  <2>1. SocialInit => PartIsKnown
    BY DEF SocialInit, PartIsKnown
  <2>2. PartIsKnown /\ [SocialNext]_socialVars => PartIsKnown'
    BY DEF PartIsKnown, SocialNext, socialVars, InChat, InInbox, InMemory, InRecall, InSockets, InHandoff, InSetup,
       InFilter, InStreak
  <2> QED
    BY <2>1, <2>2, PTL DEF SocialSpec
<1> QED
  BY <1>1, <1>2, <1>3, <1>5, <1>6, SocialRunsItsParts, ChatTypeCorrect, InboxInductive, RecallInductive,
     SocketsInductive, HandoffInductive, StreakInductive, PTL
=============================================================================
