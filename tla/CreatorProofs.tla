---------------------------- MODULE CreatorProofs ----------------------------
(***************************************************************************)
(* Proofs about what creators do, for all constants of MCEdits: the edits  *)
(* of the Soul File, the wizard, the names of bots, the list of trending   *)
(* ones, the video ideas, the labels an admin sets; for any number of      *)
(* calls, sections, names, writers, bots and days.                         *)
(***************************************************************************)
EXTENDS MCEdits, TLAPS, FiniteSetTheorems, WellFoundedInduction

-----------------------------------------------------------------------------
(* Trending.                                                               *)

\* A list holds every change from before its age's start.
Holds(entry) == \A t \in changes: t < entry.at => entry.list >= t

TrendingInv ==
    /\ Popular!TypeOK
    /\ listed <= clock /\ cached.at <= clock /\ served.at <= clock
    /\ \A t \in changes: t <= listed
    /\ Holds(cached)
    /\ \A r \in Requests:
          /\ request[r].at <= clock
          /\ request[r].pc = "store" => Holds(request[r])
    /\ Popular!ChangesShow

LEMMA TrendingInductive ==
    ASSUME Popular!TrendingAssumption
    PROVE  Popular!Spec => []TrendingInv
<1> USE DEF Popular!TrendingAssumption
<1>1. Popular!Init => TrendingInv
  BY DEF Popular!Init, TrendingInv, Popular!TypeOK, Popular!Entry, Holds, Popular!ChangesShow
<1>2. TrendingInv /\ [Popular!Next]_Popular!trendingVars => TrendingInv'
  <2> SUFFICES ASSUME TrendingInv, [Popular!Next]_Popular!trendingVars
               PROVE  TrendingInv'
    OBVIOUS
  <2> USE DEF TrendingInv, Popular!TypeOK, Popular!Entry, Holds, Popular!ChangesShow
  <2>1. CASE Popular!Tick
    BY <2>1 DEF Popular!Tick
  <2>2. CASE Popular!Change
    BY <2>2 DEF Popular!Change
  <2>3. ASSUME NEW r \in Requests, Popular!Look(r)
        PROVE  TrendingInv'
    BY <2>3 DEF Popular!Look, Popular!Young, Popular!Waits
  <2>4. ASSUME NEW r \in Requests, Popular!List(r)
        PROVE  TrendingInv'
    BY <2>4 DEF Popular!List
  <2>5. ASSUME NEW r \in Requests, Popular!Store(r)
        PROVE  TrendingInv'
    BY <2>5 DEF Popular!Store, Popular!Stored
  <2>6. CASE UNCHANGED Popular!trendingVars
    BY <2>6 DEF Popular!trendingVars
  <2> QED
    BY <2>1, <2>2, <2>3, <2>4, <2>5, <2>6 DEF Popular!Next
<1> QED
  BY <1>1, <1>2, PTL DEF Popular!Spec

\* list_trending: however slow the queries of any number of requests are, and whatever order
\* they end in, a change of the catalogue shows in every answer once an entry's time is over.
THEOREM TrendingShowsChanges ==
    ASSUME Popular!TrendingAssumption
    PROVE  Popular!Spec => []ChangesShow
BY TrendingInductive, PTL DEF TrendingInv, ChangesShow

-----------------------------------------------------------------------------
(* VideoIdeas.                                                             *)

\* Rows are numbered as they come; a rank is taken once a date.
RowsAreApart ==
    /\ IsFiniteSet(ideas)
    /\ \A i \in ideas: i.at \in 1..Cardinality(ideas)
    /\ \A i, j \in ideas: i.at = j.at => i = j
    /\ \A i, j \in ideas: i.date = j.date /\ i.rank = j.rank => i = j

\* Whoever has asked has a date, and ranks left.
Generating(w) == writer[w].pc \in {"think", "insert"}
WritersKnow ==
    \A w \in Writers:
        /\ Generating(w) => writer[w].date \in 1..Days
        /\ writer[w].pc = "insert" => writer[w].next <= writer[w].size
        /\ writer[w].pc \in {"new", "ask", "think"} => writer[w].next = 1

\* A date that is not shared is one writer's: of all its rows, and alone at it.
OneAnswer ==
    /\ \A i, j \in ideas: i.date = j.date => i.by = j.by \/ i.date \in shared
    /\ \A v, w \in Writers: Generating(v) /\ Generating(w) /\ writer[v].date = writer[w].date =>
           v = w \/ writer[v].date \in shared
    /\ \A w \in Writers, i \in ideas: Generating(w) /\ i.date = writer[w].date =>
           i.by = w \/ i.date \in shared

IdeasInv == Prompts!TypeOK /\ RowsAreApart /\ WritersKnow /\ OneAnswer

Writing == [pc: {"new", "ask", "think", "insert", "done"}, date: 0..Days, next: 1..Batch + 1, size: 0..Batch]
OneWriter(w) == writer' \in [Writers -> Writing] /\ \A v \in Writers \ {w}: writer'[v] = writer[v]

\* Writers that neither begin to generate nor write a row leave everything as it was.
LEMMA WriterRests ==
    ASSUME IdeasInv, NEW w \in Writers, OneWriter(w), UNCHANGED <<ideas, day>>, shared' = shared,
           Generating(w)' => Generating(w) /\ writer'[w].date = writer[w].date,
           writer'[w].pc = "insert" => writer'[w].next <= writer'[w].size,
           writer'[w].pc \in {"new", "ask", "think"} => writer'[w].next = 1
    PROVE  IdeasInv'
<1>1. Prompts!TypeOK'
  BY DEF IdeasInv, Prompts!TypeOK, OneWriter, Writing
<1>2. RowsAreApart'
  BY DEF IdeasInv, RowsAreApart
<1>3. \A v \in Writers: Generating(v)' => Generating(v) /\ writer'[v].date = writer[v].date
  BY DEF OneWriter, Generating
<1>4. WritersKnow'
  BY <1>3 DEF IdeasInv, WritersKnow, OneWriter, Generating
<1>5. OneAnswer'
  BY <1>3 DEF IdeasInv, OneAnswer
<1> QED
  BY <1>1, <1>2, <1>4, <1>5 DEF IdeasInv

LEMMA GotoFacts ==
    ASSUME Prompts!TypeOK, NEW w \in Writers, NEW pc \in {"new", "ask", "think", "insert", "done"}, Prompts!Goto(w, pc)
    PROVE  /\ OneWriter(w) /\ writer'[w].pc = pc /\ writer'[w].date = writer[w].date
           /\ writer'[w].next = writer[w].next /\ writer'[w].size = writer[w].size
BY DEF Prompts!TypeOK, Prompts!Goto, OneWriter, Writing

LEMMA AskStep ==
    ASSUME Prompts!IdeasAssumption, IdeasInv, NEW w \in Writers, Prompts!Ask(w)
    PROVE  IdeasInv'
<1>0. Prompts!TypeOK /\ day \in 1..Days
  BY DEF IdeasInv, Prompts!TypeOK
<1>1. OneWriter(w) /\ writer'[w].pc = "think" /\ writer'[w].date = day /\ writer'[w].next = writer[w].next
  <2> DEFINE x == [writer[w] EXCEPT !.pc = "think", !.date = day]
  <2>1. writer[w] \in Writing /\ writer \in [Writers -> Writing]
    BY <1>0 DEF Prompts!TypeOK, Writing
  <2>2. x \in Writing /\ x.pc = "think" /\ x.date = day /\ x.next = writer[w].next
    <3>1. day \in 0..Days
      BY <1>0
    <3>2. x \in Writing
      BY <2>1, <3>1 DEF Writing
    <3> QED
      BY <2>1, <3>2 DEF Writing
  <2>3. writer' = [writer EXCEPT ![w] = x]
    BY DEF Prompts!Ask
  <2> HIDE DEF x
  <2> QED
    BY <2>1, <2>2, <2>3 DEF OneWriter
<1>2. UNCHANGED <<ideas, day>> /\ shared \subseteq shared' /\ shared' \subseteq 1..Days /\ writer[w].pc = "ask"
  BY <1>0 DEF Prompts!Ask, Prompts!TypeOK
<1>3. Prompts!TypeOK'
  BY <1>0, <1>1, <1>2 DEF Prompts!TypeOK, OneWriter, Writing
<1>4. RowsAreApart'
  BY <1>2 DEF IdeasInv, RowsAreApart
<1>5. WritersKnow'
  BY <1>0, <1>1, <1>2 DEF IdeasInv, WritersKnow, Generating, OneWriter
<1>6. day \notin shared' => /\ \A i \in ideas: i.date # day
                            /\ \A v \in Writers: Generating(v) => writer[v].date # day
  BY DEF Prompts!Ask, Prompts!Of, Generating
<1>7. OneAnswer'
  <2>1. \A v \in Writers \ {w}: Generating(v)' => Generating(v) /\ writer'[v].date = writer[v].date
    BY <1>1 DEF OneWriter, Generating
  <2>2. \A i, j \in ideas: i.date = j.date => i.by = j.by \/ i.date \in shared'
    BY <1>2 DEF IdeasInv, OneAnswer
  <2>3. \A v, x \in Writers: Generating(v)' /\ Generating(x)' /\ writer'[v].date = writer'[x].date =>
            v = x \/ writer'[v].date \in shared'
    BY <1>1, <1>2, <1>6, <2>1 DEF IdeasInv, OneAnswer
  <2>4. \A v \in Writers, i \in ideas: Generating(v)' /\ i.date = writer'[v].date =>
            i.by = v \/ i.date \in shared'
    BY <1>1, <1>2, <1>6, <2>1 DEF IdeasInv, OneAnswer
  <2> QED
    BY <1>2, <2>2, <2>3, <2>4 DEF OneAnswer
<1> QED
  BY <1>3, <1>4, <1>5, <1>7 DEF IdeasInv

\* The row of the next rank, unless that rank is there.
LEMMA InsertStep ==
    ASSUME Prompts!IdeasAssumption, IdeasInv, NEW w \in Writers, Prompts!Insert(w)
    PROVE  IdeasInv'
<1> DEFINE me == writer[w]
           row == [date |-> me.date, rank |-> me.next, by |-> w, at |-> Cardinality(ideas) + 1, used |-> 0]
<1>0. /\ Prompts!TypeOK /\ me \in Writing /\ me.pc = "insert" /\ me.date \in 1..Days /\ me.next <= me.size
      /\ me.next \in 1..Batch /\ Batch \in Nat /\ UNCHANGED <<day, shared>>
  BY DEF IdeasInv, Prompts!TypeOK, Prompts!Insert, Writing, WritersKnow, Generating, Prompts!IdeasAssumption
<1>1. CASE Prompts!Goto(w, "done") /\ UNCHANGED ideas
  BY <1>0, <1>1, GotoFacts, WriterRests DEF Generating
<1>2. ASSUME ideas' = ideas \cup (IF Prompts!Clashes(me.date, me.next) THEN {} ELSE {row}),
             writer' = [writer EXCEPT ![w] = [@ EXCEPT !.next = me.next + 1,
                           !.pc = IF me.next = me.size THEN "done" ELSE "insert"]]
      PROVE  IdeasInv'
  <2>1. /\ OneWriter(w) /\ writer'[w].date = me.date /\ writer'[w].size = me.size /\ writer'[w].next = me.next + 1
        /\ writer'[w].pc = IF me.next = me.size THEN "done" ELSE "insert"
    <3> DEFINE x == [me EXCEPT !.next = me.next + 1, !.pc = IF me.next = me.size THEN "done" ELSE "insert"]
    <3>1. x \in Writing
      <4>1. me.next + 1 \in 1..Batch + 1
        BY <1>0
      <4>2. (IF me.next = me.size THEN "done" ELSE "insert") \in {"new", "ask", "think", "insert", "done"}
        OBVIOUS
      <4> HIDE DEF me
      <4> QED
        BY <1>0, <4>1, <4>2 DEF Writing
    <3>2. /\ x.date = me.date /\ x.size = me.size /\ x.next = me.next + 1
          /\ x.pc = IF me.next = me.size THEN "done" ELSE "insert"
      BY <1>0 DEF Writing
    <3>3. writer' = [writer EXCEPT ![w] = x] /\ writer \in [Writers -> Writing]
      BY <1>0, <1>2 DEF Prompts!TypeOK, Writing
    <3> HIDE DEF x
    <3>4. writer'[w] = x /\ OneWriter(w)
      BY <3>1, <3>3 DEF OneWriter
    <3> QED
      BY <3>2, <3>4
  <2>2. writer'[w].pc = "insert" => writer'[w].next <= writer'[w].size
    BY <1>0, <2>1 DEF Writing
  <2>3. CASE Prompts!Clashes(me.date, me.next)
    BY <1>0, <1>2, <2>1, <2>2, <2>3, WriterRests DEF Generating
  <2>4. CASE ~Prompts!Clashes(me.date, me.next)
    <3>0. ideas' = ideas \cup {row}
      BY <1>2, <2>4
    <3>1. Cardinality(ideas) \in Nat /\ IsFiniteSet(ideas) /\ \A i \in ideas: i.at <= Cardinality(ideas)
      BY FS_CardinalityType DEF IdeasInv, RowsAreApart
    <3>2. row \notin ideas
      BY <3>1
    <3>3. IsFiniteSet(ideas') /\ Cardinality(ideas') = Cardinality(ideas) + 1
      BY <3>0, <3>1, <3>2, FS_AddElement
    <3>4. \A i \in ideas: ~(i.date = me.date /\ i.rank = me.next)
      BY <2>4 DEF Prompts!Clashes, Prompts!Of
    <3>5. row \in Prompts!Idea
      BY <1>0, <3>1 DEF Prompts!Idea
    <3>6. row.date = me.date /\ row.rank = me.next /\ row.by = w /\ row.at = Cardinality(ideas) + 1
      OBVIOUS
    <3> HIDE DEF row
    <3>7. Prompts!TypeOK'
      BY <1>0, <2>1, <3>0, <3>5 DEF Prompts!TypeOK, OneWriter, Writing
    <3>8. RowsAreApart'
      <4>1. \A i \in ideas': i.at \in 1..Cardinality(ideas')
        BY <3>0, <3>1, <3>3, <3>6 DEF IdeasInv, RowsAreApart
      <4>2. \A i, j \in ideas': i.at = j.at => i = j
        BY <3>0, <3>1, <3>6 DEF IdeasInv, RowsAreApart
      <4>3. \A i, j \in ideas': i.date = j.date /\ i.rank = j.rank => i = j
        BY <3>0, <3>4, <3>6 DEF IdeasInv, RowsAreApart
      <4> QED
        BY <3>3, <4>1, <4>2, <4>3 DEF RowsAreApart
    <3>9. WritersKnow'
      BY <1>0, <2>1, <2>2 DEF IdeasInv, WritersKnow, Generating, OneWriter
    <3>10. \A v \in Writers: Generating(v)' => Generating(v) /\ writer'[v].date = writer[v].date
      BY <1>0, <2>1 DEF Generating, OneWriter
    <3>11. Generating(w)
      BY <1>0 DEF Generating
    <3>12. OneAnswer'
      BY <1>0, <3>0, <3>6, <3>10, <3>11 DEF IdeasInv, OneAnswer
    <3> QED
      BY <3>7, <3>8, <3>9, <3>12 DEF IdeasInv
  <2> QED
    BY <2>3, <2>4
<1>3. Prompts!Cardinality(ideas) = Cardinality(ideas)
  BY DEF Prompts!Cardinality, Cardinality
<1> QED
  BY <1>1, <1>2, <1>3 DEF Prompts!Insert

LEMMA MarkStep ==
    ASSUME IdeasInv, NEW i \in ideas, Prompts!MarkUsed(i)
    PROVE  IdeasInv'
<1> DEFINE u == [i EXCEPT !.used = day]
<1>0. Prompts!TypeOK /\ i \in Prompts!Idea /\ day \in Nat /\ UNCHANGED <<writer, day, shared>>
  BY DEF IdeasInv, Prompts!TypeOK, Prompts!MarkUsed
<1>1. CASE ideas' = ideas
  BY <1>0, <1>1 DEF IdeasInv, Prompts!TypeOK, RowsAreApart, WritersKnow, OneAnswer, Generating
<1>2. ASSUME ideas' = (ideas \ {i}) \cup {u}
      PROVE  IdeasInv'
  <2>1. u \in Prompts!Idea /\ u.date = i.date /\ u.rank = i.rank /\ u.by = i.by /\ u.at = i.at
    BY <1>0 DEF Prompts!Idea
  <2> HIDE DEF u
  <2>2. IsFiniteSet(ideas) /\ Cardinality(ideas) \in Nat
    BY FS_CardinalityType DEF IdeasInv, RowsAreApart
  <2>3. IsFiniteSet(ideas \ {i}) /\ Cardinality(ideas \ {i}) = Cardinality(ideas) - 1
    BY <2>2, FS_RemoveElement
  <2>4. u \notin ideas \ {i}
    BY <2>1 DEF IdeasInv, RowsAreApart
  <2>5. IsFiniteSet(ideas') /\ Cardinality(ideas') = Cardinality(ideas)
    BY <1>2, <2>2, <2>3, <2>4, FS_AddElement
  <2>6. Prompts!TypeOK'
    BY <1>0, <1>2, <2>1 DEF Prompts!TypeOK
  <2>7. RowsAreApart'
    <3>1. \A j \in ideas': \E k \in ideas: j.at = k.at /\ j.date = k.date /\ j.rank = k.rank /\ (k = i <=> j = u)
                                           /\ (k # i => j = k)
      BY <1>2, <2>1, <2>4
    <3>2. \A j \in ideas': j.at \in 1..Cardinality(ideas')
      BY <2>5, <3>1 DEF IdeasInv, RowsAreApart
    <3>3. \A j, k \in ideas': j.at = k.at => j = k
      BY <3>1 DEF IdeasInv, RowsAreApart
    <3>4. \A j, k \in ideas': j.date = k.date /\ j.rank = k.rank => j = k
      BY <3>1 DEF IdeasInv, RowsAreApart
    <3> QED
      BY <2>5, <3>2, <3>3, <3>4 DEF RowsAreApart
  <2>8. WritersKnow' /\ OneAnswer'
    BY <1>0, <1>2, <2>1 DEF IdeasInv, WritersKnow, OneAnswer, Generating
  <2> QED
    BY <2>6, <2>7, <2>8 DEF IdeasInv
<1> QED
  BY <1>1, <1>2 DEF Prompts!MarkUsed

LEMMA IdeasInductive ==
    ASSUME Prompts!IdeasAssumption
    PROVE  Prompts!Spec => []IdeasInv
<1>1. Prompts!Init => IdeasInv
  BY FS_EmptySet DEF Prompts!Init, Prompts!Fresh, Prompts!IdeasAssumption, IdeasInv, Prompts!TypeOK,
     RowsAreApart, WritersKnow, OneAnswer, Generating
<1>2. IdeasInv /\ [Prompts!Next]_Prompts!ideaVars => IdeasInv'
  <2> SUFFICES ASSUME IdeasInv, [Prompts!Next]_Prompts!ideaVars
               PROVE  IdeasInv'
    OBVIOUS
  <2>0. Prompts!TypeOK
    BY DEF IdeasInv
  <2>1. CASE Prompts!NewDay
    BY <2>1 DEF Prompts!NewDay, Prompts!IdeasAssumption, IdeasInv, Prompts!TypeOK, RowsAreApart,
       WritersKnow, OneAnswer, Generating
  <2>2. ASSUME NEW w \in Writers, Prompts!Consider(w) \/ Prompts!FirstLook(w)
        PROVE  IdeasInv'
    <3>1. PICK pc \in {"ask", "done"}: Prompts!Goto(w, pc) /\ writer[w].pc = "new" /\ UNCHANGED <<ideas, day, shared>>
      BY <2>2 DEF Prompts!Consider, Prompts!FirstLook
    <3> QED
      BY <2>0, <3>1, GotoFacts, WriterRests DEF Generating, IdeasInv, WritersKnow
  <2>3. ASSUME NEW w \in Writers, Prompts!Answer(w)
        PROVE  IdeasInv'
    <3>1. PICK n \in 0..Batch: writer' = [writer EXCEPT ![w] =
              [@ EXCEPT !.pc = IF n = 0 THEN "done" ELSE "insert", !.size = n]]
      BY <2>3 DEF Prompts!Answer, Prompts!Usable
    <3>2. /\ OneWriter(w) /\ writer'[w].pc = (IF n = 0 THEN "done" ELSE "insert") /\ writer'[w].size = n
          /\ writer'[w].date = writer[w].date /\ writer'[w].next = writer[w].next
      BY <2>0, <3>1 DEF Prompts!TypeOK, OneWriter, Writing
    <3>3. writer[w].next = 1 /\ Generating(w) /\ UNCHANGED <<ideas, day, shared>> /\ n \in Nat
      BY <2>3, <3>1 DEF Prompts!Answer, IdeasInv, WritersKnow, Generating, Prompts!IdeasAssumption
    <3> QED
      BY <3>2, <3>3, WriterRests
  <2>4. CASE UNCHANGED Prompts!ideaVars
    BY <2>4 DEF Prompts!ideaVars, IdeasInv, Prompts!TypeOK, RowsAreApart, WritersKnow, OneAnswer, Generating
  <2> QED
    BY <2>1, <2>2, <2>3, <2>4, AskStep, InsertStep, MarkStep DEF Prompts!Next
<1> QED
  BY <1>1, <1>2, PTL DEF Prompts!Spec

\* video_ideas.py and the creator's first look: however many passes and looks overlap, and
\* whatever their answers hold, what is shown is one batch, of one answer unless two writers
\* generated for that date.
THEOREM IdeasAreOneBatch ==
    ASSUME Prompts!IdeasAssumption
    PROVE  Prompts!Spec => []BatchIsOne
<1>1. IdeasInv => Prompts!BatchIsOne
  <2> SUFFICES ASSUME IdeasInv, NEW i \in Prompts!Shown, NEW j \in Prompts!Shown
               PROVE  (i.rank = j.rank => i = j) /\ (i.by = j.by \/ i.date \in shared)
    BY DEF Prompts!BatchIsOne
  <2>1. PICK m \in ideas: m.date = i.date /\ \A k \in ideas: k.at <= m.at
    BY DEF Prompts!Shown
  <2>2. PICK n \in ideas: n.date = j.date /\ \A k \in ideas: k.at <= n.at
    BY DEF Prompts!Shown
  <2>3. m.at = n.at
    <3>1. m.at \in Nat /\ n.at \in Nat
      BY DEF IdeasInv, Prompts!TypeOK, Prompts!Idea
    <3>2. m.at <= n.at /\ n.at <= m.at
      BY <2>1, <2>2
    <3> QED
      BY <3>1, <3>2
  <2>4. i.date = j.date
    BY <2>1, <2>2, <2>3 DEF IdeasInv, RowsAreApart
  <2>5. i \in ideas /\ j \in ideas
    BY DEF Prompts!Shown
  <2> QED
    BY <2>4, <2>5 DEF IdeasInv, RowsAreApart, OneAnswer
<1> QED
  BY <1>1, IdeasInductive, PTL DEF BatchIsOne

\* video_idea_repo.mark_used: an idea that was used keeps its place and its used_at.
THEOREM UsedIdeasStay ==
    ASSUME Prompts!IdeasAssumption
    PROVE  Prompts!Spec => Prompts!UsedStaysUsed
<1>1. [Prompts!Next]_Prompts!ideaVars => \A i \in ideas: i.used # 0 => i \in ideas'
  BY DEF Prompts!Next, Prompts!NewDay, Prompts!Consider, Prompts!FirstLook, Prompts!Ask, Prompts!Answer,
     Prompts!Insert, Prompts!MarkUsed, Prompts!ideaVars
<1> QED
  BY <1>1, PTL DEF Prompts!Spec, Prompts!UsedStaysUsed

-----------------------------------------------------------------------------
(* Catalogue.                                                              *)

\* What a call has found out so far.
Naming(c) == call[c].pc \in {"settle", "check", "insert"}
Knows(c) ==
    /\ Naming(c) => call[c].by \in Creators /\ call[c].name \in Names /\ call[c].bot = Registry!Nothing
    /\ call[c].pc = "settle" => \A n \in 1..(call[c].name - 1): \E i \in DOMAIN rows: rows[i].name = n
    /\ call[c].pc \in {"delete", "ban", "unban"} => call[c].bot \in DOMAIN rows
    /\ call[c].pc = "idle" \/ Naming(c) => c \notin DOMAIN rows

\* A refusal was seen coming.
Settled(c) == call[c].pc \in {"check", "insert"}
SeesRace(c) ==
    /\ Settled(c) /\ Registry!Held(call[c].name) => c \in raced
    /\ call[c].pc = "taken" /\ call[c].bot = Registry!Nothing => c \in raced

NamesApart ==
    /\ \A i, j \in DOMAIN rows: i # j /\ rows[i].name = rows[j].name => rows[i].deleted \/ rows[j].deleted
    /\ \A i \in DOMAIN rows: rows[i].active => ~rows[i].deleted

CatalogueInv == Registry!TypeOK /\ NamesApart /\ \A c \in Calls: Knows(c) /\ SeesRace(c)

Handler == [pc: {"idle", "settle", "check", "insert", "delete", "ban", "unban", "taken", "done"},
            by: Creators \cup {"none"}, bot: Calls \cup {Registry!Nothing}, name: Names \cup {Registry!Nothing}]
OneCall(c) == call' \in [Calls -> Handler] /\ \A d \in Calls \ {c}: call'[d] = call[d]

LEMMA CatalogueFacts ==
    ASSUME Registry!CatalogueAssumption
    PROVE  /\ Calls \subseteq Nat \ {0} /\ IsFiniteSet(Calls) /\ 1 \in Names /\ Names \subseteq Nat \ {0}
           /\ \A n \in Names: n <= Cardinality(Calls) => n + 1 \in Names
<1>1. Registry!Cardinality(Calls) = Cardinality(Calls)
  BY DEF Registry!Cardinality, Cardinality
<1>2. IsFiniteSet(Calls)
  BY DEF Registry!CatalogueAssumption, Registry!IsFiniteSet, IsFiniteSet
<1>3. Cardinality(Calls) \in Nat
  BY <1>2, FS_CardinalityType
<1>4. IsFiniteSet(Names) /\ Registry!Cardinality(Names) = Cardinality(Names)
  BY DEF Registry!CatalogueAssumption, Registry!IsFiniteSet, IsFiniteSet, Registry!Cardinality, Cardinality
<1>5. Cardinality(Names) \in Nat
  BY <1>4, FS_CardinalityType
<1>6. Names = 1..Cardinality(Names) /\ Cardinality(Names) > Cardinality(Calls)
  BY <1>1, <1>4 DEF Registry!CatalogueAssumption
<1> DEFINE n == Cardinality(Names)
<1> HIDE DEF n
<1>7. n \in Nat /\ Names = 1..n /\ n > Cardinality(Calls)
  BY <1>5, <1>6 DEF n
<1> QED
  BY <1>2, <1>3, <1>7 DEF Registry!CatalogueAssumption

LEMMA GotoIsOneCall ==
    ASSUME Registry!TypeOK, NEW c \in Calls, NEW pc \in {"check", "insert", "taken", "done"}, Registry!Goto(c, pc)
    PROVE  /\ OneCall(c) /\ call'[c].pc = pc /\ call'[c].by = call[c].by
           /\ call'[c].bot = call[c].bot /\ call'[c].name = call[c].name
BY DEF Registry!TypeOK, Registry!Goto, OneCall, Handler

\* A handler that only reads.
LEMMA OnlyReads ==
    ASSUME CatalogueInv, NEW c \in Calls, OneCall(c), UNCHANGED <<rows, banned, raced>>, Knows(c)', SeesRace(c)'
    PROVE  CatalogueInv'
<1>1. Registry!TypeOK'
  BY DEF CatalogueInv, Registry!TypeOK, OneCall, Handler
<1>2. \A d \in Calls \ {c}: Knows(d)' /\ SeesRace(d)'
  BY DEF CatalogueInv, Knows, SeesRace, Naming, Settled, Registry!Held, OneCall
<1>3. NamesApart'
  BY DEF CatalogueInv, NamesApart
<1> QED
  BY <1>1, <1>2, <1>3 DEF CatalogueInv

\* As many rows as there are names below the one that is tried.
LEMMA NextNameExists ==
    ASSUME Registry!CatalogueAssumption, CatalogueInv, NEW c \in Calls, call[c].pc = "settle",
           Registry!Held(call[c].name)
    PROVE  call[c].name + 1 \in Names
<1> DEFINE n == call[c].name
           D == {i \in DOMAIN rows: rows[i].name \in 1..n}
           f == [i \in D |-> rows[i].name]
<1>1. n \in Names /\ n \in Nat \ {0}
  BY CatalogueFacts DEF CatalogueInv, Knows, Naming
<1>2. \A m \in 1..n: \E i \in DOMAIN rows: rows[i].name = m
  BY <1>1 DEF CatalogueInv, Knows, Registry!Held
<1>3. f \in Surjection(D, 1..n)
  BY <1>2 DEF Surjection
<1>4. D \in SUBSET Calls
  BY DEF CatalogueInv, Registry!TypeOK
<1>5. IsFiniteSet(D) /\ Cardinality(D) <= Cardinality(Calls)
  BY <1>4, CatalogueFacts, FS_Subset
<1>6. Cardinality(1..n) <= Cardinality(D)
  BY <1>3, <1>5, FS_Surjection
<1>7. Cardinality(1..n) = n
  BY <1>1, FS_Interval
<1>8. Cardinality(D) \in Nat /\ Cardinality(Calls) \in Nat
  BY <1>5, CatalogueFacts, FS_CardinalityType
<1> QED
  BY <1>1, <1>5, <1>6, <1>7, <1>8, CatalogueFacts

LEMMA IdleIsHandler == Registry!Idle \in Handler /\ Registry!Idle.bot = Registry!Nothing
BY DEF Registry!Idle, Handler

LEMMA BeginStep ==
    ASSUME Registry!CatalogueAssumption, CatalogueInv, NEW c \in Calls, NEW by \in Creators, Registry!Begin(c, by)
    PROVE  CatalogueInv'
<1> DEFINE x == [Registry!Idle EXCEPT !.pc = "settle", !.by = by, !.name = 1]
<1>1. x.pc = "settle" /\ x.by = by /\ x.name = 1 /\ x.bot = Registry!Nothing
  BY IdleIsHandler DEF Handler
<1>2. x \in Handler
  BY IdleIsHandler, CatalogueFacts DEF Handler
<1>3. call' = [call EXCEPT ![c] = x] /\ call[c].pc = "idle" /\ UNCHANGED <<rows, banned, raced>>
  BY DEF Registry!Begin, Registry!Arrives
<1> HIDE DEF x
<1>4. OneCall(c) /\ call'[c] = x
  BY <1>2, <1>3 DEF CatalogueInv, Registry!TypeOK, OneCall, Handler
<1>5. Knows(c)'
  BY <1>1, <1>3, <1>4, CatalogueFacts DEF CatalogueInv, Knows, Naming
<1>6. SeesRace(c)'
  BY <1>1, <1>4 DEF SeesRace, Settled
<1> QED
  BY <1>3, <1>4, <1>5, <1>6, OnlyReads

LEMMA AskStepOf ==
    ASSUME Registry!CatalogueAssumption, CatalogueInv, NEW c \in Calls, NEW i \in DOMAIN rows, NEW x,
           call' = [call EXCEPT ![c] = x], call[c].pc = "idle", UNCHANGED <<rows, banned, raced>>,
           x.pc \in {"delete", "ban", "unban", "done"}, x.bot = i, x \in Handler
    PROVE  CatalogueInv'
<1>1. OneCall(c) /\ call'[c] = x
  BY DEF CatalogueInv, Registry!TypeOK, OneCall, Handler
<1>2. Knows(c)'
  BY <1>1 DEF Knows, Naming
<1>3. SeesRace(c)'
  BY <1>1 DEF SeesRace, Settled
<1> QED
  BY <1>1, <1>2, <1>3, OnlyReads

LEMMA AskSteps ==
    ASSUME Registry!CatalogueAssumption, CatalogueInv, NEW c \in Calls, NEW i \in DOMAIN rows,
           \/ \E by \in Creators: Registry!AskDelete(c, by, i)
           \/ \E what \in {"ban", "unban"}: Registry!AskAdmin(c, i, what)
    PROVE  CatalogueInv'
<1>0. i \in Calls
  BY DEF CatalogueInv, Registry!TypeOK
<1>1. ASSUME NEW by \in Creators, Registry!AskDelete(c, by, i)
      PROVE  CatalogueInv'
  <2> DEFINE x == [Registry!Idle EXCEPT !.by = by, !.bot = i, !.pc = IF rows[i].by = by THEN "delete" ELSE "done"]
  <2>2. x.pc \in {"delete", "ban", "unban", "done"} /\ x.bot = i
    BY IdleIsHandler DEF Handler
  <2>3. x \in Handler
    BY <1>0, IdleIsHandler DEF Handler
  <2>4. call' = [call EXCEPT ![c] = x] /\ call[c].pc = "idle" /\ UNCHANGED <<rows, banned, raced>>
    BY <1>1 DEF Registry!AskDelete, Registry!Arrives
  <2> HIDE DEF x
  <2> QED
    BY <2>2, <2>3, <2>4, AskStepOf
<1>2. ASSUME NEW what \in {"ban", "unban"}, Registry!AskAdmin(c, i, what)
      PROVE  CatalogueInv'
  <2> DEFINE x == [Registry!Idle EXCEPT !.pc = what, !.bot = i]
  <2>2. x.pc \in {"delete", "ban", "unban", "done"} /\ x.bot = i
    BY IdleIsHandler DEF Handler
  <2>3. x \in Handler
    BY <1>0, IdleIsHandler DEF Handler
  <2>4. call' = [call EXCEPT ![c] = x] /\ call[c].pc = "idle" /\ UNCHANGED <<rows, banned, raced>>
    BY <1>2 DEF Registry!AskAdmin, Registry!Arrives
  <2> HIDE DEF x
  <2> QED
    BY <2>2, <2>3, <2>4, AskStepOf
<1> QED
  BY <1>1, <1>2

LEMMA SettleStep ==
    ASSUME Registry!CatalogueAssumption, CatalogueInv, NEW c \in Calls, Registry!Settle(c)
    PROVE  CatalogueInv'
<1>0. Registry!TypeOK /\ Knows(c) /\ call[c].pc = "settle" /\ UNCHANGED <<rows, banned, raced>>
  BY DEF CatalogueInv, Registry!Settle
<1>1. CASE Registry!Held(call[c].name)
  <2>1. call' = [call EXCEPT ![c].name = call[c].name + 1]
    BY <1>1 DEF Registry!Settle
  <2>2. call[c].name + 1 \in Names
    BY <1>0, <1>1, NextNameExists
  <2>3. /\ OneCall(c) /\ call'[c].pc = "settle" /\ call'[c].by = call[c].by
        /\ call'[c].bot = call[c].bot /\ call'[c].name = call[c].name + 1
    BY <1>0, <2>1, <2>2 DEF Registry!TypeOK, OneCall, Handler
  <2>4. call[c].name \in Nat
    BY <1>0, CatalogueFacts DEF Knows, Naming
  <2>5. \A n \in 1..(call'[c].name - 1): \E i \in DOMAIN rows: rows[i].name = n
    <3> SUFFICES ASSUME NEW n \in 1..(call'[c].name - 1)
                 PROVE  \E i \in DOMAIN rows: rows[i].name = n
      OBVIOUS
    <3>1. n = call[c].name \/ n \in 1..(call[c].name - 1)
      BY <2>3, <2>4
    <3> QED
      BY <1>0, <1>1, <3>1 DEF Knows, Registry!Held
  <2>6. Knows(c)'
    BY <1>0, <2>2, <2>3, <2>5 DEF Knows, Naming
  <2>7. SeesRace(c)'
    BY <2>3 DEF SeesRace, Settled
  <2> QED
    BY <1>0, <2>3, <2>6, <2>7, OnlyReads
<1>2. CASE ~Registry!Held(call[c].name)
  <2>1. Registry!Goto(c, "check")
    BY <1>2 DEF Registry!Settle
  <2>2. /\ OneCall(c) /\ call'[c].pc = "check" /\ call'[c].by = call[c].by
        /\ call'[c].bot = call[c].bot /\ call'[c].name = call[c].name
    BY <1>0, <2>1, GotoIsOneCall
  <2>3. Knows(c)'
    BY <1>0, <2>2 DEF Knows, Naming
  <2>4. SeesRace(c)'
    BY <1>0, <1>2, <2>2 DEF SeesRace, Registry!Held
  <2> QED
    BY <1>0, <2>2, <2>3, <2>4, OnlyReads
<1> QED
  BY <1>1, <1>2

\* A create that is refused, and the check that lets it go on.
LEMMA NameStep ==
    ASSUME CatalogueInv, NEW c \in Calls, Settled(c), UNCHANGED <<rows, banned, raced>>,
           NEW pc \in {"taken", "insert"}, Registry!Goto(c, pc),
           pc = "taken" => Registry!Held(call[c].name)
    PROVE  CatalogueInv'
<1>1. /\ OneCall(c) /\ call'[c].pc = pc /\ call'[c].by = call[c].by
      /\ call'[c].bot = call[c].bot /\ call'[c].name = call[c].name
  BY GotoIsOneCall DEF CatalogueInv
<1>2. Knows(c)'
  BY <1>1 DEF CatalogueInv, Knows, Naming, Settled
<1>3. SeesRace(c)'
  BY <1>1 DEF CatalogueInv, SeesRace, Settled, Registry!Held
<1> QED
  BY <1>1, <1>2, <1>3, OnlyReads

\* A call that is over has no part in the names any more.
Over(c) == OneCall(c) /\ call'[c].pc = "done"

LEMMA InsertRowStep ==
    ASSUME Registry!CatalogueAssumption, CatalogueInv, NEW c \in Calls, Registry!Insert(c), ~Registry!Held(call[c].name)
    PROVE  CatalogueInv'
<1> DEFINE name == call[c].name
           row == [name |-> name, by |-> call[c].by, active |-> TRUE, deleted |-> FALSE]
<1>0. Registry!TypeOK /\ Knows(c) /\ call[c].pc = "insert" /\ banned' = banned
  BY DEF CatalogueInv, Registry!Insert
<1>1. row \in Registry!Row /\ row.name = name /\ row.active = TRUE /\ row.deleted = FALSE /\ c \notin DOMAIN rows
  BY <1>0 DEF Knows, Naming, Registry!Row
<1>2. /\ rows' = [i \in DOMAIN rows \cup {c} |-> IF i = c THEN row ELSE rows[i]]
      /\ Registry!Goto(c, "done") /\ raced' = raced \cup (Registry!Waiting(name) \ {c})
  BY DEF Registry!Insert
<1>3. Over(c)
  BY <1>0, <1>2, GotoIsOneCall DEF Over
<1> HIDE DEF row
<1>4. /\ DOMAIN rows' = DOMAIN rows \cup {c} /\ rows'[c] = row
      /\ \A i \in DOMAIN rows: rows'[i] = rows[i]
  BY <1>1, <1>2
<1>5. Registry!TypeOK'
  <2>1. call' \in [Calls -> Handler]
    BY <1>3 DEF Over, OneCall
  <2>2. raced' \subseteq Calls
    BY <1>0, <1>2 DEF Registry!TypeOK, Registry!Waiting
  <2>3. DOMAIN rows' \subseteq Calls /\ (\A i \in DOMAIN rows': rows'[i] \in Registry!Row) /\ banned' \subseteq DOMAIN rows'
    BY <1>0, <1>1, <1>4 DEF Registry!TypeOK
  <2> QED
    BY <2>1, <2>2, <2>3 DEF Registry!TypeOK, Handler
<1>6. NamesApart'
  <2>1. \A i \in DOMAIN rows: rows[i].name = name => rows[i].deleted
    BY DEF Registry!Held
  <2>2. \A i, j \in DOMAIN rows': i # j /\ rows'[i].name = rows'[j].name => rows'[i].deleted \/ rows'[j].deleted
    BY <1>1, <1>4, <2>1 DEF CatalogueInv, NamesApart
  <2>3. \A i \in DOMAIN rows': rows'[i].active => ~rows'[i].deleted
    BY <1>1, <1>4 DEF CatalogueInv, NamesApart
  <2> QED
    BY <2>2, <2>3 DEF NamesApart
<1>7. ASSUME NEW d \in Calls
      PROVE  Knows(d)' /\ SeesRace(d)'
  <2>1. CASE d = c
    BY <1>3, <2>1 DEF Over, Knows, Naming, SeesRace, Settled
  <2>2. CASE d # c
    <3>1. call'[d] = call[d]
      BY <1>3, <2>2 DEF Over, OneCall
    <3>2. Knows(d)'
      BY <1>4, <2>2, <3>1 DEF CatalogueInv, Knows, Naming
    <3>3. Settled(d) /\ call[d].name = name => d \in raced'
      BY <1>2, <2>2 DEF Settled, Registry!Waiting
    <3>4. SeesRace(d)'
      BY <1>1, <1>2, <1>4, <3>1, <3>3 DEF CatalogueInv, SeesRace, Settled, Registry!Held
    <3> QED
      BY <3>2, <3>4
  <2> QED
    BY <2>1, <2>2
<1> QED
  BY <1>5, <1>6, <1>7 DEF CatalogueInv

\* One row is written, under its name; what is active again comes back only to a free name.
LEMMA RowWritten ==
    ASSUME CatalogueInv, NEW c \in Calls, Over(c), NEW i \in DOMAIN rows, NEW row \in Registry!Row,
           rows' = [rows EXCEPT ![i] = row], row.name = rows[i].name, row.active => ~row.deleted,
           rows[i].deleted /\ ~row.deleted => ~Registry!Held(row.name),
           banned' \subseteq DOMAIN rows,
           raced' = raced \cup (IF rows[i].deleted /\ ~row.deleted THEN Registry!Waiting(row.name) ELSE {})
    PROVE  CatalogueInv'
<1>1. DOMAIN rows' = DOMAIN rows /\ rows'[i] = row /\ \A j \in DOMAIN rows \ {i}: rows'[j] = rows[j]
  OBVIOUS
<1>2. \A j \in DOMAIN rows: rows'[j].name = rows[j].name
  BY <1>1
<1>3. Registry!TypeOK'
  <2>1. call' \in [Calls -> Handler]
    BY DEF Over, OneCall
  <2>2. raced' \subseteq Calls
    BY DEF CatalogueInv, Registry!TypeOK, Registry!Waiting
  <2>3. DOMAIN rows' \subseteq Calls /\ (\A j \in DOMAIN rows': rows'[j] \in Registry!Row) /\ banned' \subseteq DOMAIN rows'
    BY <1>1 DEF CatalogueInv, Registry!TypeOK
  <2> QED
    BY <2>1, <2>2, <2>3 DEF Registry!TypeOK, Handler
<1>4. NamesApart'
  <2>1. \A j, k \in DOMAIN rows': j # k /\ rows'[j].name = rows'[k].name => rows'[j].deleted \/ rows'[k].deleted
    <3>1. ASSUME NEW j \in DOMAIN rows, j # i, rows[j].name = rows[i].name
          PROVE  rows[j].deleted \/ row.deleted
      <4>1. rows[j].deleted \/ rows[i].deleted
        BY <3>1 DEF CatalogueInv, NamesApart
      <4>2. CASE rows[i].deleted /\ ~row.deleted
        BY <3>1, <4>2 DEF Registry!Held
      <4> QED
        BY <4>1, <4>2
    <3> QED
      BY <1>1, <3>1 DEF CatalogueInv, NamesApart
  <2>2. \A j \in DOMAIN rows': rows'[j].active => ~rows'[j].deleted
    BY <1>1 DEF CatalogueInv, NamesApart
  <2> QED
    BY <2>1, <2>2 DEF NamesApart
<1>5. ASSUME NEW d \in Calls
      PROVE  Knows(d)' /\ SeesRace(d)'
  <2>1. CASE d = c
    BY <2>1 DEF Over, Knows, Naming, SeesRace, Settled
  <2>2. CASE d # c
    <3>1. call'[d] = call[d]
      BY <2>2 DEF Over, OneCall
    <3>2. Knows(d)'
      BY <1>1, <1>2, <3>1 DEF CatalogueInv, Knows, Naming
    <3>3. Settled(d) /\ Registry!Held(call[d].name)' /\ ~Registry!Held(call[d].name) => d \in raced'
      BY <1>1, <1>2, <3>1 DEF Settled, Registry!Held, Registry!Waiting
    <3>4. SeesRace(d)'
      BY <3>1, <3>3 DEF CatalogueInv, SeesRace, Settled
    <3> QED
      BY <3>2, <3>4
  <2> QED
    BY <2>1, <2>2
<1> QED
  BY <1>3, <1>4, <1>5 DEF CatalogueInv

LEMMA RowSteps ==
    ASSUME CatalogueInv, NEW c \in Calls,
           \/ Registry!SoftDelete(c)
           \/ Registry!Ban(c)
           \/ Registry!Unban(c) /\ ~(rows[call[c].bot].deleted /\ Registry!Held(rows[call[c].bot].name))
    PROVE  CatalogueInv'
<1> DEFINE i == call[c].bot
           r == rows[i]
<1>0. Registry!TypeOK /\ call[c].pc \in {"delete", "ban", "unban"} /\ Registry!Goto(c, "done")
  BY DEF CatalogueInv, Registry!SoftDelete, Registry!Ban, Registry!Unban
<1>1. i \in DOMAIN rows /\ r \in Registry!Row
  BY <1>0 DEF CatalogueInv, Knows, Registry!TypeOK
<1>2. Over(c)
  BY <1>0, GotoIsOneCall DEF Over
<1>3. CASE Registry!SoftDelete(c)
  <2> DEFINE x == [r EXCEPT !.active = FALSE, !.deleted = TRUE]
  <2>1. x \in Registry!Row /\ x.name = r.name
    BY <1>1 DEF Registry!Row
  <2>2. x.active = FALSE /\ x.deleted = TRUE
    BY <1>1 DEF Registry!Row
  <2>3. rows' = [rows EXCEPT ![i] = x]
    BY <1>1, <1>3 DEF Registry!SoftDelete
  <2>4. raced' = raced /\ banned' \subseteq DOMAIN rows
    BY <1>0, <1>3 DEF Registry!SoftDelete, Registry!TypeOK
  <2> HIDE DEF x
  <2> QED
    BY <1>1, <1>2, <2>1, <2>2, <2>3, <2>4, RowWritten
<1>4. CASE Registry!Ban(c)
  <2> DEFINE x == [r EXCEPT !.active = FALSE]
  <2>1. x \in Registry!Row /\ x.name = r.name
    BY <1>1 DEF Registry!Row
  <2>2. x.active = FALSE /\ x.deleted = r.deleted
    BY <1>1 DEF Registry!Row
  <2>3. rows' = [rows EXCEPT ![i] = x]
    BY <1>4 DEF Registry!Ban, Registry!Banned
  <2>4. raced' = raced /\ banned' \subseteq DOMAIN rows
    BY <1>0, <1>1, <1>4 DEF Registry!Ban, Registry!TypeOK
  <2> HIDE DEF x
  <2> QED
    BY <1>1, <1>2, <2>1, <2>2, <2>3, <2>4, RowWritten
<1>5. CASE Registry!Unban(c) /\ ~(r.deleted /\ Registry!Held(r.name))
  <2> DEFINE x == [r EXCEPT !.active = TRUE, !.deleted = FALSE]
  <2>1. x \in Registry!Row /\ x.name = r.name
    BY <1>1 DEF Registry!Row
  <2>2. x.active = TRUE /\ x.deleted = FALSE
    BY <1>1 DEF Registry!Row
  <2>3. rows' = [rows EXCEPT ![i] = x]
    BY <1>5 DEF Registry!Unban, Registry!Restored
  <2>4. banned' \subseteq DOMAIN rows /\ raced' = IF r.deleted THEN raced \cup Registry!Waiting(r.name) ELSE raced
    BY <1>0, <1>5 DEF Registry!Unban, Registry!TypeOK
  <2> HIDE DEF x
  <2>5. raced' = raced \cup (IF r.deleted /\ ~x.deleted THEN Registry!Waiting(x.name) ELSE {})
    BY <2>1, <2>2, <2>4
  <2> QED
    BY <1>1, <1>2, <1>5, <2>1, <2>2, <2>3, <2>4, <2>5, RowWritten
<1> QED
  BY <1>3, <1>4, <1>5

LEMMA CatalogueInductive ==
    ASSUME Registry!CatalogueAssumption
    PROVE  Registry!Spec => []CatalogueInv
<1>1. Registry!Init => CatalogueInv
  <2> SUFFICES ASSUME Registry!Init
               PROVE  CatalogueInv
    OBVIOUS
  <2>1. DOMAIN rows = {} /\ banned = {} /\ raced = {} /\ \A c \in Calls: call[c] = Registry!Idle
    BY DEF Registry!Init
  <2>2. Registry!TypeOK
    BY <2>1, IdleIsHandler DEF Registry!Init, Registry!TypeOK, Handler
  <2>3. Registry!Idle.pc = "idle"
    BY DEF Registry!Idle
  <2> QED
    BY <2>1, <2>2, <2>3 DEF CatalogueInv, NamesApart, Knows, Naming, SeesRace, Settled
<1>2. CatalogueInv /\ [Registry!Next]_Registry!catalogueVars => CatalogueInv'
  <2> SUFFICES ASSUME CatalogueInv, [Registry!Next]_Registry!catalogueVars
               PROVE  CatalogueInv'
    OBVIOUS
  <2>1. ASSUME NEW c \in Calls, Registry!Check(c)
        PROVE  CatalogueInv'
    <3>1. PICK pc \in {"taken", "insert"}: Registry!Goto(c, pc) /\ (pc = "taken" => Registry!Held(call[c].name))
      BY <2>1 DEF Registry!Check
    <3> QED
      BY <2>1, <3>1, NameStep DEF Registry!Check, Settled
  <2>2. ASSUME NEW c \in Calls, Registry!Insert(c)
        PROVE  CatalogueInv'
    <3>1. CASE Registry!Held(call[c].name)
      BY <2>2, <3>1, NameStep DEF Registry!Insert, Settled
    <3> QED
      BY <2>2, <3>1, InsertRowStep
  <2>3. ASSUME NEW c \in Calls, Registry!Unban(c), rows[call[c].bot].deleted, Registry!Held(rows[call[c].bot].name)
        PROVE  CatalogueInv'
    <3>1. Registry!Goto(c, "taken") /\ UNCHANGED <<rows, banned, raced>> /\ call[c].pc = "unban"
      BY <2>3 DEF Registry!Unban
    <3>2. OneCall(c) /\ call'[c].pc = "taken" /\ call'[c].bot = call[c].bot
      BY <3>1, GotoIsOneCall DEF CatalogueInv
    <3>3. call[c].bot # Registry!Nothing
      BY <3>1, CatalogueFacts DEF CatalogueInv, Knows, Registry!TypeOK, Registry!Nothing
    <3>4. Knows(c)' /\ SeesRace(c)'
      BY <3>2, <3>3 DEF Knows, Naming, SeesRace, Settled
    <3> QED
      BY <3>1, <3>2, <3>4, OnlyReads
  <2>4. CASE UNCHANGED Registry!catalogueVars
    BY <2>4 DEF Registry!catalogueVars, CatalogueInv, Registry!TypeOK, NamesApart, Knows, Naming, SeesRace,
       Settled, Registry!Held
  <2> QED
    BY <2>1, <2>2, <2>3, <2>4, BeginStep, AskSteps, SettleStep, RowSteps DEF Registry!Next
<1> QED
  BY <1>1, <1>2, PTL DEF Registry!Spec

\* influencers.py, influencer_repo.py: whatever is created, deleted, banned and brought back
\* by however many calls at once, no two active bots share a name, the name of a banned one
\* is nobody else's, and a create is refused only for a name taken after it was settled on.
THEOREM NamesStayHeld ==
    ASSUME Registry!CatalogueAssumption
    PROVE  Registry!Spec => []CatalogueIsSound
<1>1. CatalogueInv => Registry!CatalogueIsSound
  BY DEF CatalogueInv, NamesApart, SeesRace, Registry!CatalogueIsSound, Registry!NamesAreHeld,
     Registry!RefusalsAreRaces
<1> QED
  BY <1>1, CatalogueInductive, PTL DEF CatalogueIsSound

-----------------------------------------------------------------------------
(* Wizard.                                                                 *)

\* What a call carries between its reads and its writes; unless an answer was given again,
\* or a draft replaced, it is what the session still holds.
Carries(c) ==
    /\ wizard[c].pc = "record" => wizard[c].key \in Questions
    /\ wizard[c].pc = "think" => Creation!Complete(wizard[c].answers) /\ (wizard[c].answers = answers \/ revised)
    /\ wizard[c].pc \in {"create", "mark"} =>
           /\ wizard[c].draft # Creation!NoDraft /\ Creation!Complete(wizard[c].draft.from)
           /\ wizard[c].draft = draft \/ redrafted
    /\ wizard[c].pc = "mark" => \E b \in bots: b.id = c

BotsAreOfTheDraft ==
    /\ IsFiniteSet(bots) /\ \A a, b \in bots: a = b \/ redrafted
    /\ \A b \in bots: /\ b.draft # Creation!NoDraft /\ Creation!Complete(b.draft.from)
                      /\ b.draft = draft \/ redrafted

DraftIsOfTheAnswers ==
    draft # Creation!NoDraft => Creation!Complete(draft.from) /\ (draft.from = answers \/ revised)

WizardInv ==
    /\ Creation!TypeOK /\ (\A c \in Calls: Carries(c))
    /\ BotsAreOfTheDraft /\ DraftIsOfTheAnswers /\ Creation!CommittedExists

Device == [pc: {"idle", "record", "think", "create", "mark", "done"}, key: Questions \cup {"none"},
           answers: Creation!Answers, draft: Creation!Draft]
OneDevice(c) == wizard' \in [Calls -> Device] /\ \A d \in Calls \ {c}: wizard'[d] = wizard[d]

LEMMA EmptyAnswers == << >> \in Creation!Answers
<1>1. << >> \in [{} -> Calls]
  OBVIOUS
<1> QED
  BY <1>1 DEF Creation!Answers

LEMMA NoDraftIsDraft == Creation!NoDraft \in Creation!Draft /\ Creation!Idle \in Device
BY EmptyAnswers DEF Creation!NoDraft, Creation!Draft, Creation!Idle, Device

LEMMA DeviceGoes ==
    ASSUME Creation!TypeOK, NEW c \in Calls, NEW pc \in {"create", "mark", "done"}, Creation!Goto(c, pc)
    PROVE  /\ OneDevice(c) /\ wizard'[c].pc = pc /\ wizard'[c].draft = wizard[c].draft
BY DEF Creation!TypeOK, Creation!Goto, OneDevice, Device

\* A call that leaves the session alone.
LEMMA SessionRests ==
    ASSUME WizardInv, NEW c \in Calls, OneDevice(c), Carries(c)',
           UNCHANGED <<answers, draft, committed, bots, revised, redrafted>>
    PROVE  WizardInv'
<1>1. Creation!TypeOK'
  <2>1. wizard' \in [Calls -> Device]
    BY DEF OneDevice
  <2>2. revised' \in BOOLEAN /\ redrafted' \in BOOLEAN
    BY DEF WizardInv, Creation!TypeOK
  <2> QED
    BY <2>1, <2>2 DEF WizardInv, Creation!TypeOK, Device
<1>2. \A d \in Calls: Carries(d)'
  BY DEF WizardInv, Carries, OneDevice
<1>3. BotsAreOfTheDraft' /\ DraftIsOfTheAnswers' /\ Creation!CommittedExists'
  BY DEF WizardInv, BotsAreOfTheDraft, DraftIsOfTheAnswers, Creation!CommittedExists
<1> QED
  BY <1>1, <1>2, <1>3 DEF WizardInv

LEMMA AnswerStep ==
    ASSUME WizardInv, NEW c \in Calls, NEW key \in Questions, Creation!Answer(c, key)
    PROVE  WizardInv'
<1> DEFINE x == [Creation!Idle EXCEPT !.pc = IF committed = Creation!None THEN "record" ELSE "done", !.key = key]
<1>1. x \in Device /\ x.pc \in {"record", "done"} /\ x.key = key
  BY NoDraftIsDraft DEF Device
<1>2. wizard' = [wizard EXCEPT ![c] = x] /\ UNCHANGED <<answers, draft, committed, bots, revised, redrafted>>
  BY DEF Creation!Answer, Creation!session
<1> HIDE DEF x
<1>3. OneDevice(c) /\ wizard'[c] = x
  BY <1>1, <1>2 DEF WizardInv, Creation!TypeOK, OneDevice, Device
<1>4. Carries(c)'
  BY <1>1, <1>3 DEF Carries
<1> QED
  BY <1>2, <1>3, <1>4, SessionRests

LEMMA CommitStep ==
    ASSUME WizardInv, NEW c \in Calls, Creation!Commit(c)
    PROVE  WizardInv'
<1> DEFINE x == [Creation!Idle EXCEPT
                    !.pc = IF committed = Creation!None /\ draft # Creation!NoDraft THEN "create" ELSE "done",
                    !.draft = draft]
<1>0. draft \in Creation!Draft
  BY DEF WizardInv, Creation!TypeOK
<1>1. /\ x \in Device /\ x.pc \in {"create", "done"} /\ x.draft = draft
      /\ x.pc = "create" => draft # Creation!NoDraft
  BY <1>0, NoDraftIsDraft DEF Device
<1>2. wizard' = [wizard EXCEPT ![c] = x] /\ UNCHANGED <<answers, draft, committed, bots, revised, redrafted>>
  BY DEF Creation!Commit, Creation!session
<1> HIDE DEF x
<1>3. OneDevice(c) /\ wizard'[c] = x
  BY <1>1, <1>2 DEF WizardInv, Creation!TypeOK, OneDevice, Device
<1>4. Carries(c)'
  BY <1>1, <1>2, <1>3 DEF WizardInv, Carries, DraftIsOfTheAnswers
<1> QED
  BY <1>2, <1>3, <1>4, SessionRests

\* An answer given when all are in marks the session as revised.
LEMMA RecordStep ==
    ASSUME WizardInv, NEW c \in Calls, Creation!Record(c)
    PROVE  WizardInv'
<1> DEFINE key == wizard[c].key
           given == [k \in DOMAIN answers \cup {key} |-> IF k = key THEN c ELSE answers[k]]
           x == [wizard[c] EXCEPT !.answers = given, !.pc = IF Creation!NeedsDraft(given) THEN "think" ELSE "done"]
<1>0. Creation!TypeOK /\ Carries(c) /\ wizard[c].pc = "record" /\ wizard[c] \in Device
  BY DEF WizardInv, Creation!Record, Creation!TypeOK, Device
<1>1. given \in Creation!Answers
  <2>1. PICK asked \in SUBSET Questions: answers \in [asked -> Calls]
    BY <1>0 DEF Creation!TypeOK, Creation!Answers
  <2>2. asked \cup {key} \in SUBSET Questions /\ given \in [asked \cup {key} -> Calls]
    BY <1>0, <2>1 DEF Carries
  <2> QED
    BY <2>2 DEF Creation!Answers
<1>2. /\ answers' = given /\ wizard' = [wizard EXCEPT ![c] = x]
      /\ UNCHANGED <<draft, committed, bots, redrafted>> /\ (revised' <=> revised \/ Creation!Complete(answers))
  BY <1>0 DEF Creation!Record
<1> HIDE DEF given
<1>3. /\ x \in Device /\ x.pc \in {"think", "done"} /\ x.answers = given
      /\ x.pc = "think" => Creation!Complete(given)
  BY <1>0, <1>1 DEF Device, Creation!NeedsDraft
<1> HIDE DEF x
<1>4. OneDevice(c) /\ wizard'[c] = x
  BY <1>0, <1>2, <1>3 DEF Creation!TypeOK, OneDevice, Device
<1>5. Creation!TypeOK'
  <2>1. revised' \in BOOLEAN /\ redrafted' \in BOOLEAN
    BY <1>0 DEF Creation!TypeOK, Creation!Record
  <2>2. wizard' \in [Calls -> Device] /\ answers' \in Creation!Answers
    BY <1>1, <1>2, <1>4 DEF OneDevice
  <2> QED
    BY <1>0, <1>2, <2>1, <2>2 DEF Creation!TypeOK, Device
<1>6. \A given2: Creation!Complete(given2) /\ (given2 = answers \/ revised) => revised'
  BY <1>2
<1>7. \A d \in Calls: Carries(d)'
  <2>1. Carries(c)'
    BY <1>2, <1>3, <1>4 DEF Carries
  <2>2. \A d \in Calls \ {c}: Carries(d)'
    BY <1>2, <1>4, <1>6 DEF WizardInv, Carries, OneDevice
  <2> QED
    BY <2>1, <2>2
<1>8. BotsAreOfTheDraft' /\ DraftIsOfTheAnswers' /\ Creation!CommittedExists'
  BY <1>2, <1>6 DEF WizardInv, BotsAreOfTheDraft, DraftIsOfTheAnswers, Creation!CommittedExists
<1> QED
  BY <1>5, <1>7, <1>8 DEF WizardInv

\* A draft that replaces none is the first: no bot is of another.
LEMMA SaveDraftStep ==
    ASSUME WizardInv, NEW c \in Calls, Creation!SaveDraft(c)
    PROVE  WizardInv'
<1>0. Creation!TypeOK /\ wizard[c].pc = "think" /\ Creation!Goto(c, "done") /\ wizard[c] \in Device
      /\ UNCHANGED <<answers, committed, bots, revised>>
  BY DEF WizardInv, Creation!SaveDraft, Creation!TypeOK, Device
<1>1. OneDevice(c) /\ Carries(c)'
  BY <1>0, DeviceGoes DEF Carries
<1>2. CASE UNCHANGED <<draft, redrafted>>
  BY <1>0, <1>1, <1>2, SessionRests
<1>3. ASSUME NEW name \in BotNames, draft' = [from |-> wizard[c].answers, name |-> name],
             redrafted' = (redrafted \/ draft # Creation!NoDraft)
      PROVE  WizardInv'
  <2>1. draft' \in Creation!Draft /\ draft'.from = wizard[c].answers
    BY <1>0, <1>3 DEF Device, Creation!Draft
  <2>2. redrafted' \in BOOLEAN /\ revised' \in BOOLEAN
    BY <1>0, <1>3 DEF Creation!TypeOK
  <2>3. Creation!TypeOK'
    <3>1. wizard' \in [Calls -> Device]
      BY <1>1 DEF OneDevice
    <3> QED
      BY <1>0, <2>1, <2>2, <3>1 DEF Creation!TypeOK, Device
  <2>4. redrafted \/ draft # Creation!NoDraft => redrafted'
    BY <1>3
  <2>5. \A d \in Calls: Carries(d)'
    <3>1. \A d \in Calls \ {c}: Carries(d)'
      BY <1>0, <1>1, <2>4 DEF WizardInv, Carries, OneDevice
    <3> QED
      BY <1>1, <3>1
  <2>6. BotsAreOfTheDraft'
    BY <1>0, <2>4 DEF WizardInv, BotsAreOfTheDraft
  <2>7. DraftIsOfTheAnswers' /\ Creation!CommittedExists'
    BY <1>0, <2>1 DEF WizardInv, Carries, DraftIsOfTheAnswers, Creation!CommittedExists
  <2> QED
    BY <2>3, <2>5, <2>6, <2>7 DEF WizardInv
<1> QED
  BY <1>2, <1>3 DEF Creation!SaveDraft

\* The second bot of the same draft would have the name of the first.
LEMMA CreateStep ==
    ASSUME WizardInv, NEW c \in Calls, Creation!Create(c)
    PROVE  WizardInv'
<1> DEFINE bot == [id |-> c, draft |-> wizard[c].draft]
<1>0. Creation!TypeOK /\ Carries(c) /\ wizard[c].pc = "create" /\ wizard[c] \in Device
      /\ UNCHANGED <<answers, draft, committed, revised, redrafted>>
  BY DEF WizardInv, Creation!Create, Creation!TypeOK, Creation!session, Device
<1>1. CASE UNCHANGED bots /\ Creation!Goto(c, "done")
  <2>1. OneDevice(c) /\ Carries(c)'
    BY <1>0, <1>1, DeviceGoes DEF Carries
  <2> QED
    BY <1>0, <1>1, <2>1, SessionRests
<1>2. ASSUME Creation!NameIsFree(wizard[c].draft.name), bots' = bots \cup {bot}, Creation!Goto(c, "mark")
      PROVE  WizardInv'
  <2>0. /\ bot \in [id: Calls, draft: Creation!Draft] /\ bot.id = c /\ bot.draft = wizard[c].draft
    BY <1>0 DEF Device
  <2> HIDE DEF bot
  <2>1. OneDevice(c) /\ wizard'[c].pc = "mark" /\ wizard'[c].draft = wizard[c].draft
    BY <1>0, <1>2, DeviceGoes
  <2>2. \A b \in bots: redrafted
    BY <1>0, <1>2 DEF WizardInv, BotsAreOfTheDraft, Carries, Creation!NameIsFree
  <2>3. Creation!TypeOK'
    <3>1. wizard' \in [Calls -> Device] /\ bots' \subseteq [id: Calls, draft: Creation!Draft]
      BY <1>0, <1>2, <2>0, <2>1 DEF OneDevice, Creation!TypeOK
    <3>2. revised' \in BOOLEAN /\ redrafted' \in BOOLEAN
      BY <1>0 DEF Creation!TypeOK
    <3> QED
      BY <1>0, <3>1, <3>2 DEF Creation!TypeOK, Device
  <2>4. \A d \in Calls: Carries(d)'
    <3>1. Carries(c)'
      BY <1>0, <1>2, <2>0, <2>1 DEF Carries
    <3>2. \A d \in Calls \ {c}: Carries(d)'
      BY <1>0, <1>2, <2>1 DEF WizardInv, Carries, OneDevice
    <3> QED
      BY <3>1, <3>2
  <2>5. BotsAreOfTheDraft'
    <3>1. IsFiniteSet(bots')
      BY <1>2, FS_AddElement DEF WizardInv, BotsAreOfTheDraft
    <3>2. \A a, b \in bots': a = b \/ redrafted'
      BY <1>0, <1>2, <2>2 DEF WizardInv, BotsAreOfTheDraft
    <3>3. \A b \in bots': /\ b.draft # Creation!NoDraft /\ Creation!Complete(b.draft.from)
                          /\ b.draft = draft' \/ redrafted'
      BY <1>0, <1>2, <2>0 DEF WizardInv, BotsAreOfTheDraft, Carries
    <3> QED
      BY <3>1, <3>2, <3>3 DEF BotsAreOfTheDraft
  <2>6. DraftIsOfTheAnswers' /\ Creation!CommittedExists'
    BY <1>0, <1>2 DEF WizardInv, DraftIsOfTheAnswers, Creation!CommittedExists
  <2> QED
    BY <2>3, <2>4, <2>5, <2>6 DEF WizardInv
<1> QED
  BY <1>1, <1>2 DEF Creation!Create

LEMMA MarkCommittedStep ==
    ASSUME WizardInv, NEW c \in Calls, Creation!Mark(c)
    PROVE  WizardInv'
<1>0. Creation!TypeOK /\ Carries(c) /\ wizard[c].pc = "mark" /\ Creation!Goto(c, "done") /\ committed' \in {c, committed}
      /\ UNCHANGED <<answers, draft, bots, revised, redrafted>>
  BY DEF WizardInv, Creation!Mark
<1>1. OneDevice(c) /\ wizard'[c].pc = "done"
  BY <1>0, DeviceGoes
<1>2. Creation!TypeOK'
  <2>1. wizard' \in [Calls -> Device] /\ committed' \in Calls \cup {Creation!None}
    BY <1>0, <1>1 DEF OneDevice, Creation!TypeOK
  <2>2. revised' \in BOOLEAN /\ redrafted' \in BOOLEAN
    BY <1>0 DEF Creation!TypeOK
  <2> QED
    BY <1>0, <2>1, <2>2 DEF Creation!TypeOK, Device
<1>3. \A d \in Calls: Carries(d)'
  BY <1>0, <1>1 DEF WizardInv, Carries, OneDevice
<1>4. Creation!CommittedExists'
  BY <1>0 DEF WizardInv, Carries, Creation!CommittedExists
<1>5. BotsAreOfTheDraft' /\ DraftIsOfTheAnswers'
  BY <1>0 DEF WizardInv, BotsAreOfTheDraft, DraftIsOfTheAnswers
<1> QED
  BY <1>2, <1>3, <1>4, <1>5 DEF WizardInv

LEMMA WizardInductive ==
    ASSUME Creation!WizardAssumption
    PROVE  Creation!Spec => []WizardInv
<1>1. Creation!Init => WizardInv
  <2> SUFFICES ASSUME Creation!Init
               PROVE  WizardInv
    OBVIOUS
  <2>1. Creation!TypeOK
    <3>1. wizard \in [Calls -> Device]
      BY NoDraftIsDraft DEF Creation!Init
    <3>2. revised \in BOOLEAN /\ redrafted \in BOOLEAN
      BY DEF Creation!Init
    <3> QED
      BY <3>1, <3>2, NoDraftIsDraft, EmptyAnswers DEF Creation!Init, Creation!TypeOK, Device
  <2>2. \A c \in Calls: Carries(c)
    BY DEF Creation!Init, Creation!Idle, Carries
  <2>3. BotsAreOfTheDraft /\ DraftIsOfTheAnswers /\ Creation!CommittedExists
    BY FS_EmptySet DEF Creation!Init, BotsAreOfTheDraft, DraftIsOfTheAnswers, Creation!CommittedExists
  <2> QED
    BY <2>1, <2>2, <2>3 DEF WizardInv
<1>2. WizardInv /\ [Creation!Next]_Creation!wizardVars => WizardInv'
  <2>1. ASSUME WizardInv, Creation!Next
        PROVE  WizardInv'
    BY <2>1, AnswerStep, CommitStep, RecordStep, SaveDraftStep, CreateStep, MarkCommittedStep DEF Creation!Next
  <2>2. ASSUME WizardInv, UNCHANGED Creation!wizardVars
        PROVE  WizardInv'
    BY <2>2 DEF Creation!wizardVars, WizardInv, Creation!TypeOK, Carries, BotsAreOfTheDraft,
       DraftIsOfTheAnswers, Creation!CommittedExists
  <2> QED
    BY <2>1, <2>2
<1> QED
  BY <1>1, <1>2, PTL DEF Creation!Spec

\* wizard.py and services/coach/wizard.py: however the calls of several devices, the thinking
\* of the model and a crash before mark_committed interleave, a session makes one bot unless
\* its draft was replaced, of all the answers, the latest unless one was given again.
THEOREM WizardMakesOneBot ==
    ASSUME Creation!WizardAssumption
    PROVE  Creation!Spec => []WizardIsSound
<1>1. ASSUME WizardInv
      PROVE  Creation!WizardIsSound
  <2>1. Creation!OneBot
    <3>0. Creation!Cardinality(bots) = Cardinality(bots)
      BY DEF Creation!Cardinality, Cardinality
    <3>1. CASE \E b \in bots: TRUE
      <4>1. redrafted \/ \E b: bots = {b}
        BY <1>1, <3>1 DEF WizardInv, BotsAreOfTheDraft
      <4>2. (\E b: bots = {b}) => Cardinality(bots) = 1
        BY FS_Singleton
      <4> QED
        BY <3>0, <4>1, <4>2 DEF Creation!OneBot
    <3>2. CASE bots = {}
      <4>1. Cardinality(bots) = 0
        BY <3>2, FS_EmptySet
      <4> QED
        BY <3>0, <4>1 DEF Creation!OneBot
    <3> QED
      BY <3>1, <3>2
  <2>2. Creation!AnswersReachTheBot /\ Creation!CommittedExists
    BY <1>1 DEF WizardInv, BotsAreOfTheDraft, DraftIsOfTheAnswers, Creation!AnswersReachTheBot
  <2> QED
    BY <2>1, <2>2 DEF Creation!WizardIsSound
<1> QED
  BY <1>1, WizardInductive, PTL DEF WizardIsSound

-----------------------------------------------------------------------------
(* Labels.                                                                 *)

LEMMA LeastElement ==
    ASSUME NEW T, T \subseteq Nat, T # {}
    PROVE  \E x \in T: \A y \in T: x <= y
<1>1. PICK x \in T: \A y \in T: ~(<<y, x>> \in OpToRel(<, Nat))
  BY NatLessThanWellFounded, WFMin
<1>2. \A y \in T: ~(y < x)
  BY <1>1 DEF OpToRel
<1> QED
  BY <1>2

LEMMA NewestIsListed ==
    ASSUME Sorting!LabelsAssumption, NEW todo \in SUBSET Sorting!Ids, todo # {}
    PROVE  Sorting!Newest(todo) \in todo
<1> DEFINE T == {n \in DOMAIN Bots: Bots[n] \in todo}
<1>1. DOMAIN Bots = 1..Sorting!Len(Bots) /\ Sorting!Len(Bots) \in Nat
  BY DEF Sorting!LabelsAssumption
<1>2. T \subseteq Nat /\ T # {}
  BY <1>1 DEF Sorting!Ids
<1>3. PICK n \in T: \A m \in T: n <= m
  BY <1>2, LeastElement
<1>4. \A m \in 1..n - 1: Bots[m] \notin todo
  BY <1>1, <1>3
<1> QED
  BY <1>3, <1>4 DEF Sorting!Newest

\* A bot that a sweep has listed has nothing of the admin's, but what came late.
ListedAreFree ==
    \A p \in Procs: \A b \in sweep[p].todo, k \in Sorting!Columns:
        label[b][k] = "admin" => <<b, k>> \in late
LabelsInv == Sorting!TypeOK /\ ListedAreFree

Answers == [Sorting!Columns -> Sorting!Origins]
Sweep == [pc: {"asleep", "ask", "apply"}, todo: SUBSET Sorting!Ids, said: Sorting!Said]
Quota == [overrides: 0..Overrides, sweeps: 0..Sweeps]

LEMMA OneSweep ==
    ASSUME LabelsInv, NEW p \in Procs, NEW s \in Sweep, s.pc = "apply" => s.todo # {},
           sweep' = [sweep EXCEPT ![p] = s], s.todo \subseteq sweep[p].todo, UNCHANGED <<late, left>>,
           label' \in [Sorting!Ids -> Answers],
           \A b \in Sorting!Ids, k \in Sorting!Columns: label'[b][k] = "admin" => label[b][k] = "admin"
    PROVE  LabelsInv'
<1>1. sweep' \in [Procs -> Sweep] /\ sweep'[p] = s /\ \A q \in Procs: sweep'[q].todo \subseteq sweep[q].todo
  BY DEF LabelsInv, Sorting!TypeOK, Sweep
<1>2. Sorting!TypeOK'
  BY <1>1 DEF LabelsInv, Sorting!TypeOK, Sweep, Answers
<1>3. ListedAreFree'
  <2> SUFFICES ASSUME NEW q \in Procs, NEW b \in sweep'[q].todo, NEW k \in Sorting!Columns, label'[b][k] = "admin"
               PROVE  <<b, k>> \in late'
    BY DEF ListedAreFree
  <2>1. b \in sweep[q].todo /\ b \in Sorting!Ids
    BY <1>1 DEF Sweep
  <2> QED
    BY <2>1 DEF LabelsInv, ListedAreFree
<1> QED
  BY <1>2, <1>3 DEF LabelsInv

LEMMA SweepSteps ==
    ASSUME Sorting!LabelsAssumption, LabelsInv, NEW p \in Procs
    PROVE  /\ Sorting!List(p) => LabelsInv'
           /\ Sorting!Ask(p) => LabelsInv'
           /\ Sorting!Apply(p) => LabelsInv'
           /\ Sorting!Sleep(p) => LabelsInv'
<1>0. sweep[p] \in Sweep /\ label \in [Sorting!Ids -> Answers] /\ Sorting!NoAnswer \in Sorting!Said
  BY DEF LabelsInv, Sorting!TypeOK, Sweep, Answers, Sorting!NoAnswer, Sorting!Said
<1>1. ASSUME Sorting!List(p)
      PROVE  LabelsInv'
  <2>0. left' \in Quota /\ UNCHANGED <<label, late>>
    BY <1>1 DEF Sorting!List, LabelsInv, Sorting!TypeOK, Sorting!LabelsAssumption, Quota
  <2>a. sweep' \in [Procs -> Sweep] /\ sweep'[p].pc = "ask" /\ \A q \in Procs \ {p}: sweep'[q] = sweep[q]
    BY <1>1 DEF Sorting!List, LabelsInv, Sorting!TypeOK, Sweep
  <2>1. Sorting!TypeOK'
    BY <2>0, <2>a DEF LabelsInv, Sorting!TypeOK, Sweep, Quota
  <2>2. \A b \in Sorting!Ids, k \in Sorting!Columns: Sorting!Unlabelled(b) => label[b][k] # "admin"
    BY DEF Sorting!Unlabelled, Sorting!NoAnswer
  <2>3. /\ UNCHANGED <<label, late>> /\ sweep'[p].todo = {b \in Sorting!Ids: Sorting!Unlabelled(b)}
        /\ \A q \in Procs \ {p}: sweep'[q] = sweep[q]
    BY <1>1 DEF Sorting!List, LabelsInv, Sorting!TypeOK
  <2>4. ListedAreFree'
    BY <2>2, <2>3 DEF LabelsInv, ListedAreFree
  <2> QED
    BY <2>1, <2>4 DEF LabelsInv
<1>2. ASSUME Sorting!Ask(p)
      PROVE  LabelsInv'
  <2>1. CASE \E said \in Sorting!Said: sweep' = [sweep EXCEPT ![p].pc = "apply", ![p].said = said]
    <3>1. PICK said \in Sorting!Said: sweep' = [sweep EXCEPT ![p].pc = "apply", ![p].said = said]
      BY <2>1
    <3> DEFINE s == [sweep[p] EXCEPT !.pc = "apply", !.said = said]
    <3>2. s \in Sweep /\ s.todo = sweep[p].todo /\ s.todo # {}
      BY <1>0, <1>2 DEF Sweep, Sorting!Ask
    <3>3. sweep' = [sweep EXCEPT ![p] = s] /\ UNCHANGED <<label, late, left>>
      BY <1>2, <3>1 DEF Sorting!Ask
    <3> HIDE DEF s
    <3> QED
      BY <1>0, <3>2, <3>3, OneSweep
  <2>2. CASE sweep' = [sweep EXCEPT ![p].todo = Sorting!Rest(@)]
    <3> DEFINE s == [sweep[p] EXCEPT !.todo = Sorting!Rest(@)]
    <3>1. s \in Sweep /\ s.pc = "ask" /\ s.todo \subseteq sweep[p].todo
      BY <1>0, <1>2 DEF Sweep, Sorting!Ask, Sorting!Rest
    <3>2. sweep' = [sweep EXCEPT ![p] = s] /\ UNCHANGED <<label, late, left>>
      BY <1>2, <2>2 DEF Sorting!Ask
    <3> HIDE DEF s
    <3> QED
      BY <1>0, <3>1, <3>2, OneSweep
  <2> QED
    BY <1>2, <2>1, <2>2 DEF Sorting!Ask
<1>3. ASSUME Sorting!Apply(p)
      PROVE  LabelsInv'
  <2> DEFINE s == [sweep[p] EXCEPT !.pc = "ask", !.todo = Sorting!Rest(@), !.said = Sorting!NoAnswer]
  <2>1. s \in Sweep /\ s.pc = "ask" /\ s.todo \subseteq sweep[p].todo
    BY <1>0 DEF Sweep, Sorting!Rest
  <2>2. sweep' = [sweep EXCEPT ![p] = s] /\ UNCHANGED <<late, left>>
    BY <1>3 DEF Sorting!Apply
  <2>3. Sorting!Newest(sweep[p].todo) \in Sorting!Ids
    BY <1>0, <1>3, NewestIsListed DEF LabelsInv, Sorting!TypeOK, Sorting!Apply, Sweep
  <2>4. sweep[p].said \in Answers /\ \A k \in Sorting!Columns: sweep[p].said[k] # "admin"
    BY <1>0 DEF Sweep, Sorting!Said, Answers, Sorting!Origins
  <2>5. /\ label' \in [Sorting!Ids -> Answers]
        /\ \A b \in Sorting!Ids, k \in Sorting!Columns: label'[b][k] = "admin" => label[b][k] = "admin"
    BY <1>0, <1>3, <2>3, <2>4 DEF Sorting!Apply
  <2> HIDE DEF s
  <2> QED
    BY <2>1, <2>2, <2>5, OneSweep
<1>4. ASSUME Sorting!Sleep(p)
      PROVE  LabelsInv'
  <2> DEFINE s == [sweep[p] EXCEPT !.pc = "asleep"]
  <2>1. s \in Sweep /\ s.pc = "asleep" /\ s.todo \subseteq sweep[p].todo
    BY <1>0 DEF Sweep
  <2>2. sweep' = [sweep EXCEPT ![p] = s] /\ UNCHANGED <<label, late, left>>
    BY <1>4 DEF Sorting!Sleep
  <2> HIDE DEF s
  <2> QED
    BY <1>0, <2>1, <2>2, OneSweep
<1> QED
  BY <1>1, <1>2, <1>3, <1>4

LEMMA OverrideStep ==
    ASSUME Sorting!LabelsAssumption, LabelsInv, NEW b \in Sorting!Ids, NEW columns \in SUBSET Sorting!Columns,
           NEW value \in {"admin", "unknown"}, Sorting!Override(b, columns, value)
    PROVE  LabelsInv'
<1>1. \A d \in Sorting!Ids, k \in Sorting!Columns:
          label'[d][k] = IF d = b /\ k \in columns THEN value ELSE label[d][k]
  BY DEF Sorting!Override, LabelsInv, Sorting!TypeOK
<1>2. Sorting!TypeOK'
  BY DEF Sorting!Override, LabelsInv, Sorting!TypeOK, Sorting!LabelsAssumption, Sorting!Origins
<1>3. ListedAreFree'
  <2> SUFFICES ASSUME NEW p \in Procs, NEW d \in sweep[p].todo, NEW k \in Sorting!Columns, label'[d][k] = "admin"
               PROVE  <<d, k>> \in late'
    BY DEF ListedAreFree, Sorting!Override
  <2>0. d \in Sorting!Ids
    BY DEF LabelsInv, Sorting!TypeOK
  <2>1. CASE d = b
    BY <1>1, <2>0, <2>1 DEF Sorting!Override, Sorting!Listed, LabelsInv, ListedAreFree
  <2>2. CASE d # b
    BY <1>1, <2>0, <2>2 DEF Sorting!Override, LabelsInv, ListedAreFree
  <2> QED
    BY <2>1, <2>2
<1> QED
  BY <1>2, <1>3 DEF LabelsInv

\* What Labels keeps, whatever the sweeps and the admins do.
LEMMA LabelsInductive ==
    ASSUME Sorting!LabelsAssumption
    PROVE  Sorting!Spec => []LabelsInv
<1> USE DEF Sorting!labelVars
<1>1. Sorting!Init => LabelsInv
  BY DEF Sorting!Init, LabelsInv, Sorting!TypeOK, ListedAreFree, Sorting!NoAnswer, Sorting!Origins,
     Sorting!Said, Sorting!LabelsAssumption
<1>2. LabelsInv /\ [Sorting!Next]_Sorting!labelVars => LabelsInv'
  <2> SUFFICES ASSUME LabelsInv, [Sorting!Next]_Sorting!labelVars
               PROVE  LabelsInv'
    OBVIOUS
  <2>1. CASE UNCHANGED Sorting!labelVars
    BY <2>1 DEF LabelsInv, Sorting!TypeOK, ListedAreFree
  <2> QED
    BY <2>1, SweepSteps, OverrideStep DEF Sorting!Next
<1> QED
  BY <1>1, <1>2, PTL DEF Sorting!Spec

\* influencer_classification.py:45 "Admin override wins", and video_idea_repo.mark_used: what
\* an admin has set stays, in one column or both, against any number of sweeps that list
\* the bot afterwards; a used idea stays used.
THEOREM MarksStayAsSet ==
    ASSUME Sorting!LabelsAssumption, Prompts!IdeasAssumption
    PROVE  Sorting!Spec /\ Prompts!Spec => MarksStay
<1> USE DEF Sorting!labelVars
<1>1. LabelsInv /\ [Sorting!Next]_Sorting!labelVars =>
          \A b \in Sorting!Ids, k \in Sorting!Columns:
              label[b][k] = "admin" /\ label'[b][k] # "admin" =>
                  left.overrides # left'.overrides \/ <<b, k>> \in late
  <2> SUFFICES ASSUME LabelsInv, Sorting!Next, NEW b \in Sorting!Ids, NEW k \in Sorting!Columns,
                      label[b][k] = "admin", label'[b][k] # "admin"
               PROVE  left.overrides # left'.overrides \/ <<b, k>> \in late
    OBVIOUS
  <2>1. ASSUME NEW p \in Procs, Sorting!Apply(p)
        PROVE  <<b, k>> \in late
    <3>1. Sorting!Newest(sweep[p].todo) \in sweep[p].todo
      BY <2>1, NewestIsListed DEF LabelsInv, Sorting!TypeOK, Sorting!Apply
    <3>2. b = Sorting!Newest(sweep[p].todo)
      BY <2>1 DEF Sorting!Apply, LabelsInv, Sorting!TypeOK
    <3> QED
      BY <3>1, <3>2 DEF LabelsInv, ListedAreFree
  <2>2. ASSUME NEW p \in Procs, Sorting!List(p) \/ Sorting!Ask(p) \/ Sorting!Sleep(p)
        PROVE  FALSE
    BY <2>2 DEF Sorting!List, Sorting!Ask, Sorting!Sleep
  <2>3. ASSUME NEW d \in Sorting!Ids, NEW columns \in SUBSET Sorting!Columns, NEW value \in {"admin", "unknown"},
               Sorting!Override(d, columns, value)
        PROVE  left.overrides # left'.overrides
    BY <2>3 DEF Sorting!Override, LabelsInv, Sorting!TypeOK, Sorting!LabelsAssumption
  <2> QED
    BY <2>1, <2>2, <2>3 DEF Sorting!Next
<1> QED
  BY <1>1, LabelsInductive, UsedIdeasStay, PTL DEF Sorting!Spec, Sorting!OverrideStays, MarksStay

-----------------------------------------------------------------------------
(* SoulFile.                                                               *)

Drafting == {"supersede", "insert"}
Applying == {"inspect", "record", "write", "settle", "commit"}

\* What a call is about; a card that a handler has read is no draft any more.
Args ==
    \A c \in Calls:
        /\ handler[c] \in {"reply"} \cup Drafting => arg[c] \in Sessions
        /\ handler[c] \in Applying \cup {"discard"} =>
              arg[c] \in Calls /\ prop[arg[c]].status \notin {"none", "draft"}

\* A card is a draft exactly while the turn that makes it is storing it.
Drafts ==
    \A c \in Calls:
        /\ prop[c].status = "draft" <=> handler[c] \in Drafting
        /\ prop[c].status # "none" => handler[c] \in Drafting \cup {"done"}

\* The texts that came with the bot, from an editor without a history, or are in it.
Known == audited \cup manual \cup {Editing!Original, Editing!Gone}
BotKnown == text \in Known \ {Editing!Gone} /\ \A s \in Sections: body[s] \in Known
ViewsKnown == \A c \in Calls: \A s \in Sections: view[c].body[s] \in Known

\* How far an apply, or the promotion of variant B, has come.
ProgressOf(c) ==
    /\ handler[c] = "write" /\ prop[arg[c]].lane # "override" => arg[c] \in audited
    /\ handler[c] = "record" /\ prop[arg[c]].lane = "override" => arg[c] \in written
    /\ handler[c] \in {"settle", "commit"} => arg[c] \in audited /\ arg[c] \in written
    /\ handler[c] \in {"record_b", "write_b"} => view[c].b \in Calls
    /\ handler[c] = "write_b" => view[c].b \in audited
Progress == variantB # Editing!Original /\ \A c \in Calls: ProgressOf(c)

SoulFileInv == Editing!TypeOK /\ Args /\ Drafts /\ BotKnown /\ ViewsKnown /\ Progress /\ Editing!AppliedIsReal
-----------------------------------------------------------------------------
Card == [status: Editing!Statuses, session: Sessions \cup {Editing!Gone}, lane: Editing!Lanes, claimed: Editing!Texts]

\* What a transaction on the cards leaves: every card keeps its session, its lane and
\* its hash; the card it is about gets the status, another one may be superseded.
LEMMA SettledCards ==
    ASSUME NEW c \in Calls, NEW p \in Calls, NEW status \in Editing!Statuses,
           prop \in [Calls -> Card]
    PROVE  /\ Editing!Settled(c, p, status) \in [Calls -> Card]
           /\ \A q \in Calls:
                 /\ Editing!Settled(c, p, status)[q].lane = prop[q].lane
                 /\ Editing!Settled(c, p, status)[q].session = prop[q].session
                 /\ q = p => Editing!Settled(c, p, status)[q].status = status
                 /\ q # p => \/ Editing!Settled(c, p, status)[q] = prop[q]
                             \/ /\ prop[q].status = "pending"
                                /\ Editing!Settled(c, p, status)[q].status = "superseded"
<1> DEFINE new == Editing!Settled(c, p, status)
<1>1. ASSUME NEW q \in Calls
      PROVE  /\ new[q] \in Card
             /\ new[q].lane = prop[q].lane /\ new[q].session = prop[q].session
             /\ q = p => new[q].status = status
             /\ q # p => \/ new[q] = prop[q]
                         \/ prop[q].status = "pending" /\ new[q].status = "superseded"
  <2>1. prop[q] \in Card
    OBVIOUS
  <2>2. new[q] = IF q = p THEN [prop[q] EXCEPT !.status = status]
                 ELSE IF Editing!StillPending(c, q) THEN [prop[q] EXCEPT !.status = "superseded"]
                 ELSE prop[q]
    BY DEF Editing!Settled
  <2> QED
    BY <2>1, <2>2 DEF Card, Editing!Statuses, Editing!StillPending
<1>2. new = [q \in Calls |-> new[q]]
  BY DEF Editing!Settled
<1> QED
  BY <1>1, <1>2

\* Every step of a call keeps the types.
LEMMA EditTypeStep ==
    ASSUME Editing!SoulFileAssumption, Editing!TypeOK, Args, Progress,
           NEW c \in Calls, Editing!Coach(c) \/ Editing!Editors(c) \/ Editing!Stop(c)
    PROVE  Editing!TypeOK'
<1> USE Editing!SoulFileAssumption DEF Editing!SoulFileAssumption, Editing!TypeOK, Editing!botVars, Editing!histVars, Editing!Goto, Editing!About,
        Editing!ReadBot, Editing!Return, Editing!Steps, Editing!Texts, Editing!Original, Editing!Gone
<1>1. CASE \E s \in Sessions: Editing!Ask(c, s)
  BY <1>1 DEF Editing!Ask, Editing!Arrives
<1>2. CASE Editing!Propose(c)
  BY <1>2 DEF Editing!Propose, Editing!Cards, Editing!Statuses, Args
<1>3. CASE Editing!Talk(c)
  BY <1>3 DEF Editing!Talk, Editing!NoView
<1>4. CASE Editing!Supersede(c)
  BY <1>4 DEF Editing!Supersede, Editing!Pending
<1>5. CASE Editing!InsertProposal(c)
  BY <1>5, SettledCards DEF Editing!InsertProposal, Card, Editing!Statuses, Editing!NoView
<1>6. CASE \E p \in Calls: Editing!Tap(c, p) \/ Editing!TapDiscard(c, p)
  <2>1. PICK p \in Calls: Editing!Tap(c, p) \/ Editing!TapDiscard(c, p)
    BY <1>6
  <2>2. handler' \in [Calls -> Editing!Steps] /\ arg' \in [Calls -> Calls \cup Sessions \cup {Editing!Gone}]
    BY <2>1 DEF Editing!Tap, Editing!TapDiscard
  <2> QED
    BY <2>1, <2>2 DEF Editing!Tap, Editing!TapDiscard
<1>7. CASE Editing!Inspect(c)
  BY <1>7 DEF Editing!Inspect, Editing!NoView
<1>8. CASE Editing!Record(c)
  BY <1>8 DEF Editing!Record, Args, Applying
<1>9. CASE Editing!Write(c)
  <2>1. arg[c] \in Calls
    BY <1>9 DEF Editing!Write, Args, Applying
  <2>2. text' \in Editing!Texts \ {Editing!Gone}
    BY <1>9, <2>1 DEF Editing!Write
  <2>3. rules' \subseteq Calls /\ written' \subseteq Calls
    BY <1>9, <2>1 DEF Editing!Write
  <2>4. body' \in [Sections -> Editing!Texts]
    BY <1>9, <2>1 DEF Editing!Write
  <2>5. handler' \in [Calls -> Editing!Steps]
    BY <1>9 DEF Editing!Write
  <2> QED
    BY <1>9, <2>2, <2>3, <2>4, <2>5 DEF Editing!Write
<1>10. CASE Editing!Settle(c)
  BY <1>10 DEF Editing!Settle, Editing!Pending
<1>11. CASE Editing!Commit(c)
  BY <1>11, SettledCards DEF Editing!Commit, Card, Editing!Statuses, Editing!NoView, Args, Applying
<1>12. CASE Editing!Discard(c)
  BY <1>12 DEF Editing!Discard, Editing!Statuses, Editing!NoView, Args
<1>13. CASE Editing!Open(c)
  BY <1>13 DEF Editing!Open
<1>14. CASE Editing!PutCheck(c)
  BY <1>14 DEF Editing!PutCheck, Editing!NoView
<1>15. CASE Editing!PutWrite(c)
  BY <1>15 DEF Editing!PutWrite, Editing!NoView
<1>16. CASE Editing!Patch(c)
  BY <1>16 DEF Editing!Patch
<1>17. CASE Editing!StageB(c)
  BY <1>17 DEF Editing!StageB
<1>18. CASE Editing!Promote(c)
  BY <1>18 DEF Editing!Promote
<1>19. CASE Editing!ReadB(c)
  <2>1. view' \in [Calls -> [text: Editing!Texts, body: [Sections -> Editing!Texts], b: Editing!Texts]]
    BY <1>19 DEF Editing!ReadB, Editing!NoView
  <2>2. \E step \in {"done", "drop_b", "record_b"}: handler' = [handler EXCEPT ![c] = step]
    BY <1>19 DEF Editing!ReadB
  <2>3. handler' \in [Calls -> Editing!Steps]
    BY <2>2
  <2> QED
    BY <1>19, <2>1, <2>3 DEF Editing!ReadB
<1>20. CASE Editing!RecordB(c)
  BY <1>20 DEF Editing!RecordB, Progress, ProgressOf
<1>21. CASE Editing!WriteB(c)
  BY <1>21 DEF Editing!WriteB, Progress, ProgressOf
<1>22. CASE Editing!DropB(c)
  BY <1>22 DEF Editing!DropB, Editing!NoView
<1>23. CASE Editing!Stop(c)
  BY <1>23 DEF Editing!Stop, Editing!NoView, Editing!NoProp, Editing!Statuses, Editing!Lanes
<1> QED
  BY <1>1, <1>2, <1>3, <1>4, <1>5, <1>6, <1>7, <1>8, <1>9, <1>10, <1>11, <1>12, <1>13, <1>14,
     <1>15, <1>16, <1>17, <1>18, <1>19, <1>20, <1>21, <1>22, <1>23 DEF Editing!Coach, Editing!Editors

\* What no step takes back: the history, and what has been written.
LEMMA HistoryGrows ==
    ASSUME NEW c \in Calls, Editing!Coach(c) \/ Editing!Editors(c) \/ Editing!Stop(c)
    PROVE  audited \subseteq audited' /\ manual \subseteq manual' /\ written \subseteq written'
BY DEF Editing!Coach, Editing!Editors, Editing!Stop, Editing!histVars, Editing!Ask, Editing!Propose, Editing!Talk, Editing!Supersede, Editing!InsertProposal, Editing!Tap,
       Editing!TapDiscard, Editing!Inspect, Editing!Record, Editing!Write, Editing!Settle, Editing!Commit, Editing!Discard, Editing!Open, Editing!PutCheck, Editing!PutWrite,
       Editing!Patch, Editing!StageB, Editing!Promote, Editing!ReadB, Editing!RecordB, Editing!WriteB, Editing!DropB

\* A step of a call leaves the others where they are.
LEMMA OthersStay ==
    ASSUME Editing!TypeOK, NEW c \in Calls, Editing!Coach(c) \/ Editing!Editors(c) \/ Editing!Stop(c),
           NEW d \in Calls, d # c
    PROVE  handler'[d] = handler[d] /\ arg'[d] = arg[d] /\ view'[d] = view[d]
BY DEF Editing!TypeOK, Editing!Goto, Editing!About, Editing!ReadBot, Editing!Return, Editing!Coach, Editing!Editors, Editing!Stop, Editing!Ask, Editing!Propose, Editing!Talk,
       Editing!Supersede, Editing!InsertProposal, Editing!Tap, Editing!TapDiscard, Editing!Inspect, Editing!Record, Editing!Write, Editing!Settle, Editing!Commit,
       Editing!Discard, Editing!Open, Editing!PutCheck, Editing!PutWrite, Editing!Patch, Editing!StageB, Editing!Promote, Editing!ReadB, Editing!RecordB, Editing!WriteB, Editing!DropB

\* A card that is out keeps its lane and stays out, an applied one is for good; a card
\* becomes applied only by the commit of an apply of it.
LEMMA CardsStay ==
    ASSUME Editing!SoulFileAssumption, Editing!TypeOK, Args, Drafts,
           NEW c \in Calls, Editing!Coach(c) \/ Editing!Editors(c) \/ Editing!Stop(c),
           NEW p \in Calls
    PROVE  /\ prop[p].status \notin {"none", "draft"} =>
                 prop'[p].status \notin {"none", "draft"} /\ prop'[p].lane = prop[p].lane
           /\ prop[p].status = "applied" => prop'[p].status = "applied"
           /\ prop'[p].status = "applied" /\ prop[p].status # "applied" =>
                 Editing!Commit(c) /\ p = arg[c]
<1> USE DEF Editing!TypeOK, Drafts, Drafting
<1>1. CASE Editing!Propose(c)
  <2>1. prop[c].status = "none"
    BY <1>1 DEF Editing!Propose, Editing!Statuses
  <2> QED
    BY <1>1, <2>1 DEF Editing!Propose, Editing!Cards
<1>2. CASE Editing!InsertProposal(c)
  <2>1. prop[c].status = "draft"
    BY <1>2 DEF Editing!InsertProposal
  <2>2. prop \in [Calls -> Card] /\ "pending" \in Editing!Statuses
    BY DEF Card, Editing!Statuses
  <2>3. prop' = Editing!Settled(c, c, "pending")
    BY <1>2 DEF Editing!InsertProposal
  <2>4. prop'[p].lane = prop[p].lane /\ (p # c => \/ prop'[p] = prop[p]
                                                \/ /\ prop[p].status = "pending"
                                                   /\ prop'[p].status = "superseded")
    BY <2>2, <2>3, SettledCards
  <2>5. p = c => prop'[p].status = "pending"
    BY <2>2, <2>3, SettledCards
  <2> QED
    BY <2>1, <2>4, <2>5
<1>3. CASE Editing!Commit(c)
  <2>1. arg[c] \in Calls /\ prop[arg[c]].status \notin {"none", "draft"}
    BY <1>3 DEF Editing!Commit, Args, Applying
  <2>2. prop \in [Calls -> Card] /\ "applied" \in Editing!Statuses
    BY DEF Card, Editing!Statuses
  <2>3. prop' = Editing!Settled(c, arg[c], "applied")
    BY <1>3 DEF Editing!Commit
  <2>4. prop'[p].lane = prop[p].lane /\ (p # arg[c] => \/ prop'[p] = prop[p]
                                                     \/ /\ prop[p].status = "pending"
                                                        /\ prop'[p].status = "superseded")
    BY <2>1, <2>2, <2>3, SettledCards
  <2>5. p = arg[c] => prop'[p].status = "applied"
    BY <2>1, <2>2, <2>3, SettledCards
  <2> QED
    BY <1>3, <2>1, <2>4, <2>5
<1>4. CASE Editing!Discard(c)
  BY <1>4 DEF Editing!Discard
<1>5. CASE Editing!Stop(c)
  BY <1>5 DEF Editing!Stop, Editing!NoProp
<1>6. CASE UNCHANGED prop
  BY <1>6
<1> QED
  BY <1>1, <1>2, <1>3, <1>4, <1>5, <1>6 DEF Editing!Coach, Editing!Editors, Editing!Ask, Editing!Talk, Editing!Supersede, Editing!Tap,
     Editing!TapDiscard, Editing!Inspect, Editing!Record, Editing!Write, Editing!Settle, Editing!Open, Editing!PutCheck, Editing!PutWrite, Editing!Patch, Editing!StageB,
     Editing!Promote, Editing!ReadB, Editing!RecordB, Editing!WriteB, Editing!DropB

LEMMA EditArgsStep ==
    ASSUME Editing!SoulFileAssumption, Editing!TypeOK, Args, Drafts,
           NEW c \in Calls, Editing!Coach(c) \/ Editing!Editors(c) \/ Editing!Stop(c)
    PROVE  Args'
<1> SUFFICES ASSUME NEW d \in Calls
             PROVE  /\ handler'[d] \in {"reply"} \cup Drafting => arg'[d] \in Sessions
                    /\ handler'[d] \in Applying \cup {"discard"} =>
                          arg'[d] \in Calls /\ prop'[arg'[d]].status \notin {"none", "draft"}
  BY DEF Args
<1>1. CASE d # c
  BY <1>1, OthersStay, CardsStay DEF Args
<1>2. CASE d = c
  <2>1. /\ handler'[c] \in {"reply"} \cup Drafting => arg'[c] \in Sessions
        /\ handler'[c] \in Applying \cup {"discard"} =>
              arg'[c] \in Calls /\ prop[arg'[c]].status \notin {"none", "draft"}
    BY DEF Editing!TypeOK, Args, Drafting, Applying, Editing!Goto, Editing!About, Editing!Return, Editing!Shown, Editing!Coach, Editing!Editors, Editing!Stop, Editing!Ask,
       Editing!Propose, Editing!Talk, Editing!Supersede, Editing!InsertProposal, Editing!Tap, Editing!TapDiscard, Editing!Inspect, Editing!Record, Editing!Write, Editing!Settle,
       Editing!Commit, Editing!Discard, Editing!Open, Editing!PutCheck, Editing!PutWrite, Editing!Patch, Editing!StageB, Editing!Promote, Editing!ReadB, Editing!RecordB, Editing!WriteB,
       Editing!DropB
  <2> QED
    BY <1>2, <2>1, CardsStay
<1> QED
  BY <1>1, <1>2

LEMMA DraftsStep ==
    ASSUME Editing!SoulFileAssumption, Editing!TypeOK, Args, Drafts,
           NEW c \in Calls, Editing!Coach(c) \/ Editing!Editors(c) \/ Editing!Stop(c)
    PROVE  Drafts'
<1> SUFFICES ASSUME NEW d \in Calls
             PROVE  /\ prop'[d].status = "draft" <=> handler'[d] \in Drafting
                    /\ prop'[d].status # "none" => handler'[d] \in Drafting \cup {"done"}
  BY DEF Drafts
<1> USE DEF Editing!TypeOK, Drafts, Drafting, Editing!Goto, Editing!Return
<1>1. CASE Editing!Propose(c)
  BY <1>1, OthersStay DEF Editing!Propose, Editing!Cards
<1>2. CASE Editing!InsertProposal(c)
  <2>1. prop \in [Calls -> Card] /\ "pending" \in Editing!Statuses /\ prop' = Editing!Settled(c, c, "pending")
    BY <1>2 DEF Editing!InsertProposal, Card, Editing!Statuses
  <2>2. d = c => prop'[d].status = "pending" /\ handler'[d] = "done"
    BY <1>2, <2>1, SettledCards DEF Editing!InsertProposal
  <2>3. d # c => \/ prop'[d] = prop[d]
                 \/ prop[d].status = "pending" /\ prop'[d].status = "superseded"
    BY <2>1, SettledCards
  <2> QED
    BY <2>2, <2>3, OthersStay
<1>3. CASE Editing!Commit(c)
  <2>1. arg[c] \in Calls /\ prop[arg[c]].status \notin {"none", "draft"}
    BY <1>3 DEF Editing!Commit, Args, Applying
  <2>2. prop \in [Calls -> Card] /\ "applied" \in Editing!Statuses /\ prop' = Editing!Settled(c, arg[c], "applied")
    BY <1>3 DEF Editing!Commit, Card, Editing!Statuses
  <2>3. \/ prop'[d] = prop[d]
        \/ /\ prop[d].status \notin {"none", "draft"}
           /\ prop'[d].status \in {"applied", "superseded"}
    <3> DEFINE new == Editing!Settled(c, arg[c], "applied")
    <3>1. /\ d = arg[c] => new[d].status = "applied"
          /\ d # arg[c] => \/ new[d] = prop[d]
                           \/ prop[d].status = "pending" /\ new[d].status = "superseded"
      <4> HIDE DEF Editing!TypeOK, Drafts
      <4> QED
        BY <2>1, <2>2, SettledCards
    <3> QED
      BY <2>1, <2>2, <3>1
  <2>4. handler[c] = "commit" /\ handler'[c] = "done"
    BY <1>3 DEF Editing!Commit
  <2> QED
    BY <2>3, <2>4, OthersStay
<1>4. CASE Editing!Discard(c)
  <2>1. handler[c] = "discard" /\ handler'[c] = "done"
    BY <1>4 DEF Editing!Discard
  <2>2. \/ prop'[d] = prop[d]
        \/ prop[d].status = "pending" /\ prop'[d].status = "discarded"
    BY <1>4 DEF Editing!Discard
  <2> QED
    BY <2>1, <2>2, OthersStay
<1>5. CASE Editing!Stop(c)
  <2>1. handler'[c] = "done" /\ (d # c => prop'[d] = prop[d])
    BY <1>5 DEF Editing!Stop
  <2>2. prop'[c] = IF prop[c].status = "draft" THEN Editing!NoProp ELSE prop[c]
    BY <1>5 DEF Editing!Stop
  <2> QED
    BY <2>1, <2>2, OthersStay DEF Editing!NoProp
<1>6. CASE UNCHANGED prop /\ ~Editing!Propose(c) /\ ~Editing!InsertProposal(c) /\ ~Editing!Stop(c)
  <2>1. handler[c] \in Drafting <=> handler'[c] \in Drafting
    BY <1>6 DEF Editing!Coach, Editing!Editors, Editing!Ask, Editing!Talk, Editing!Supersede, Editing!Tap, Editing!Arrives,
     Editing!TapDiscard, Editing!Inspect, Editing!Record, Editing!Write, Editing!Settle, Editing!Commit, Editing!Discard, Editing!Open, Editing!PutCheck, Editing!PutWrite, Editing!Patch, Editing!StageB,
     Editing!Promote, Editing!ReadB, Editing!RecordB, Editing!WriteB, Editing!DropB
  <2>2. handler'[c] # "done" => handler[c] # "done"
    BY <1>6 DEF Editing!Coach, Editing!Editors, Editing!Ask, Editing!Talk, Editing!Supersede, Editing!Tap, Editing!Arrives,
     Editing!TapDiscard, Editing!Inspect, Editing!Record, Editing!Write, Editing!Settle, Editing!Commit, Editing!Discard, Editing!Open, Editing!PutCheck, Editing!PutWrite, Editing!Patch, Editing!StageB,
     Editing!Promote, Editing!ReadB, Editing!RecordB, Editing!WriteB, Editing!DropB
  <2> QED
    BY <1>6, <2>1, <2>2, OthersStay
<1> QED
  BY <1>1, <1>2, <1>3, <1>4, <1>5, <1>6 DEF Editing!Coach, Editing!Editors, Editing!Ask, Editing!Talk, Editing!Supersede, Editing!Tap,
     Editing!TapDiscard, Editing!Inspect, Editing!Record, Editing!Write, Editing!Settle, Editing!Open, Editing!PutCheck, Editing!PutWrite, Editing!Patch, Editing!StageB,
     Editing!Promote, Editing!ReadB, Editing!RecordB, Editing!WriteB, Editing!DropB

\* Whatever a step puts in the bot's row was there, is in the history or is manual.
LEMMA KnownStep ==
    ASSUME Editing!SoulFileAssumption, Editing!TypeOK, Args, BotKnown, ViewsKnown, Progress,
           NEW c \in Calls, Editing!Coach(c) \/ Editing!Editors(c) \/ Editing!Stop(c)
    PROVE  BotKnown' /\ ViewsKnown'
<1>1. Known \subseteq Known'
  BY HistoryGrows DEF Known
<1>2. \A d \in Calls: Editing!Original # d /\ Editing!Gone # d
  BY DEF Editing!SoulFileAssumption, Editing!Original, Editing!Gone
<1>3. BotKnown'
  <2> USE DEF BotKnown, Editing!TypeOK
  <2>1. CASE Editing!Write(c)
    <3>1. arg[c] \in Calls /\ (prop[arg[c]].lane # "override" => arg[c] \in audited)
      BY <2>1 DEF Editing!Write, Args, Applying, Progress, ProgressOf
    <3>2. text' \in Known \ {Editing!Gone}
      BY <2>1, <3>1, <1>2 DEF Editing!Write, Known
    <3>3. ASSUME NEW s \in Sections
          PROVE  body'[s] \in Known
      <4>1. "override" \notin Sections
        BY DEF Editing!SoulFileAssumption
      <4>2. prop[arg[c]].lane \in Sections => arg[c] \in Known
        BY <3>1, <4>1 DEF Known
      <4> DEFINE lane == prop[arg[c]].lane
      <4>3. body' = IF lane \in Sections THEN [view[c].body EXCEPT ![lane] = arg[c]] ELSE body
        BY <2>1 DEF Editing!Write
      <4>4. view[c].body \in [Sections -> Editing!Texts]
        OBVIOUS
      <4>5. \/ body'[s] = body[s] \/ body'[s] = view[c].body[s]
            \/ lane \in Sections /\ body'[s] = arg[c]
        <5> HIDE DEF Editing!TypeOK, BotKnown, lane
        <5> QED
          BY <4>3, <4>4
      <4>6. body[s] \in Known /\ view[c].body[s] \in Known
        BY DEF ViewsKnown
      <4> HIDE DEF Known
      <4> QED
        BY <4>2, <4>5, <4>6
    <3> QED
      BY <1>1, <3>2, <3>3
  <2>2. CASE Editing!PutWrite(c)
    <3>1. text' = text /\ c \in manual'
      BY <2>2 DEF Editing!PutWrite
    <3>2. ASSUME NEW s \in Sections
          PROVE  body'[s] \in {view[c].body[s], c, Editing!Gone}
      BY <2>2 DEF Editing!PutWrite
    <3> QED
      BY <1>1, <3>1, <3>2 DEF ViewsKnown, Known
  <2>3. CASE Editing!Patch(c)
    BY <2>3, <1>1, <1>2 DEF Editing!Patch, Known
  <2>4. CASE Editing!WriteB(c)
    <3>1. view[c].b \in audited /\ view[c].b # Editing!Gone
      BY <2>4, <1>2 DEF Editing!WriteB, Progress, ProgressOf
    <3> QED
      BY <2>4, <3>1, <1>1 DEF Editing!WriteB, Known
  <2>5. CASE text' = text /\ body' = body
    BY <2>5, <1>1
  <2> QED
    BY <2>1, <2>2, <2>3, <2>4, <2>5 DEF Editing!Coach, Editing!Editors, Editing!Stop, Editing!botVars, Editing!Ask, Editing!Propose, Editing!Talk, Editing!Supersede,
       Editing!InsertProposal, Editing!Tap, Editing!TapDiscard, Editing!Inspect, Editing!Record, Editing!Settle, Editing!Commit, Editing!Discard, Editing!Open, Editing!PutCheck,
       Editing!StageB, Editing!Promote, Editing!ReadB, Editing!RecordB, Editing!DropB
<1>4. ViewsKnown'
  <2> SUFFICES ASSUME NEW d \in Calls, NEW s \in Sections
               PROVE  view'[d].body[s] \in Known
    BY <1>1 DEF ViewsKnown
  <2>1. CASE d # c
    BY <2>1, OthersStay DEF ViewsKnown
  <2>2. CASE d = c
    <3>1. view'[c].body \in {view[c].body, body, Editing!NoView.body}
      BY DEF Editing!TypeOK, Editing!ReadBot, Editing!Return, Editing!NoView, Editing!Coach, Editing!Editors, Editing!Stop, Editing!Ask, Editing!Propose, Editing!Talk, Editing!Supersede,
         Editing!InsertProposal, Editing!Tap, Editing!TapDiscard, Editing!Inspect, Editing!Record, Editing!Write, Editing!Settle, Editing!Commit, Editing!Discard, Editing!Open,
         Editing!PutCheck, Editing!PutWrite, Editing!Patch, Editing!StageB, Editing!Promote, Editing!ReadB, Editing!RecordB, Editing!WriteB, Editing!DropB
    <3>2. Editing!NoView.body[s] \in Known
      BY DEF Editing!NoView, Known
    <3> QED
      BY <2>2, <3>1, <3>2 DEF ViewsKnown, BotKnown
  <2> QED
    BY <2>1, <2>2
<1> QED
  BY <1>3, <1>4

LEMMA ProgressStep ==
    ASSUME Editing!SoulFileAssumption, Editing!TypeOK, Args, Drafts, Progress,
           NEW c \in Calls, Editing!Coach(c) \/ Editing!Editors(c) \/ Editing!Stop(c)
    PROVE  Progress'
<1>1. variantB' # Editing!Original
  <2>1. variantB' \in {variantB, c, Editing!Gone}
    BY DEF Editing!Coach, Editing!Editors, Editing!Stop, Editing!botVars, Editing!Ask, Editing!Propose, Editing!Talk, Editing!Supersede, Editing!InsertProposal, Editing!Tap,
       Editing!TapDiscard, Editing!Inspect, Editing!Record, Editing!Write, Editing!Settle, Editing!Commit, Editing!Discard, Editing!Open, Editing!PutCheck, Editing!PutWrite,
       Editing!Patch, Editing!StageB, Editing!Promote, Editing!ReadB, Editing!RecordB, Editing!WriteB, Editing!DropB
  <2> QED
    BY <2>1 DEF Progress, ProgressOf, Editing!SoulFileAssumption, Editing!Original, Editing!Gone
<1>2. ASSUME NEW d \in Calls, d # c
      PROVE  ProgressOf(d)'
  <2>1. ProgressOf(d)
    BY DEF Progress, ProgressOf
  <2>2. handler'[d] = handler[d] /\ arg'[d] = arg[d] /\ view'[d] = view[d]
    BY <1>2, OthersStay
  <2>3. handler[d] \in Applying => prop'[arg[d]].lane = prop[arg[d]].lane
    BY CardsStay DEF Args
  <2> QED
    BY <2>1, <2>2, <2>3, HistoryGrows DEF ProgressOf, Applying
<1>3. ProgressOf(c)'
  <2> USE DEF Editing!TypeOK, ProgressOf, Editing!Goto, Editing!Return
  <2>0. ProgressOf(c)
    BY DEF Progress, ProgressOf
  <2>1. CASE Editing!Inspect(c)
    BY <2>1 DEF Editing!Inspect
  <2>2. CASE Editing!Record(c)
    BY <2>2, <2>0 DEF Editing!Record
  <2>3. CASE Editing!Write(c)
    BY <2>3, <2>0 DEF Editing!Write
  <2>4. CASE Editing!Settle(c)
    BY <2>4, <2>0 DEF Editing!Settle, Editing!histVars
  <2>5. CASE Editing!ReadB(c)
    <3>1. variantB # Editing!Gone => variantB \in Calls
      BY DEF Progress, ProgressOf, Editing!Texts
    <3> QED
      BY <2>5, <3>1 DEF Editing!ReadB
  <2>6. CASE Editing!RecordB(c)
    BY <2>6, <2>0 DEF Editing!RecordB
  <2>7. CASE handler'[c] \notin {"write", "record", "settle", "commit", "record_b", "write_b"}
    BY <2>7
  <2> QED
    BY <2>1, <2>2, <2>3, <2>4, <2>5, <2>6, <2>7 DEF Editing!Coach, Editing!Editors, Editing!Stop, Editing!Ask, Editing!Propose, Editing!Talk,
       Editing!Supersede, Editing!InsertProposal, Editing!Tap, Editing!TapDiscard, Editing!Commit, Editing!Discard, Editing!Open, Editing!PutCheck, Editing!PutWrite,
       Editing!Patch, Editing!StageB, Editing!Promote, Editing!WriteB, Editing!DropB
<1> QED
  BY <1>1, <1>2, <1>3 DEF Progress, ProgressOf

LEMMA RealStep ==
    ASSUME Editing!SoulFileAssumption, Editing!TypeOK, Args, Drafts, Progress, Editing!AppliedIsReal,
           NEW c \in Calls, Editing!Coach(c) \/ Editing!Editors(c) \/ Editing!Stop(c)
    PROVE  Editing!AppliedIsReal'
<1> SUFFICES ASSUME NEW p \in Calls, prop'[p].status = "applied"
             PROVE  p \in audited' /\ p \in written'
  BY DEF Editing!AppliedIsReal
<1>1. CASE prop[p].status = "applied"
  BY <1>1, HistoryGrows DEF Editing!AppliedIsReal
<1>2. CASE Editing!Commit(c) /\ p = arg[c]
  BY <1>2, HistoryGrows DEF Editing!Commit, Progress, ProgressOf
<1> QED
  BY <1>1, <1>2, CardsStay

-----------------------------------------------------------------------------
LEMMA SoulFileInit == Editing!SoulFileAssumption /\ Editing!Init => SoulFileInv
<1> SUFFICES ASSUME Editing!SoulFileAssumption, Editing!Init
             PROVE  SoulFileInv
  OBVIOUS
<1> USE DEF Editing!SoulFileAssumption, Editing!Init
<1>0. PICK s \in Sessions: \E card \in Editing!Cards(s, body):
         prop = [c \in Calls |-> IF c \in Offered THEN [card EXCEPT !.status = "pending"] ELSE Editing!NoProp]
  OBVIOUS
<1>1. PICK card \in Editing!Cards(s, body):
         prop = [c \in Calls |-> IF c \in Offered THEN [card EXCEPT !.status = "pending"] ELSE Editing!NoProp]
  BY <1>0
<1>2. card \in Card
  BY DEF Editing!Cards, Card, Editing!Statuses
<1>3. prop \in [Calls -> Card]
  BY <1>1, <1>2 DEF Card, Editing!NoProp, Editing!Statuses, Editing!Lanes, Editing!Texts
<1>4. Editing!TypeOK
  <2> USE DEF Editing!Texts, Editing!Original, Editing!Gone
  <2>1. view \in [Calls -> [text: Editing!Texts, body: [Sections -> Editing!Texts], b: Editing!Texts]]
    BY DEF Editing!NoView
  <2>2. body \in [Sections -> Editing!Texts]
    OBVIOUS
  <2>3. handler \in [Calls -> Editing!Steps] /\ text \in Editing!Texts \ {Editing!Gone} /\ variantB \in Editing!Texts
    BY DEF Editing!Steps
  <2> QED
    BY <1>3, <2>1, <2>2, <2>3 DEF Editing!TypeOK, Card
<1>5. \A c \in Calls: prop[c].status \in {"none", "pending"} /\ (prop[c].status = "pending" => c \in Offered)
  BY <1>1, <1>2 DEF Card, Editing!NoProp
<1>6. Args /\ Drafts /\ Editing!AppliedIsReal
  BY <1>5 DEF Args, Drafts, Editing!AppliedIsReal, Drafting, Applying
<1>7. BotKnown /\ ViewsKnown /\ Progress
  BY DEF BotKnown, ViewsKnown, Progress, ProgressOf, Known, Editing!NoView, Editing!Original, Editing!Gone
<1> QED
  BY <1>4, <1>6, <1>7 DEF SoulFileInv

LEMMA SoulFileInductive == Editing!SoulFileAssumption /\ SoulFileInv /\ [Editing!Next]_(Editing!vars) => SoulFileInv'
<1> SUFFICES ASSUME Editing!SoulFileAssumption, SoulFileInv, [Editing!Next]_(Editing!vars)
             PROVE  SoulFileInv'
  OBVIOUS
<1> USE DEF SoulFileInv
<1>1. ASSUME NEW c \in Calls, Editing!Coach(c) \/ Editing!Editors(c) \/ Editing!Stop(c)
      PROVE  SoulFileInv'
  BY <1>1, EditTypeStep, EditArgsStep, DraftsStep, KnownStep, ProgressStep, RealStep
<1>2. CASE UNCHANGED Editing!vars
  BY <1>2 DEF Editing!vars, Editing!TypeOK, Args, Drafts, BotKnown, ViewsKnown, Progress, ProgressOf, Editing!AppliedIsReal, Known
<1> QED
  BY <1>1, <1>2 DEF Editing!Next

LEMMA SoulFileHolds ==
    ASSUME Editing!SoulFileAssumption
    PROVE  Editing!Spec => []SoulFileInv
<1>1. Editing!Init => SoulFileInv
  BY SoulFileInit
<1>2. SoulFileInv /\ [Editing!Next]_(Editing!vars) => SoulFileInv'
  BY SoulFileInductive
<1> QED
  BY <1>1, <1>2, PTL DEF Editing!Spec

\* creator_coach.py, coach_repo.py: the variables of the Soul File keep their types.
THEOREM SoulFileTypeCorrect ==
    ASSUME Editing!SoulFileAssumption
    PROVE  Editing!Spec => []Editing!TypeOK
<1>1. SoulFileInv => Editing!TypeOK
  BY DEF SoulFileInv
<1> QED
  BY <1>1, SoulFileHolds, PTL

\* creator_coach.py:752 "write history first, then update bot": however many calls
\* interleave and wherever they die, what a bot has can be found in the history unless an
\* editor without one wrote it, and a card that says applied has been recorded and written.
THEOREM HistoryHasItAll ==
    ASSUME Editing!SoulFileAssumption
    PROVE  Editing!Spec => []ChangesAreAudited
<1>1. SoulFileInv => Editing!ChangesAreAudited
  BY DEF SoulFileInv, Editing!ChangesAreAudited, Editing!LiveIsAudited, BotKnown, Known, Editing!AppliedIsReal
<1> QED
  BY <1>1, SoulFileHolds, PTL DEF ChangesAreAudited

\* coach_repo.py: no discard, newer proposal or other apply takes back a card that says
\* applied.
THEOREM AppliedIsFinal ==
    ASSUME Editing!SoulFileAssumption
    PROVE  Editing!Spec => AppliedStays
<1>1. SoulFileInv /\ [Editing!Next]_(Editing!vars) =>
         [\A p \in Calls: prop[p].status = "applied" => prop'[p].status = "applied"]_(Editing!vars)
  <2> SUFFICES ASSUME SoulFileInv, NEW c \in Calls, Editing!Coach(c) \/ Editing!Editors(c) \/ Editing!Stop(c), NEW p \in Calls,
                      prop[p].status = "applied"
               PROVE  prop'[p].status = "applied"
    BY DEF Editing!Next
  <2> QED
    BY CardsStay DEF SoulFileInv
<1> QED
  BY <1>1, SoulFileHolds, PTL DEF Editing!Spec, Editing!AppliedStays, AppliedStays
=============================================================================
