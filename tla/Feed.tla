-------------------------------- MODULE Feed --------------------------------
(***************************************************************************)
(* The discovery feed of one session: build_feed_page of discovery_feed.py *)
(* behind routes/discovery.py, the ranker of feed_ranker.py that writes    *)
(* feed:global in Redis, the operator's pins (admin_discovery.py) and bots *)
(* that come and go.                                                       *)
(*                                                                         *)
(* A page is put together from five reads, one step each; what it shows is *)
(* recorded by a task the request does not wait for.  Any use of Redis may *)
(* fail, and the page then goes on without it.                             *)
(***************************************************************************)
EXTENDS FeedComposer

CONSTANTS
    Bots,       \* rows of ai_influencers
    Newest,     \* their ids by created_at, newest first
    Order,      \* their ids in the order of this session's shuffle
    Rankings,   \* orders the scores may put them in
    Requests,   \* feed requests under way at once: a bound
    Rankers,    \* copies of feed_ranker_loop
    Limit,      \* limit of a request
    SoftLimit,  \* soft_limit of the fallback
    Changes,    \* bound: edits of the catalogue and of the pins
    Faults      \* bound: failures of Redis or of a ranker's pass

\* What the constants must satisfy.
FeedAssumption ==
    /\ ComposerAssumption
    /\ IsFiniteSet(Bots) /\ Bots # {} /\ "absent" \notin Bots
    /\ {Newest, Order} \cup Rankings \subseteq SetToSeqs(Bots)
    /\ Limit \in Nat \ {0} /\ SoftLimit \in Nat /\ Changes \in Nat /\ Faults \in Nat

NoBlob == <<"absent">>
Ranks == 1..2  \* bound: pinned_rank

VARIABLES
    active,    \* bots with is_active = 'active'
    pins,      \* trending_overrides, rows that have not expired
    blob,      \* feed:global
    seen,      \* feed:seen:<session>
    rank,      \* per ranker: the snapshot its pass works on
    req,       \* per request: its next step, the list it has so far
    client,    \* the app: whether it pages on or refreshes at 0, its offset, the end
    shown,     \* history: bots the session was shown
    skipped,   \* history: bots recorded as seen that were not on the page
    repeated,  \* history: a bot was shown twice
    excused,   \* history: two requests overlapped or Redis failed
    budget     \* changes and faults left

vars == <<active, pins, blob, seen, rank, req, client, shown, skipped, repeated, excused, budget>>

Steps == {"idle", "fallback", "pins", "seen", "compose", "hydrate", "record"}
Idle == [pc |-> "idle", list |-> <<>>, head |-> <<>>]
Resting == [pc |-> "sleep", got |-> {}]
Lists == {NoBlob} \cup SetToAllKPermutations(Bots)

TypeOK ==
    /\ active \subseteq Bots
    /\ pins \subseteq [bot: Bots, rank: Ranks]
    /\ \A p, q \in pins : p.bot = q.bot => p = q
    /\ blob \in Lists /\ seen \subseteq Bots
    /\ rank \in [Rankers -> [pc: {"sleep", "write"}, got: SUBSET Bots]]
    /\ req \in [Requests -> [pc: Steps, list: Lists \ {NoBlob}, head: Lists \ {NoBlob}]]
    /\ client \in [pages: BOOLEAN, next: Nat, ended: BOOLEAN]
    /\ shown \subseteq Bots /\ skipped \subseteq Bots
    /\ repeated \in BOOLEAN /\ excused \in BOOLEAN
    /\ budget \in [changes: 0..Changes, faults: 0..Faults]

Init ==
    /\ active \in {Bots, Bots \ {Newest[1]}} /\ pins = {} /\ blob = NoBlob /\ seen = {}
    /\ rank = [r \in Rankers |-> Resting]
    /\ req = [r \in Requests |-> Idle]
    /\ client \in [pages: BOOLEAN, next: {0}, ended: {FALSE}]
    /\ shown = {} /\ skipped = {} /\ repeated = FALSE /\ excused = FALSE
    /\ budget = [changes |-> Changes, faults |-> Faults]

history == <<client, shown, skipped, repeated>>
Fault == budget.faults > 0 /\ budget' = [budget EXCEPT !.faults = @ - 1]
Change == budget.changes > 0 /\ budget' = [budget EXCEPT !.changes = @ - 1]

-----------------------------------------------------------------------------
(* The catalogue and the operator's pins.                                  *)

Appear(b) == b \notin active /\ active' = active \cup {b} /\ pins' = pins
Vanish(b) == b \in active /\ active' = active \ {b} /\ pins' = pins
Pin(b, n) == active' = active /\ pins' = {p \in pins : p.bot # b} \cup {[bot |-> b, rank |-> n]}
Unpin(b) == active' = active /\ pins' = {p \in pins : p.bot # b}  \* or the pin expires
Edit(b) ==
    /\ Change
    /\ \/ Appear(b) \/ Vanish(b) \/ Unpin(b)
       \/ \E n \in Ranks : Pin(b, n)
    /\ UNCHANGED <<blob, seen, rank, req, history, excused>>

-----------------------------------------------------------------------------
(* rank_once: the active bots, then their signals in chunks and the SET. *)

FetchBots(r) ==
    /\ rank[r].pc = "sleep"
    /\ rank' = [rank EXCEPT ![r] = [pc |-> "write", got |-> active]]
    /\ UNCHANGED <<blob, budget>>
WriteFeed(r) ==
    /\ rank[r].pc = "write"
    /\ \E order \in Rankings : blob' = Kept(order, rank[r].got)
    /\ rank' = [rank EXCEPT ![r] = Resting]
    /\ UNCHANGED budget
PassFails(r) ==
    /\ rank[r].pc = "write" /\ Fault
    /\ rank' = [rank EXCEPT ![r] = Resting]
    /\ UNCHANGED blob
RankStep(r) ==
    /\ FetchBots(r) \/ WriteFeed(r) \/ PassFails(r)
    /\ UNCHANGED <<active, pins, seen, req, history, excused>>

\* FEED_GLOBAL_TTL_SEC without a pass.
Expire ==
    /\ blob # NoBlob /\ blob' = NoBlob /\ Fault
    /\ UNCHANGED <<active, pins, seen, rank, req, history, excused>>

-----------------------------------------------------------------------------
(* build_feed_page.                                                        *)

Goto(r, pc, list) == req' = [req EXCEPT ![r] = [@ EXCEPT !.pc = pc, !.list = list]]
At(r, pc) == req[r].pc = pc

\* A read of Redis that fails is worth nothing, one that does not is worth value.
Redis(value, nothing, result) ==
    \/ result = value /\ UNCHANGED <<budget, excused>>
    \/ result = nothing /\ Fault /\ excused' = TRUE

ReadFeed(r) ==
    /\ At(r, "idle") /\ ~client.ended
    /\ \E got \in {blob, NoBlob} :
        /\ IF got = NoBlob THEN Goto(r, "fallback", <<>>) ELSE Goto(r, "pins", got)
        /\ \/ got = blob /\ budget' = budget
           \/ got # blob /\ Fault
    /\ excused' = (excused \/ \E q \in Requests \ {r} : ~At(q, "idle"))
    /\ UNCHANGED <<seen, history>>
Fallback(r) ==
    /\ At(r, "fallback")
    /\ LET ids == Kept(Newest, active)
       IN  Goto(r, "pins", SubSeq(ids, 1, Smaller(SoftLimit, Len(ids))))
    /\ UNCHANGED <<seen, history, excused, budget>>

\* Every pinned id counts as known, so that no pin is skipped here.
ReadPins(r) ==
    /\ At(r, "pins")
    /\ \E list \in {PinOverlay(req[r].list, queue) : queue \in InRankOrder(pins)} :
        LET pinned == {p.bot : p \in pins}
        IN  req' = [req EXCEPT ![r] = [pc |-> "seen",
                       head |-> Kept(list, pinned), list |-> Without(list, pinned)]]
    /\ UNCHANGED <<seen, history, excused, budget>>

DedupPinsNot(list, known) == list
DedupPins(list, known) == Without(list, known)
ReadSeen(r) ==
    /\ At(r, "seen")
    /\ \E known \in {seen, {}} :
        /\ Redis(seen, {}, known)
        /\ req' = [req EXCEPT ![r] = [pc |-> "compose",
                      head |-> DedupPins(@.head, known),
                      list |-> Shuffle(Without(@.list, known), Order)]]
    /\ UNCHANGED <<seen, history>>

\* The count of conversations, the metadata SELECT, the composer and the slice.  Whatever
\* the metadata say, Compose puts the list in another order, of which any will do here.
Arrangements(list) == SetToSeqs(ToSet(list))
PageOf(list, offset) == SubSeq(list, offset + 1, Smaller(offset + Limit, Len(list)))
ComposePage(r) ==
    /\ At(r, "compose")
    /\ \E composed \in Arrangements(req[r].list) :
        LET slate == req[r].head \o composed
        IN  /\ Goto(r, "hydrate", PageOf(slate, client.next))
            /\ client' = IF ~client.pages THEN client
                         ELSE IF client.next + Limit < Len(slate)
                              THEN [client EXCEPT !.next = @ + Limit]
                              ELSE [client EXCEPT !.ended = TRUE]
    /\ UNCHANGED <<seen, shown, skipped, repeated, excused, budget>>

\* The page goes out with the rows still active; the task gets all its ids.
Hydrate(r) ==
    /\ At(r, "hydrate")
    /\ LET page == ToSet(req[r].list)
       IN  /\ shown' = shown \cup (page \cap active)
           /\ skipped' = skipped \cup (page \ active)
           /\ repeated' = (repeated \/ shown \cap page \cap active # {})
           /\ req' = [req EXCEPT ![r] = IF page = {} THEN Idle ELSE [@ EXCEPT !.pc = "record"]]
    /\ UNCHANGED <<seen, client, excused, budget>>

Record(r) ==
    /\ At(r, "record")
    /\ \E done \in {seen \cup ToSet(req[r].list), seen} :
        Redis(seen \cup ToSet(req[r].list), seen, done) /\ seen' = done
    /\ req' = [req EXCEPT ![r] = Idle]
    /\ UNCHANGED history

Serve(r) ==
    /\ \/ ReadFeed(r) \/ Fallback(r) \/ ReadPins(r) \/ ReadSeen(r)
       \/ ComposePage(r) \/ Hydrate(r) \/ Record(r)
    /\ UNCHANGED <<active, pins, blob, rank>>

Next ==
    \/ \E b \in Bots : Edit(b)
    \/ \E r \in Rankers : RankStep(r)
    \/ Expire
    \/ \E r \in Requests : Serve(r)

Spec == Init /\ [][Next]_vars

\* The ranker loops for ever, and a session that refreshes goes on asking.
FairSpec ==
    /\ Spec
    /\ \A r \in Rankers : WF_vars(RankStep(r))
    /\ \A r \in Requests : WF_vars(Serve(r))

-----------------------------------------------------------------------------
(* Properties.                                                             *)

\* discovery_feed.py:14 "the user doesn't see the same bot twice on subsequent pages":
\* holds through new pins, new rankings and bots that come and go, as long as the app
\* waits for a page, its recording is done, and Redis answers.
NothingShownTwice == repeated => excused

\* Nothing is hidden from a session that it has not been offered.
SeenWasOffered == seen \subseteq shown \cup skipped

\* A session that goes on refreshing is shown every bot, but for those that were away
\* when their page went out and those that have left the catalogue.
AllShown == \A b \in Bots : b \in shown \cup skipped \/ b \notin active
=============================================================================
