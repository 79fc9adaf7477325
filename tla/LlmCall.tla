------------------------------ MODULE LlmCall ------------------------------
(***************************************************************************)
(* The dispatch of LLM calls in one server process (llm_registry.call,     *)
(* call_stream and _do_complete): the breaker's verdict, the token bucket  *)
(* of a rate-limited provider, the provider's semaphore, the call with its *)
(* timeout, retries after a 429, and the fallback provider.                *)
(*                                                                         *)
(* Time is counted in ticks.  The event loop is prompt: time passes only   *)
(* when every call is asleep, queued behind a full semaphore, or waiting   *)
(* for its provider.                                                       *)
(***************************************************************************)
EXTENDS Integers, Sequences, FiniteSets

CONSTANTS
    Calls,       \* calls by number, in the order they are made
    Streams,     \* those made through call_stream or call_transcribe
    Backed,      \* those whose process has a fallback_provider
    Cap,         \* concurrency_cap, by provider
    Limited,     \* providers with a rate_limit_per_min
    Token,       \* bucket units a call takes: a tick refills one unit
    Capacity,    \* units the bucket holds
    MaxWait,     \* min(timeout_sec, 30): ticks a call may wait for a token
    Timeout,     \* timeout_sec, in ticks
    RetryAfter,  \* ticks of the 429's Retry-After
    MaxRetries,  \* _MAX_RATE_RETRIES
    Window       \* bound: events are remembered for so many ticks

Providers == {"primary", "fallback"}

\* What the constants must satisfy.
LlmCallAssumption ==
    /\ Calls \subseteq Nat /\ Streams \subseteq Calls /\ Backed \subseteq Calls
    /\ Limited \subseteq Providers
    /\ Cap \in [Providers -> Nat \ {0}]
    /\ Token \in Nat \ {0} /\ Capacity \in Nat /\ Capacity >= Token
    /\ MaxWait \in Nat /\ Timeout \in Nat \ {0} /\ RetryAfter \in Nat \ {0}
    /\ MaxRetries \in Nat /\ Window \in Nat

VARIABLES
    call,    \* each call: where it is, at which provider, its timers
    queue,   \* calls waiting for the semaphore, first come first served
    units,   \* the token bucket of each limited provider
    sent,    \* history: requests sent, by call and provider
    rows,    \* history: rows of llm_costs, by call
    denied,  \* history: times a call was turned away by the bucket
    waited,  \* history: ticks a call has slept for a token of this attempt
    taken    \* history: tokens taken from each bucket, by age in ticks

vars == <<call, queue, units, sent, rows, denied, waited, taken>>

Ages == 0..Window
Ended == {"answered", "failed", "left"}
Asleep == {"nap", "backoff"}
States == {"new", "check", "token", "queued", "busy"} \cup Asleep \cup Ended
New == [pc |-> "new", at |-> "primary", attempt |-> 0, left |-> 0, sleep |-> 0]

TypeOK ==
    /\ call \in [Calls -> [pc: States, at: Providers, attempt: 0..MaxRetries,
                           left: 0..(MaxWait + Timeout), sleep: 0..(Token + RetryAfter)]]
    /\ queue \in [Providers -> Seq(Calls)]
    /\ units \in [Limited -> 0..Capacity]
    /\ sent \in [Calls -> [Providers -> 0..(MaxRetries + 1)]]
    /\ rows \in [Calls -> Nat] /\ denied \in [Calls -> Nat] /\ waited \in [Calls -> Nat]
    /\ taken \in [Limited -> [Ages -> Nat]]
    /\ \A p \in Providers: Cardinality({c \in Calls: call[c].pc = "busy" /\ call[c].at = p}) <= Cap[p]

Init ==
    /\ call = [c \in Calls |-> New]
    /\ queue = [p \in Providers |-> <<>>] /\ units = [p \in Limited |-> Capacity]
    /\ sent = [c \in Calls |-> [p \in Providers |-> 0]]
    /\ rows = [c \in Calls |-> 0] /\ denied = [c \in Calls |-> 0]
    /\ waited = [c \in Calls |-> 0]
    /\ taken = [p \in Limited |-> [a \in Ages |-> 0]]

history == <<sent, rows, denied, waited, taken>>
At(c, pc) == call[c].pc = pc
BusyHeld(p) == {c \in Calls: call[c].pc \in {"busy", "left"} /\ call[c].at = p}
Busy(p) == {c \in Calls: At(c, "busy") /\ call[c].at = p}
Enqueue(c) ==
    /\ call' = [call EXCEPT ![c].pc = "queued", ![c].left = 0, ![c].sleep = 0]
    /\ queue' = [queue EXCEPT ![call[c].at] = Append(@, c)]

-----------------------------------------------------------------------------
Start(c) ==
    /\ At(c, "new") /\ \A d \in Calls: d < c => ~At(d, "new")
    /\ IF c \in Streams THEN Enqueue(c)
       ELSE call' = [call EXCEPT ![c].pc = "check"] /\ UNCHANGED queue
    /\ UNCHANGED <<units, history>>

\* The attempt at the primary ended without a reply: a 429 is tried again after
\* its Retry-After, everything else, and the last 429, goes to the fallback.
\* A stream has neither, and the fallback itself is tried once.
Exhausted(c) == call[c].at = "fallback" \/ c \notin Backed
AfterFailure(c, is429) ==
    IF c \in Streams THEN [New EXCEPT !.pc = "failed"]
    ELSE IF is429 /\ call[c].at = "primary" /\ call[c].attempt < MaxRetries
    THEN [New EXCEPT !.pc = "backoff", !.attempt = call[c].attempt + 1, !.sleep = RetryAfter]
    ELSE IF Exhausted(c) THEN [New EXCEPT !.pc = "failed"]
    ELSE [New EXCEPT !.pc = "check", !.at = "fallback"]

\* The cost breaker lets the call through, or raises.
Check(c) ==
    /\ At(c, "check")
    /\ \/ call' = [call EXCEPT ![c].pc = "token", ![c].left = MaxWait]
       \/ call' = [call EXCEPT ![c] = AfterFailure(c, FALSE)]
    /\ UNCHANGED <<queue, units, history>>

-----------------------------------------------------------------------------
(* _RateLimiter.acquire: take a token, sleep until there is one, or give up. *)

Unlimited(c) ==
    /\ At(c, "token") /\ call[c].at \notin Limited /\ Enqueue(c)
    /\ UNCHANGED <<units, history>>

Take(c) ==
    /\ At(c, "token") /\ call[c].at \in Limited /\ units[call[c].at] >= Token
    /\ units' = [units EXCEPT ![call[c].at] = @ - Token]
    /\ taken' = [taken EXCEPT ![call[c].at][0] = @ + 1] /\ Enqueue(c)
    /\ waited' = [waited EXCEPT ![c] = 0]
    /\ UNCHANGED <<sent, rows, denied>>

Short(c) == At(c, "token") /\ call[c].at \in Limited /\ units[call[c].at] < Token
Needed(c) == Token - units[call[c].at]

NapRestarted(c) ==
    /\ Short(c) /\ Needed(c) <= MaxWait
    /\ call' = [call EXCEPT ![c].pc = "nap", ![c].sleep = Needed(c)]
    /\ UNCHANGED <<queue, units, history>>
\* The bucket may be empty again when the sleeper wakes; the deadline stays.
Nap(c) ==
    /\ Short(c) /\ Needed(c) <= call[c].left
    /\ call' = [call EXCEPT ![c].pc = "nap", ![c].sleep = Needed(c)]
    /\ UNCHANGED <<queue, units, history>>

GiveUp(c) ==
    /\ Short(c) /\ Needed(c) > call[c].left
    /\ call' = [call EXCEPT ![c] = AfterFailure(c, FALSE)]
    /\ rows' = [rows EXCEPT ![c] = @ + 1] /\ denied' = [denied EXCEPT ![c] = @ + 1]
    /\ waited' = [waited EXCEPT ![c] = 0]
    /\ UNCHANGED <<queue, units, sent, taken>>

Wake(c) ==
    /\ call[c].pc \in Asleep /\ call[c].sleep = 0
    /\ call' = [call EXCEPT ![c].pc = IF At(c, "nap") THEN "token" ELSE "check"]
    /\ UNCHANGED <<queue, units, history>>

-----------------------------------------------------------------------------
(* Under the semaphore: the call, its outcome, its row in the ledger. *)

Dispatch(c) ==
    LET p == call[c].at IN
    /\ queue[p] # <<>> /\ Head(queue[p]) = c /\ Cardinality(Busy(p)) < Cap[p]
    /\ queue' = [queue EXCEPT ![p] = Tail(@)]
    /\ call' = [call EXCEPT ![c].pc = "busy", ![c].left = Timeout]
    /\ sent' = [sent EXCEPT ![c][p] = @ + 1]
    /\ UNCHANGED <<units, rows, denied, waited, taken>>

Book(c) == rows' = [rows EXCEPT ![c] = @ + 1]

Answered(c) ==
    /\ At(c, "busy") /\ call' = [call EXCEPT ![c] = [New EXCEPT !.pc = "answered"]]
    /\ Book(c)
    /\ UNCHANGED <<queue, units, sent, denied, waited, taken>>

Refused(c, is429) ==
    /\ At(c, "busy") /\ call' = [call EXCEPT ![c] = AfterFailure(c, is429)]
    /\ Book(c)
    /\ UNCHANGED <<queue, units, sent, denied, waited, taken>>

\* The reader of a stream goes away: cancellation is no Exception, so the slot
\* is given back and no row is written.
Abandon(c) ==
    /\ c \in Streams /\ At(c, "busy")
    /\ call' = [call EXCEPT ![c] = [New EXCEPT !.pc = "left"]]
    /\ UNCHANGED <<queue, units, history>>

Step(c) ==
    \/ Start(c) \/ Check(c) \/ Unlimited(c) \/ Take(c) \/ Nap(c) \/ GiveUp(c) \/ Wake(c)
    \/ Dispatch(c) \/ Answered(c) \/ Abandon(c)
    \/ \E is429 \in BOOLEAN: Refused(c, is429)

-----------------------------------------------------------------------------
\* Something is left to do before time passes.
Pressing(c) ==
    \/ call[c].pc \in {"check", "token"}
    \/ call[c].pc \in Asleep /\ call[c].sleep = 0
    \/ At(c, "busy") /\ call[c].left = 0
    \/ At(c, "queued") /\ c = Head(queue[call[c].at]) /\ Cardinality(Busy(call[c].at)) < Cap[call[c].at]

Older(byAge) == [a \in Ages |-> IF a = 0 THEN 0 ELSE byAge[a - 1]]
Less(n) == IF n > 0 THEN n - 1 ELSE 0
RefillUncapped(n) == n + 1
Refill(n) == IF n < Capacity THEN n + 1 ELSE n

Tick ==
    /\ \A c \in Calls: ~Pressing(c)
    /\ call' = [c \in Calls |-> [call[c] EXCEPT !.left = Less(@), !.sleep = Less(@)]]
    /\ units' = [p \in Limited |-> Refill(units[p])]
    /\ waited' = [c \in Calls |-> IF At(c, "nap") THEN waited[c] + 1 ELSE waited[c]]
    /\ taken' = [p \in Limited |-> Older(taken[p])]
    /\ UNCHANGED <<queue, sent, rows, denied>>

Next == Tick \/ \E c \in Calls: Step(c)

Spec == Init /\ [][Next]_vars

-----------------------------------------------------------------------------
InWindow(byAge, w) ==
    LET upTo[a \in Ages] == byAge[a] + (IF a = 0 THEN 0 ELSE upTo[a - 1]) IN upTo[w]

\* However many calls wait, sleep and wake: over w ticks no more tokens of a
\* provider are taken than its bucket holds and the refill of that time pays for; and however
\* often a sleeper finds that another call was faster, it does not sleep longer
\* for its token than the wait it was given.
TokensPaced ==
    /\ \A p \in Limited, w \in Ages: Token * InWindow(taken[p], w) <= Capacity + w
    /\ \A c \in Calls: waited[c] <= MaxWait

\* Every request sent, and every one the bucket turned away, has exactly one
\* row in the ledger once it is over, whichever way it ended; unless the reader
\* of a stream left.
LedgerMatchesAttempts ==
    \A c \in Calls:
        rows[c] = sent[c]["primary"] + sent[c]["fallback"] + denied[c]
                    - (IF call[c].pc \in {"busy", "left"} THEN 1 ELSE 0)

\* Every call that is made ends, and stays so: no slot is lost on an error path,
\* no waiter is overtaken for ever.  Again and again, none is under way.
EveryCallEnds == []<>(\A c \in Calls: call[c].pc \in {"new"} \cup Ended)
=============================================================================
