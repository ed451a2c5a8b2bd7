------------------------------ MODULE RateLimit ------------------------------
(***************************************************************************)
(* The rate limiters of src/packages/pgredis/src/rate-limit.ts, for one    *)
(* key that several callers share.  A behaviour uses one of the three; the *)
(* first two keep their counters in tables of the same columns.            *)
(*                                                                         *)
(* A call reads the caller's clock first and executes its statements       *)
(* later.  All clocks agree.  One unit of time is the interval in which a  *)
(* bucket regains Refill tokens.                                           *)
(***************************************************************************)
EXTENDS Integers, FiniteSetsExt

CONSTANTS
    Callers,
    Limit,          \* option limit, and capacity of a token bucket
    Window,         \* option windowMs
    Precision,      \* option precisionMs
    Refill,         \* option refillTokens
    Costs,          \* option cost (0: a fraction, which floor makes 0)
    Blocks,         \* [blockMs, count]: the options of block
    MaxCalls,       \* bound: calls in a behaviour
    MaxTime         \* bound: the last instant

ASSUME OptionAssumption ==
    /\ Limit \in Nat /\ Window \in Nat \ {0} /\ Precision \in Nat \ {0} /\ Refill \in Nat
    /\ Costs \subseteq Nat /\ Costs # {} /\ IsFiniteSet(Costs) /\ IsFiniteSet(Callers)
    /\ Blocks \subseteq [blockMs : Nat, count : Nat]
    /\ MaxCalls \in Nat /\ MaxTime \in Nat

VARIABLES
    limiter,        \* "fixed", "sliding" or "bucket"
    clock,
    calls,          \* the calls so far
    call,           \* [Callers -> Calls]
    rows,           \* [Starts -> Rows]: by window_start or bucket_start
    bucket,         \* the row of the token bucket
    tried,          \* what was asked for, by the instant of the call
    admitted,       \* what was admitted, by the row it was counted in
    rewarded,       \* what reward took off that row
    promised,       \* until when block has promised to refuse
    rewound         \* by how much last_refill_ms has gone back in all

ghosts == <<tried, admitted, rewarded, promised, rewound>>
vars == <<limiter, clock, calls, call, rows, bucket, ghosts>>

BLOCK_WINDOW_START == -1
Times == 0..MaxTime
Starts == Times \cup {BLOCK_WINDOW_START}

\* A row that is absent has count 0 and is expired; inserting is updating it.
Rows == [count : Nat, expires : Nat]
NoRow == [count |-> 0, expires |-> 0]

Ops == {"none", "hit", "reward", "block", "consume"}
Calls == [op : Ops, now : Times, cost : Nat,
          step : {"first", "second", "done"},
          saw : BOOLEAN]        \* what its snapshot told it: it may, or there is a row
NoCall == [op |-> "none", now |-> 0, cost |-> 0, step |-> "done", saw |-> FALSE]

Greatest(a, b) == IF a >= b THEN a ELSE b
Least(a, b) == IF a <= b THEN a ELSE b
Floor(t, unit) == t - (t % unit)
Total(f, T) == MapThenSumSet(LAMBDA t : f[t], T)

Init ==
    /\ limiter \in {"fixed", "sliding", "bucket"}
    /\ clock = 0 /\ calls = 0
    /\ call = [c \in Callers |-> NoCall]
    /\ rows = [s \in Starts |-> NoRow]
    /\ bucket = [seeded |-> FALSE, tokens |-> 0, last |-> 0]
    /\ tried = [t \in Times |-> 0]
    /\ admitted = [s \in Starts |-> 0] /\ rewarded = [s \in Starts |-> 0]
    /\ promised = 0 /\ rewound = 0

-----------------------------------------------------------------------------
(* Calls.                                                                  *)

\* A caller reads the clock; its statement executes later.
Start(c, op, cost) ==
    /\ calls < MaxCalls /\ calls' = calls + 1
    /\ call[c].step = "done"
    /\ call' = [call EXCEPT ![c] = [NoCall EXCEPT !.op = op, !.now = clock, !.cost = cost,
                                                  !.step = "first"]]
    /\ tried' = IF op = "hit" THEN [tried EXCEPT ![clock] = @ + cost] ELSE tried
    /\ UNCHANGED <<limiter, clock, rows, bucket, admitted, rewarded, promised, rewound>>

Call(c) ==
    \E cost \in Costs :
        \/ limiter = "fixed" /\ \E op \in {"hit", "reward"} : Start(c, op, cost)
        \/ limiter = "sliding" /\ Start(c, "hit", cost)
        \/ limiter = "bucket" /\ Start(c, "consume", cost)

At(c, kind, op, step) == limiter = kind /\ call[c].op = op /\ call[c].step = step

Return(c) == call' = [call EXCEPT ![c] = NoCall]

-----------------------------------------------------------------------------
(* The fixed window.                                                       *)

Active(s) == rows[s].expires > clock
Blocked == Active(BLOCK_WINDOW_START) /\ rows[BLOCK_WINDOW_START].count > Limit

\* hit: getActiveBlock.
CheckBlock(c) ==
    /\ At(c, "fixed", "hit", "first")
    /\ IF Blocked THEN Return(c) ELSE call' = [call EXCEPT ![c].step = "second"]
    /\ UNCHANGED <<limiter, clock, calls, rows, bucket, ghosts>>

\* The upsert of both window limiters, in the row of start s.
Counted(s, cost) ==
    [rows EXCEPT ![s] = [count |-> @.count + cost, expires |-> Greatest(@.expires, clock + Window)]]

\* hit: the window.
AllowedLate(count) == count <= Limit + 1        \* a mutant of Allowed: off by one
Allowed(count) == count <= Limit
HitFixed(c) ==
    LET s == Floor(call[c].now, Window)
        allowed == Allowed(Counted(s, call[c].cost)[s].count)
    IN  /\ At(c, "fixed", "hit", "second")
        /\ rows' = Counted(s, call[c].cost)
        /\ Return(c)
        /\ admitted' = IF allowed THEN [admitted EXCEPT ![s] = @ + call[c].cost] ELSE admitted
        /\ UNCHANGED <<limiter, clock, calls, bucket, tried, rewarded, promised, rewound>>

\* reward: decrementWindow, on the block if there is one, then on the window.
Decremented(s, cost) == [rows EXCEPT ![s].count = Greatest(@ - cost, 0)]
RewardBlock(c) ==
    LET s == BLOCK_WINDOW_START
    IN  /\ At(c, "fixed", "reward", "first")
        /\ IF Active(s)
           THEN /\ rows' = Decremented(s, call[c].cost)
                /\ promised' = IF rows'[s].count > Limit THEN promised ELSE 0
                /\ Return(c)
           ELSE call' = [call EXCEPT ![c].step = "second"] /\ UNCHANGED <<rows, promised>>
        /\ UNCHANGED <<limiter, clock, calls, bucket, tried, admitted, rewarded, rewound>>

RewardWindow(c) ==
    LET s == Floor(call[c].now, Window)
    IN  /\ At(c, "fixed", "reward", "second")
        /\ Return(c)
        /\ IF Active(s)
           THEN /\ rows' = Decremented(s, call[c].cost)
                /\ rewarded' = [rewarded EXCEPT ![s] = @ + call[c].cost]
           ELSE UNCHANGED <<rows, rewarded>>
        /\ UNCHANGED <<limiter, clock, calls, bucket, tried, admitted, promised, rewound>>

\* block: how long the row of a block lasts.
BlockedAnew(until) == until             \* a mutant of BlockedUntil: EXCLUDED.expires_at
BlockedUntil(until) == Greatest(rows[BLOCK_WINDOW_START].expires, until)
Block(b) ==
    /\ limiter = "fixed" /\ calls < MaxCalls /\ calls' = calls + 1
    /\ rows' = [rows EXCEPT ![BLOCK_WINDOW_START] =
                    [count |-> Greatest(@.count, b.count), expires |-> BlockedUntil(clock + b.blockMs)]]
    /\ promised' = IF b.count > Limit THEN Greatest(promised, clock + b.blockMs) ELSE promised
    /\ UNCHANGED <<limiter, clock, call, bucket, tried, admitted, rewarded, rewound>>

\* delete removes the rows of the key, and what they accounted for.
Without(f, K, none) == [s \in Starts |-> IF s \in K THEN none ELSE f[s]]
Delete ==
    /\ limiter = "fixed" /\ calls < MaxCalls /\ calls' = calls + 1
    /\ rows' = Without(rows, Starts, NoRow)
    /\ admitted' = Without(admitted, Starts, 0) /\ rewarded' = Without(rewarded, Starts, 0)
    /\ promised' = 0
    /\ UNCHANGED <<limiter, clock, call, bucket, tried, rewound>>

\* cleanupExpired removes some of the expired rows.  That starts the count
\* of a window that is over again, for the hits that come that late.
Over == {s \in Times : s + Window <= clock}

SweptEarly(s) == rows[s].expires <= clock + 1   \* a mutant of Swept: one instant early
Swept(s) == rows[s].expires <= clock
CleanupExpired(K) ==
    /\ limiter # "bucket" /\ K # {}
    /\ \A s \in K : Swept(s) /\ rows[s] # NoRow
    /\ rows' = Without(rows, K, NoRow)
    /\ admitted' = Without(admitted, K \cap Over, 0) /\ rewarded' = Without(rewarded, K \cap Over, 0)
    /\ UNCHANGED <<limiter, clock, calls, call, bucket, tried, promised, rewound>>

-----------------------------------------------------------------------------
(* The sliding window: one statement, whose SUM reads the snapshot it      *)
(* starts with and not the upsert beside it.                               *)

SinceEver(now) == Times                                 \* a mutant of Since: no bucket_start > $6
Since(now) == {s \in Times : s > now - Window}
StartSliding(c) ==
    /\ At(c, "sliding", "hit", "first")
    /\ call' = [call EXCEPT ![c].step = "second",
                            ![c].saw = Allowed(Total([s \in Times |-> rows[s].count], Since(call[c].now)))]
    /\ UNCHANGED <<limiter, clock, calls, rows, bucket, ghosts>>

HitSliding(c) ==
    LET s == Floor(call[c].now, Precision)
    IN  /\ At(c, "sliding", "hit", "second")
        /\ rows' = Counted(s, call[c].cost)
        /\ Return(c)
        /\ admitted' = IF call[c].saw THEN [admitted EXCEPT ![s] = @ + call[c].cost] ELSE admitted
        /\ UNCHANGED <<limiter, clock, calls, bucket, tried, rewarded, promised, rewound>>

-----------------------------------------------------------------------------
(* The token bucket: one statement, whose state reads the snapshot too, so *)
(* that it finds the row only if it was there when the statement started.  *)

StartConsume(c) ==
    /\ At(c, "bucket", "consume", "first")
    /\ call' = [call EXCEPT ![c].step = "second", ![c].saw = bucket.seeded]
    /\ UNCHANGED <<limiter, clock, calls, rows, bucket, ghosts>>

AvailableAnew(now) == Limit         \* a mutant of Available: every call finds it full
AvailableUncapped(now) == bucket.tokens + Greatest(0, now - bucket.last) * Refill  \* a mutant: no LEAST
Available(now) == Least(Limit, bucket.tokens + Greatest(0, now - bucket.last) * Refill)
Consume(c) ==
    LET now == call[c].now
        available == Available(now)
        allowed == available >= call[c].cost
        taken == IF allowed THEN call[c].cost ELSE 0
    IN  /\ At(c, "bucket", "consume", "second")
        /\ IF ~call[c].saw          \* seeded by this call or another: state is empty
           THEN /\ bucket' = IF bucket.seeded THEN bucket
                             ELSE [seeded |-> TRUE, tokens |-> Limit, last |-> now]
                /\ Return(c)
                /\ UNCHANGED <<admitted, rewound>>
           ELSE /\ bucket' = [bucket EXCEPT !.tokens = available - taken, !.last = now]
                /\ Return(c)
                /\ admitted' = [admitted EXCEPT ![0] = @ + taken]
                /\ rewound' = rewound + Greatest(0, bucket.last - now)
        /\ UNCHANGED <<limiter, clock, calls, rows, tried, rewarded, promised>>

-----------------------------------------------------------------------------
(* The specification.                                                      *)

Tick ==
    /\ clock < MaxTime /\ clock' = clock + 1
    /\ UNCHANGED <<limiter, calls, call, rows, bucket, ghosts>>

Next ==
    \/ \E c \in Callers : \/ Call(c)
                          \/ CheckBlock(c) \/ HitFixed(c) \/ RewardBlock(c) \/ RewardWindow(c)
                          \/ StartSliding(c) \/ HitSliding(c)
                          \/ StartConsume(c) \/ Consume(c)
    \/ \E b \in Blocks : Block(b)
    \/ Delete
    \/ \E K \in SUBSET Starts : CleanupExpired(K)
    \/ Tick

Spec == Init /\ [][Next]_vars

-----------------------------------------------------------------------------
(* Properties.                                                             *)

\* Type correctness; the tokens never exceed the capacity.
TypeOK ==
    /\ limiter \in {"fixed", "sliding", "bucket"} /\ clock \in Times /\ calls \in 0..MaxCalls
    /\ call \in [Callers -> Calls]
    /\ rows \in [Starts -> Rows]
    /\ bucket \in [seeded : BOOLEAN, tokens : 0..Limit, last : Times]
    /\ tried \in [Times -> Nat]
    /\ admitted \in [Starts -> Nat] /\ rewarded \in [Starts -> Nat]
    /\ promised \in Nat /\ rewound \in Nat

\* In one fixed window no more is admitted than the limit and what reward
\* gave back, however the statements of the callers interleave, and however
\* late they come unless the row has been swept after the window (hit,
\* reward, cleanupExpired).
WithinLimit ==
    limiter = "fixed" => \A s \in Times : admitted[s] <= Limit + rewarded[s]

\* A block lasts as long as the longest block() asked for, unless delete or
\* reward lifts it: a shorter block, a sweep or a hit does not (block,
\* cleanupExpired).
BlockLasts == promised > clock => Blocked /\ rows[BLOCK_WINDOW_START].expires >= promised

LastWindow(t) == {s \in Times : s + Window > t}

\* In a sliding window no more than the limit and one hit of each caller is
\* admitted: a hit does not see itself, nor those that execute beside it, so
\* that this is what the code keeps of SlidingLimit, which it breaks.  And
\* one is refused only if the others of the last Window exceed the limit: a
\* key that was quiet for so long is admitted again, swept or not (hit).
SlidingBound ==
    /\ limiter = "sliding" =>
        Total(admitted, LastWindow(clock)) <= Limit + Cardinality(Callers) * Max(Costs)
    /\ \A c \in Callers :
        At(c, "sliding", "hit", "second") /\ ~call[c].saw
            => Total(tried, LastWindow(call[c].now)) - call[c].cost > Limit

\* rate-limit.test.ts:203: of the hits of one caller, one after the other, a
\* sliding window admits no more than the limit (hit).
SlidingLimit ==
    limiter = "sliding" => Total(admitted, LastWindow(clock)) <= Limit

\* What a token bucket admits is what it held and what time has refilled,
\* and no more than the refill of the time by which late statements have
\* turned last_refill_ms back.
Metered ==
    bucket.seeded => admitted[0] + bucket.tokens <= Limit + Refill * (bucket.last + rewound)

\* rate-limit.test.ts:215: the first consume of a key is admitted.  One is
\* refused only after the bucket has been drawn on (consume).
FreshBucket ==
    [][\A c \in Callers :
         Consume(c) /\ admitted' = admitted => admitted[0] + call[c].cost > Limit]_vars
=============================================================================
