----------------------------- MODULE Collections -----------------------------
(***************************************************************************)
(* The collections of src/packages/pgredis/src: hash.ts, set.ts,           *)
(* sorted-set.ts, list.ts and counter.ts.  Each keeps its elements in a    *)
(* table of its own, with the same columns and nearly the same statements; *)
(* a behaviour uses one of them, the same for all its clients.             *)
(*                                                                         *)
(* A statement takes its snapshot and NOW() when it starts (the actions    *)
(* of a call) and changes the rows later (Execute).  Read committed: it    *)
(* changes the rows it saw as they are by then, if they still exist, and   *)
(* none that were inserted meanwhile; an upsert finds every row.           *)
(***************************************************************************)
EXTENDS Integers, FiniteSetsExt, Sequences

CONSTANTS
    Clients,
    KeySeq,         \* the keys, in the order blpop is given them
    MembersOf,      \* [Kinds -> SUBSET Nat]: fields and members; 0 is the empty one
    Numbers,        \* values, scores and increments
    Counts,         \* option count of the pops; how many elements a push has
    Pages,          \* option count of the scans, in halves: it may be a fraction
    Ttls,           \* option ttlMs
    Timeouts,       \* option timeoutMs of blpop; Forever is 0, no deadline
    KeysOf,         \* bound: [Kinds -> SUBSET Keys], the keys calls are made for
    MaxCalls,       \* bound: [Kinds -> Nat], calls in a behaviour, the scan included
    MaxTime,        \* bound: the last instant
    Forever         \* expires_at NULL

Keys == {KeySeq[i] : i \in DOMAIN KeySeq}
Kinds == {"hash", "set", "sorted", "list", "counter"}

ASSUME CollectionAssumption ==
    /\ KeySeq \in Seq(Keys) /\ KeySeq # <<>>
    /\ MembersOf \in [Kinds -> SUBSET Nat] /\ \A k \in Kinds : IsFiniteSet(MembersOf[k])
    /\ MembersOf["counter"] = {1}                \* a counter has one row
    /\ Numbers \subseteq Nat \ {0} /\ Counts \subseteq Nat \ {0}
    /\ Pages \subseteq Int /\ Ttls \subseteq Nat /\ Timeouts \subseteq Nat
    /\ KeysOf \in [Kinds -> SUBSET Keys] /\ MaxCalls \in [Kinds -> Nat] /\ MaxTime \in Nat
    /\ Forever \in Nat /\ \A t \in Ttls \cup Counts : MaxTime + t < Forever

VARIABLES
    kind,           \* which of the collections this is
    clock,
    calls,          \* the calls so far
    rows,           \* the table
    born,           \* the next id
    call,           \* [Clients -> Calls]
    scan,           \* one scan, page by page
    popped,         \* the rows that pops have returned
    given           \* what increments have returned, by row

vars == <<kind, clock, calls, rows, born, call, scan, popped, given>>

\* One element.  An id is one row: a member that is removed and added again
\* has another.  In a list it is the column id, and the member too; value is
\* the value of a field or a counter, a score, or a position.
Rows == [id : Nat, key : Keys, member : Nat, value : Int, expires : Nat]

Ops == {"put", "incr", "push", "set", "remove", "clear", "move", "pop", "blockingPop",
        "expire", "persist", "sweep"}
Calls == [op : Ops \cup {"none"}, key : Keys,
          members : SUBSET Nat,         \* of put, incr, remove, move
          number : Int,                 \* a value, an increment, a count or a TTL
          desc : BOOLEAN,               \* from the right, or the greatest first
          at : Nat, inherit : Nat, saw : SUBSET Rows,   \* its snapshot
          rest : Seq(Keys),                     \* the keys blockingPop has yet to try
          until : Nat,                          \* an expires_at, or its deadline
          step : {"done", "sent", "waiting"}]
NoCall == [op |-> "none", key |-> KeySeq[1], members |-> {}, number |-> 0, desc |-> FALSE,
           at |-> 0, inherit |-> 0, saw |-> {}, rest |-> <<>>, until |-> 0, step |-> "done"]

Init ==
    /\ kind \in Kinds
    /\ clock = 0 /\ calls = 0
    /\ rows = {} /\ born = 1
    /\ call = [c \in Clients |-> NoCall]
    /\ scan = [on |-> FALSE, over |-> FALSE, whole |-> TRUE, key |-> KeySeq[1], cursor |-> 0,
               due |-> {}, got |-> {}]
    /\ popped = {} /\ given = {}

-----------------------------------------------------------------------------
(* What a statement sees.                                                  *)

Of(k) == {r \in rows : r.key = k}
Alive(r, t) == r.expires > t
Visible(k) == {r \in Of(k) : Alive(r, clock)}

\* SELECT MAX(expires_at): NULLs do not count, and rows that have expired do.
Inherited(k) ==
    LET E == {r.expires : r \in Of(k)} \ {Forever}
    IN  IF E = {} THEN Forever ELSE Max(E)

\* The expires_at that a ttlMs asks for.
Until(t, ttl) == IF ttl = Forever THEN Forever ELSE t + ttl

\* ORDER BY score, member, or position, id; or by the member alone.
Before(a, b) == a.value < b.value \/ (a.value = b.value /\ a.member < b.member)
Precedes(order, a, b) ==
    CASE order = "asc" -> Before(a, b)
      [] order = "desc" -> Before(b, a)
      [] order = "member" -> a.member < b.member
ScanOrder == IF kind = "list" THEN "asc" ELSE "member"

\* LIMIT n: the sets of n rows of R, or of all there are, and the first.
Some(R, n) ==
    {P \in SUBSET R : Cardinality(P) = IF n < Cardinality(R) THEN n ELSE Cardinality(R)}
FirstOf(R, n, order) ==
    CHOOSE P \in Some(R, n) : \A p \in P, r \in R \ P : Precedes(order, p, r)

\* What a pop picks: the first in its order; spop any.
Picks(k, n, desc) ==
    IF kind = "set" THEN Some(Visible(k), n)
                    ELSE {FirstOf(Visible(k), n, IF desc THEN "desc" ELSE "asc")}

-----------------------------------------------------------------------------
(* Calls.                                                                  *)

Send(c, k, new) ==
    /\ call[c].step = "done" /\ calls < MaxCalls[kind] /\ calls' = calls + 1
    /\ call' = [call EXCEPT ![c] = [new EXCEPT !.key = k, !.step = "sent"]]
    /\ UNCHANGED <<kind, clock, rows, born, scan, popped, given>>

Members == MembersOf[kind]

\* A statement that inserts keeps what it has read of its snapshot.
SendInsert(c, k, new) ==
    Send(c, k, [new EXCEPT !.at = clock, !.inherit = Inherited(k)])

\* hset, hmset, zadd, sadd.
CallPut(c, k) ==
    /\ kind \in {"hash", "set", "sorted"}
    /\ \E M \in SUBSET Members \ {{}}, v \in Numbers :
         /\ kind = "sorted" => Cardinality(M) = 1
         /\ SendInsert(c, k, [NoCall EXCEPT !.op = "put", !.members = M, !.number = v])

\* hincrby, zincrby, and incr of a counter.
CallIncr(c, k) ==
    /\ kind \in {"hash", "sorted", "counter"}
    /\ \E m \in Members, v \in Numbers,
          ttl \in IF kind = "counter" THEN Ttls \cup {Forever} ELSE {Forever} :
         SendInsert(c, k, [NoCall EXCEPT !.op = "incr", !.members = {m}, !.number = v,
                                   !.until = Until(clock, ttl)])

CallSet(c, k) ==
    /\ kind = "counter"
    /\ \E v \in Numbers, ttl \in Ttls \cup {Forever} :
         SendInsert(c, k, [NoCall EXCEPT !.op = "set", !.members = {1}, !.number = v,
                                   !.until = Until(clock, ttl)])

\* lpush and rpush of n elements.
CallPush(c, k) ==
    /\ kind = "list"
    /\ \E n \in Counts, left \in BOOLEAN :
         SendInsert(c, k, [NoCall EXCEPT !.op = "push", !.number = n, !.desc = left])

\* hdel, srem, zrem, delete of a counter; hclear, sclear, lclear.
CallRemove(c, k) ==
    /\ kind # "list"
    /\ \E M \in SUBSET Members \ {{}} :
         /\ kind = "hash" => Cardinality(M) = 1
         /\ Send(c, k, [NoCall EXCEPT !.op = "remove", !.members = M,
                                      !.saw = {r \in Of(k) : r.member \in M}])
CallClear(c, k) ==
    /\ kind \in {"hash", "set", "list"}
    /\ Send(c, k, [NoCall EXCEPT !.op = "clear", !.saw = Of(k)])

\* smove to another key.
CallMove(c, k) ==
    /\ kind = "set"
    /\ \E m \in Members, to \in KeysOf[kind] \ {k} :
         SendInsert(c, to, [NoCall EXCEPT !.op = "move", !.members = {m},
                                    !.saw = {r \in Visible(k) : r.member = m}])

\* lpop, rpop, zpopmin, zpopmax, spop.
CallPop(c, k) ==
    /\ kind \in {"list", "sorted", "set"}
    /\ \E n \in Counts, desc \in IF kind = "set" THEN {FALSE} ELSE BOOLEAN :
       \E P \in Picks(k, n, desc) :
         Send(c, k, [NoCall EXCEPT !.op = "pop", !.desc = desc, !.saw = P])

\* blpop, brpop: a pop of one element at each key in turn, until one has any.
KeysToTryFirst == <<KeySeq[1]>>                 \* a mutant of KeysToTry: listKeys[0] only
KeysToTry == KeySeq
CallBlockingPop(c) ==
    /\ kind = "list"
    /\ \E desc \in BOOLEAN, timeout \in Timeouts : \E P \in Picks(KeySeq[1], 1, desc) :
         /\ timeout # Forever => clock + timeout <= MaxTime        \* bound
         /\ Send(c, KeySeq[1], [NoCall EXCEPT !.op = "blockingPop", !.desc = desc, !.saw = P,
                                              !.rest = Tail(KeysToTry),
                                              !.until = Until(clock, timeout)])

CallExpire(c, k) ==
    /\ kind # "counter"
    /\ \E ttl \in Ttls : Send(c, k, [NoCall EXCEPT !.op = "expire", !.saw = Of(k),
                                                   !.until = Until(clock, ttl)])
CallPersist(c, k) ==
    /\ kind # "counter"
    /\ Send(c, k, [NoCall EXCEPT !.op = "persist", !.saw = Of(k), !.until = Forever])

\* cleanupExpired: some of the expired rows, of any key.
CallSweep(c) ==
    \E K \in SUBSET {r \in rows : ~ Alive(r, clock)} \ {{}} :
        Send(c, KeySeq[1], [NoCall EXCEPT !.op = "sweep", !.saw = K])

-----------------------------------------------------------------------------
(* What a statement does.                                                  *)

At(c, op) == call[c].op = op /\ call[c].step = "sent"
Return(c) == call' = [call EXCEPT ![c] = NoCall]

\* The rows it saw, as they are now.
StillThere(c) == {r \in rows : r.id \in {s.id : s \in call[c].saw}}

\* INSERT ... ON CONFLICT DO UPDATE.
ConflictsAlive(k, M) == {r \in Visible(k) : r.member \in M}  \* a mutant: not those that have expired
Conflicts(k, M) == {r \in Of(k) : r.member \in M}
Existing(c) == Conflicts(call[c].key, call[c].members)
Upsert(c, value, expires, updated) ==
    LET new == call[c].members \ {r.member : r \in Existing(c)}
        Nth(m) == Cardinality({x \in new : x < m})
    IN  /\ rows' = (rows \ Existing(c)) \cup updated
                   \cup {[id |-> born + Nth(m), key |-> call[c].key, member |-> m,
                          value |-> value, expires |-> expires] : m \in new}
        /\ born' = born + Cardinality(new)

\* A value that is set anew: what increments gave before it is history.
Since(c) == {g \in given : \A r \in Existing(c) : g.id # r.id}

Put(c) ==
    /\ At(c, "put")
    /\ LET v == IF kind = "set" THEN 0 ELSE call[c].number
       IN  Upsert(c, v, call[c].inherit, {[r EXCEPT !.value = v] : r \in Existing(c)})
    /\ given' = Since(c)
    /\ Return(c)
    /\ UNCHANGED <<kind, clock, calls, scan, popped>>

\* A counter that has expired starts again, its expiry kept if none is given.
IncrementedAnew(c, r) == call[c].number        \* a mutant of Incremented: EXCLUDED.value
Incremented(c, r) ==
    IF kind = "counter" /\ ~ Alive(r, call[c].at) THEN call[c].number ELSE r.value + call[c].number
Increment(c, r) ==
    [r EXCEPT !.value = Incremented(c, r),
              !.expires = IF call[c].until = Forever THEN @ ELSE call[c].until]
IsTarget(c, r) == r.key = call[c].key /\ r.member \in call[c].members
Incr(c) ==
    /\ At(c, "incr")
    /\ Upsert(c, call[c].number, IF kind = "counter" THEN call[c].until ELSE call[c].inherit,
              {Increment(c, r) : r \in Existing(c)})
    /\ LET lapsed == kind = "counter" /\ \A r \in Existing(c) : ~ Alive(r, call[c].at)
       IN  given' = (IF lapsed THEN Since(c) ELSE given)
                    \cup {[id |-> r.id, value |-> r.value] : r \in {x \in rows' : IsTarget(c, x)}}
    /\ Return(c)
    /\ UNCHANGED <<kind, clock, calls, scan, popped>>

Set(c) ==
    /\ At(c, "set")
    /\ Upsert(c, call[c].number, call[c].until,
              {[r EXCEPT !.value = call[c].number, !.expires = call[c].until] : r \in Existing(c)})
    /\ given' = Since(c)
    /\ Return(c)
    /\ UNCHANGED <<kind, clock, calls, scan, popped>>

\* Positions come from the client's clock: elements pushed within the
\* milliseconds that an earlier push has numbered lie between its elements.
Push(c) ==
    LET n == call[c].number
        base == call[c].at
        Position(index) == IF call[c].desc THEN -(base + n - index) ELSE base + index
    IN  /\ At(c, "push")
        /\ rows' = rows \cup {[id |-> m, key |-> call[c].key, member |-> m,
                               value |-> Position(m - born), expires |-> call[c].inherit]
                              : m \in born..(born + n - 1)}
        /\ born' = born + n
        /\ Return(c)
        /\ UNCHANGED <<kind, clock, calls, scan, popped, given>>

Remove(c) ==
    /\ At(c, "remove") \/ At(c, "clear")
    /\ rows' = rows \ StillThere(c)
    /\ Return(c)
    /\ UNCHANGED <<kind, clock, calls, born, scan, popped, given>>

\* smove: what it deletes of the source it inserts into the destination.
Move(c) ==
    LET moved == {r \in StillThere(c) : Alive(r, call[c].at)}
        new == IF moved = {} \/ Existing(c) # {} THEN {}
               ELSE {[id |-> born, key |-> call[c].key, member |-> m, value |-> 0,
                      expires |-> call[c].inherit] : m \in call[c].members}
    IN  /\ At(c, "move")
        /\ rows' = (rows \ moved) \cup new
        /\ born' = born + Cardinality(new)
        /\ Return(c)
        /\ UNCHANGED <<kind, clock, calls, scan, popped, given>>

\* What a pop returns is what it has deleted.
DeletedPicked(c) == call[c].saw                \* a mutant of Deleted: SELECT FROM picked
Deleted(c) == StillThere(c)
Take(c) ==
    /\ rows' = rows \ StillThere(c)
    /\ popped' = popped \cup {r.id : r \in Deleted(c)}
    /\ UNCHANGED <<kind, clock, calls, born, scan, given>>

Pop(c) == At(c, "pop") /\ Take(c) /\ Return(c)

TimedOutNever(c) == FALSE                      \* a mutant of TimedOut
TimedOut(c) == call[c].until <= clock
BlockingPop(c) ==
    /\ At(c, "blockingPop") /\ Take(c)
    /\ IF Deleted(c) # {} \/ (call[c].rest = <<>> /\ TimedOut(c))
       THEN Return(c)
       ELSE call' = [call EXCEPT ![c].step = "waiting", ![c].saw = {},
                                 ![c].rest = IF @ = <<>> THEN KeysToTry ELSE @]

\* The next key at once, or the first again when the timer fires.
Poll(c) ==
    /\ call[c].step = "waiting"
    /\ LET k == Head(call[c].rest)
       IN  \E P \in Picks(k, 1, call[c].desc) :
             call' = [call EXCEPT ![c].step = "sent", ![c].key = k, ![c].rest = Tail(@),
                                  ![c].saw = P]
    /\ UNCHANGED <<kind, clock, calls, rows, born, scan, popped, given>>

\* expire, persist.
Expire(c) ==
    /\ At(c, "expire") \/ At(c, "persist")
    /\ rows' = (rows \ StillThere(c))
               \cup {[r EXCEPT !.expires = call[c].until] : r \in StillThere(c)}
    /\ Return(c)
    /\ UNCHANGED <<kind, clock, calls, born, scan, popped, given>>

\* cleanupExpired deletes by ctid, which an update changes.
SweptById(c) == StillThere(c)                  \* a mutant of Swept: by primary key
Swept(c) == rows \cap call[c].saw
Sweep(c) ==
    /\ At(c, "sweep")
    /\ rows' = rows \ Swept(c)
    /\ Return(c)
    /\ UNCHANGED <<kind, clock, calls, born, scan, popped, given>>

\* A statement that fails changes nothing, and ends its call.
Fail(c) ==
    /\ call[c].step = "sent"
    /\ Return(c)
    /\ UNCHANGED <<kind, clock, calls, rows, born, scan, popped, given>>

\* The server executes a pop, but its reply is lost: the call fails, and what
\* it has deleted is returned to nobody.  Of the other statements a lost reply
\* leaves what Execute does.
LostReply(c) ==
    /\ At(c, "pop") \/ At(c, "blockingPop")
    /\ rows' = rows \ StillThere(c)
    /\ Return(c)
    /\ UNCHANGED <<kind, clock, calls, born, scan, popped, given>>

-----------------------------------------------------------------------------
(* Scans: hscan, sscan, zscan, lscan.  The first three go on after a       *)
(* member, at first after the empty one, the last after a position.        *)

CursorOf(r) == IF kind = "list" THEN r.value ELSE r.member
FirstCursor == IF kind = "list" THEN -Forever ELSE 0

AfterNext(k, cursor) == {r \in Visible(k) : CursorOf(r) > cursor + 1}   \* a mutant of After
After(k, cursor) == {r \in Visible(k) : CursorOf(r) > cursor}

\* LIMIT max(1, floor(count)), and whether there may be more: hscan compares
\* what it has got with count itself.
Limit(count) == IF count < 2 THEN 1 ELSE count \div 2
Whole(count) == count = 2 * Limit(count)
Full(page, count) ==
    IF kind = "hash" THEN 2 * Cardinality(page) = count ELSE Cardinality(page) = Limit(count)

\* The next page.  An hscan of count 0 that finds nothing throws.
ScanPage(k) == \E count \in Pages :
    LET cursor == IF scan.on THEN scan.cursor ELSE FirstCursor
        page == FirstOf(After(k, cursor), Limit(count), ScanOrder)
        full == Full(page, count)
    IN  /\ kind # "counter" /\ ~ scan.over
        /\ full => page # {}
        /\ IF scan.on THEN scan.key = k /\ UNCHANGED calls
                      ELSE calls < MaxCalls[kind] /\ calls' = calls + 1
        /\ scan' = [on |-> TRUE, over |-> ~ full, whole |-> kind = "hash" => Whole(count), key |-> k,
                    cursor |-> IF full THEN Max({CursorOf(r) : r \in page}) ELSE cursor,
                    due |-> IF scan.on THEN scan.due \cap {r.id : r \in Visible(k)}
                                       ELSE {r.id : r \in Visible(k)},
                    got |-> scan.got \cup {[id |-> r.id, cursor |-> CursorOf(r)] : r \in page}]
        /\ UNCHANGED <<kind, clock, rows, born, call, popped, given>>

-----------------------------------------------------------------------------
(* The specification.                                                      *)

Tick ==
    /\ clock < MaxTime /\ clock' = clock + 1
    /\ UNCHANGED <<kind, calls, rows, born, call, scan, popped, given>>

Execute(c) ==
    \/ Put(c) \/ Incr(c) \/ Set(c) \/ Push(c) \/ Remove(c) \/ Move(c)
    \/ Pop(c) \/ BlockingPop(c) \/ Expire(c) \/ Sweep(c)

Next ==
    \/ \E c \in Clients :
         \/ \E k \in KeysOf[kind] :
              \/ CallPut(c, k) \/ CallIncr(c, k) \/ CallSet(c, k) \/ CallPush(c, k)
              \/ CallRemove(c, k) \/ CallClear(c, k) \/ CallMove(c, k) \/ CallPop(c, k)
              \/ CallExpire(c, k) \/ CallPersist(c, k)
         \/ CallBlockingPop(c) \/ CallSweep(c)
         \/ Execute(c) \/ Fail(c) \/ LostReply(c) \/ Poll(c)
    \/ \E k \in KeysOf[kind] : ScanPage(k)
    \/ Tick

Spec == Init /\ [][Next]_vars

\* Statements end, timers fire, and time passes.
Fairness == WF_vars(Tick) /\ \A c \in Clients : WF_vars(Execute(c)) /\ WF_vars(Poll(c))
FairSpec == Spec /\ Fairness

-----------------------------------------------------------------------------
(* Properties.                                                             *)

\* Type correctness; the primary key of every table.
TypeOK ==
    /\ kind \in Kinds /\ clock \in 0..MaxTime /\ calls \in 0..MaxCalls[kind]
    /\ rows \subseteq Rows /\ born \in Nat
    /\ \A r, x \in rows : r.id = x.id \/ (r.key = x.key /\ r.member = x.member) => r = x
    /\ \A r \in rows : r.id < born
    /\ call \in [Clients -> Calls]
    /\ popped \subseteq 1..born /\ given \subseteq [id : Nat, value : Nat]

\* However pops, moves, removals and blocking pops interleave, no element
\* is returned twice, and what is returned was still there (pop, spop,
\* zpopmin, zpopmax, blockingPop).
PoppedOnce ==
    [][\A c \in Clients : Pop(c) \/ BlockingPop(c) =>
          \A r \in Deleted(c) : r.id \notin popped /\ r \in rows]_vars

\* cleanupExpired removes nothing that has not expired, though expire,
\* persist or set may give a row it has picked a longer life meanwhile.
SweptExpired ==
    [][\A c \in Clients : Sweep(c) => \A r \in rows \ rows' : ~ Alive(r, clock)]_vars

\* No increment is lost: each returns more than those before it, until the
\* value is set anew, removed, or a counter has expired (incr, hincrby,
\* zincrby).
NoneLost ==
    [][\A c \in Clients : Incr(c) =>
          \A r \in rows', g \in given :
             /\ IsTarget(c, r) /\ g.id = r.id
             /\ (kind = "counter" => \E x \in rows : x.id = r.id /\ Alive(x, call[c].at))
             => g.value < r.value]_vars

\* Whatever is inserted, updated or removed meanwhile, a scan that is over
\* has returned everything that was there all the time (the scans), except for
\* the empty field or member, after which the first page starts (hash.ts,
\* set.ts, sorted-set.ts), for what an hscan whose count is no whole number of
\* at least 1 leaves out when it takes its last page for the end (hash.ts), and
\* in a list for what has the position of an element that it has returned.
ScanComplete ==
    scan.over /\ scan.whole => \A r \in rows :
        r.id \in scan.due /\ r.member # 0 => \E g \in scan.got :
            g.id = r.id \/ (kind = "list" /\ g.cursor = r.value)

Blocked(c) == call[c].op = "blockingPop"

\* A blocking pop with a deadline returns, and one without goes on until it
\* has an element or its lists are empty, though others may win the race for
\* an element again and again (blockingPop).
PopsEnd ==
    \A c \in Clients :
        Blocked(c) /\ (call[c].until # Forever \/ \E k \in Keys : Visible(k) # {})
            ~> ~ Blocked(c) \/ (call[c].until = Forever /\ \A k \in Keys : Visible(k) = {})
=============================================================================
