# Verification of postgresx

TLA+ specifications of the PostgreSQL-backed Redis replacement in
`packages/pgredis` and of its LISTEN/NOTIFY client in `packages/bun-listen`,
with the TLC runs that check them and TLAPS proofs of every safety property of those runs. Line
numbers below are those of `src/packages/pgredis/src` unless another path is given.

## The system

| Part | State it keeps | Operations | What makes it correct |
|---|---|---|---|
| Key/value cache (`kv-cache.ts`) | a table row per key; per process an insertion-ordered `Map` (L1), `l1Generation`, a listener | get, mget, set (+ setex, psetex, setnx), mset, delete, clearPrefix, clearNamespace, cleanupExpired, compareAndSwap, expire, persist, rename, unlink, getset, getdel, invalidate, invalidateAll, stats, start/stopInvalidationListener | what L1 serves is the row, or its invalidation is on the way; L1 stays bounded |
| Bun listener (`bun-listen/src/index.ts`) | socket, connection phase, query queue and active query, reconnect and health timers | socket events, messages, notify, close | one connection, every promise settled, recovery, "reconnect" before a new LISTEN |
| Node listener, pool (`adapters/node.ts`) | a `pg` client, timers; a pool made on first use | connect, close, notify; unsafe, begin, close | as above; connections come back clean |
| Lazy wrapper (`pubsub.ts`) | calls made before the module is loaded | notify, on, off, close | order kept, promises settled |
| Outbox stream (`stream.ts`) | messages with a claim (consumer, until) | append, read, claim, ack, pending, trim | at least once, no message skipped, claims exclusive |
| Rate limiters (`rate-limit.ts`) | a row per key and window or bucket | hit, get, reward, block, delete, consume | never more than the limit per window |
| Lists (`list.ts`) | rows with positions | push, pop, blockingPop, lrange, lscan, expire, persist | no element popped twice, waiting pops served |
| Counters, hashes, sets, sorted sets | rows with an expiry per collection | increments, adds, removals, pops, scans, expire, persist | no increment lost, nothing alive swept, scans complete |
| Advisory locks | a lock and a lock_timeout of a pooled connection's transaction | withPgAdvisoryLock | sections exclude each other up to their COMMIT, waiting ends |
| Pipelines, batches | a queue of commands | add, exec, batch | all or nothing, in order, each command once |
| Queue facade (`queue.ts`) | a pg-boss instance made on first use | start, stop, send, work | one instance |
| Client, facades, web adapters, metrics, SQL helpers | none that changes | construction, conversion | – |

Processes share nothing but the table and the notifications. A cache writes
with one statement and publishes with a second one (`publish`, 776); other
processes receive it through their listener (`handleNotification`, 598). A
listener tells the cache about lost connections with its `reconnect` event,
on which the cache clears L1 (580-582). Within a process everything runs on
one event loop: between the two sides of an `await` any other call,
notification or timer may run. That, lost connections and clocks are where
the difficulty lies; `PROJECT.json` lists each hazard at its line.

## Modules

**KvCache** is `PgKvCache` with the table and the notifications of several
processes. `row` is the table; a value is the number of the statement that
wrote it, since no property looks into values. `l1` is the Map of each
process, with the insertion order as `pos`. A call in flight is a record of
`call`: `issued` (before its statement), `replied` (executed, the reply not
handled) and `publish` (the reply handled, `pg_notify` not yet executed), so
that everything an event loop may run in between does run in between. Each
method is one action up to its statement (`Get`, `Set`, `Mset`, ...); `Reply`
is the code after the await, which is the same for all methods: setL1 for some
keys, deleteL1 for others, then publish. `fresh` is the comparison of a captured
`l1Generation` with the current one. `conn` is the listener as the cache sees
it: `lost` is a broken connection the listener has not noticed, `down` is
reconnecting. `rename` onto a key whose row exists may also fail on the primary
key; that changes nothing and is a stutter. A getset whose transaction is
retried is one commit. The clock is one for the server and the processes:
skew between them is not modelled.

**PgListener** is what the cache relies on in a listener, in five states.
**BunListener** is `createPgListener` with one action per callback: the
variables have the names of the code's. `link` is the socket, `wire` the
messages not yet read, `server` the peer, written from the protocol. An entry
of `wire` stands for the messages up to the one that matters: framing,
authentication arithmetic and notifications are left out. `KeepsContract` is
the refinement: under the mapping `Conn` every step of BunListener is one of
PgListener or a stutter. It links the two models: `conn` of KvCache moves
exactly as PgListener allows (`Listening`, `Disconnect` = `Lose`,
`NoticeClose` and `ConnectFails` = `Reconnect`, `StopListener` = `Close`; a new
listener or process starts a new instance).

**NodeListener** is `createPgNodeListener`, shown to implement the same
contract. `client` is the pg client the listener holds, by the state of its
connection; `former` counts clients it no longer holds whose events are still to
come, since the handlers compare `client === pgClient`. After the first import
of `pg`, `connect` runs up to `client.connect()` at once. A client whose LISTEN
was refused stays open when the next one replaces it (273); no property forbids
that, nor the connection that a `close()` during the import does not prevent (250).

**LazyListener** is `createBunPgListener`, which imports that listener, and extends
BunListener with the queue of calls made before the import has ended. BunListener's
variables keep their initial values until `Load`; `outcome` is then the promise the
wrapper has given. `queue` begins with the subscription of PgKvCache, which the cache
makes as soon as it has the wrapper (579); `deaf` records a "reconnect" that was
emitted without it, so that `KeepsContract` is about what arrives at the cache.
`Within` is a step of the listener, and `handle` says whether there is one. `off()` of the
wrapper is left out: nothing calls it, and before the import has ended it does nothing.

**Transactions** is what runs on `createPgAdapter`: `unsafe`, `withPgAdvisoryLock`,
and `exec` of a pipeline, that is `batch()`. An action is what happens between two
awaits of a call, or the server's execution of a statement; `pc` of `call` says which
await it is at. `session` is a connection with its side of the server: whose it
is, its transaction, locks and lock_timeout. The pool is modelled from what the
code uses of `pg`: it serves in order, an idle connection first, and an ended one
serves nobody. A section under a lock reads a count and writes one more in its
COMMIT; an exec writes its commands. `Commit` is not `Release`: the reply may be lost. A
statement that fails makes the rest of its transaction fail; the callback throws, as that of
`exec` does when an operation does, or an application's callback of `begin`, `withLock` or
`batch`, or an operation it adds to the pipeline, catches the error (`swallowed`).
A call may be made in the callback of another, on a connection of its own (`Parent`).
`Break` is a connection that breaks under a call, which `begin()` learns from its statement.
`pg` emits an `error` event on the client too, for which `begin()` registers no listener: the
model is of a process with a handler of uncaught exceptions, and goes on. Without one the
process ends; the server then rolls back every open transaction, as `Break` does, and no
call takes another step, so that the safety properties hold of that too.
A loaded import, `getPool` and the request for a connection are one action, since only
microtasks lie between.

**AtomicCalls** is what those promise: one section at a time under a lock, each counting
one more than the last, the commands of an exec visible at once, in order and once,
and success told only of what is committed. `Serialized` is the refinement; a lock is
held in the abstract exactly while a session has it.

**OutboxStream** is `PgOutboxStream` with consumers that run the loop of
README 323-331. A timestamp is the time left until it. `Pick` is the part of claim that
takes the snapshot of NOW() and locks rows, `Claim` its commit and reply;
between the two other statements run, skip the locked rows, or wait for them
(`Ack`). `Append` may be part of a transaction that rolls back. `trim` takes
any set of processed messages, whatever its options. `delivery_count`, `read` and
`pending` change nothing that the rest depends on.

**RateLimit** is the three limiters for one key; a behaviour uses one of them.
A call reads the clock (`Call`), and its statements execute later: two for a
hit or a reward of the fixed window (`CheckBlock`, `HitFixed`; `RewardBlock`,
`RewardWindow`). The sliding hit and consume are one statement each, in two
actions, the snapshot and the commit, because the parts of the statement read the
snapshot and neither its own changes nor those that commit meanwhile. The time unit is
the interval of one refill; tokens are whole, and all clocks agree. `tried`,
`admitted`, `rewarded`, `promised` and `rewound` record what happened, for the properties only.

**Collections** is hashes, sets, sorted sets, lists and counters; a behaviour uses
one of them (`kind`), since their tables and statements are so alike. A row has
an `id` that says which row it is when a member has been removed and added again;
`member` is the field or member, in a list the id, and `value` the value, score or
position. A method is two actions, because its statement sees a snapshot and the
NOW() of its start and changes rows later, under READ COMMITTED: `CallPut` ...
`CallSweep` start one, keeping in `saw` the rows it picked and in `inherit` the
MAX(expires_at) a new row will have; `Put` ... `Sweep` execute it on those of the
rows that still exist (`StillThere`), an upsert on whatever row has its key. A
blocking pop is a loop of pops (`BlockingPop`, `Poll`). `ScanPage` is one page of a
scan, with a count of its own (`Pages`, in halves, since `count` may be zero, negative or a
fraction): `Limit` is the LIMIT of its statement, `Full` the comparison that decides whether
there is another page, which hscan makes with `count` and the others with the limit. Member 0
stands for the empty field or member, after which every first page starts. The other reads
change nothing and are `Visible`. A statement may fail (`Fail`), and a pop may have been
executed when its reply is lost (`LostReply`); of any other statement a lost reply leaves
what its execution does. `popped`,
`given` and the sets in `scan` record what was returned, for the properties only.

**MCCollections**, **MCRateLimit**, **MCTransactions** and **MCKvCache** hold the instances TLC checks. The operators marked "a mutant
of" in the modules are plausible mistakes (a missing reset, an eviction one
too late, ...) which the properties tell from the code.

## Properties and runs

| Run | Checks | Bounds |
|---|---|---|
| KvCoherence | `Coherent`, `CoherenceInv`, `Converges` | two processes, two calls at a time on the reading one (get, delete), one on the writing one (set, expire, clearPrefix), one key, TTL 1, two instants, two writes, one broken connection, under fairness |
| KvFaults | `TypeOK`, `L1Bounded` | every method, one failure of any kind, two keys, `l1.max` 1, use in every listener state, `clearL1OnReconnect` false |
| BunFaults | nine properties, below | the listener in its wrapper: three calls of notify, an import that may fail, TLS with plain fallback, health checks, three failures of any kind, close at any time |
| NodeFaults | five properties, below | four failures of any kind, close at any time |
| Transactions | `TypeOK`, `CleanConnections`, `Serialized`, `Settles` | two calls that are execs or sections under one lock, of which one waits for it and the other tries; a query in the callback of each; pools of two connections, two of them, two commands, one close, one failure of any kind, a lock_timeout for both |
| Outbox | `TypeOK`, `Exclusive`, `NotLost`, `ClaimInv`, `NeverAgain`, `Processed` | two consumers, two messages, batches of one or two, a timeout of two instants, messages available now or later, two failures |
| Collections | `TypeOK`, `ScanComplete`, `PoppedOnce`, `SweptExpired`, `NoneLost`, `PopsEnd` | each kind; two clients; four calls for a sorted set or a counter, three for a hash, a set and a list; two members, of hashes and sets the empty one besides or among them; one key, two where a call concerns both; scans with counts of 0, 1 and 1½; two instants, a TTL of one |
| RateLimits | `TypeOK`, `WithinLimit`, `BlockLasts`, `SlidingBound`, `Metered` | two callers, four calls, costs 1 and 2 on a limit of 2, four instants of which a window is three and a bucket two, short, long and idle blocks |
| KvSetRace, KvReconnectGap, RateFresh, RateSliding | one property each, which is violated: see below | the fewest calls that show it |

A stale entry takes one read, one write and one notification out of order; two
calls on one side and two writes give every order of them, a second key makes
prefix and multi-key operations differ from single ones. KvCoherence leaves out methods
that do to rows and entries what one of its own does (getset, mset, compareAndSwap,
persist, mget, getdel, clearNamespace, the local invalidations) and cleanupExpired, which
removes rows that no read returns: KvFaults has them, and the theorems
cover all of them. Eviction needs one
key more than `l1.max`. In BunListener two failures in a row and one more
after recovery reach every phase with every leftover of the one before.

*Coherent*: while the listener is connected, a process that only calls
methods which store under `l1Generation` or only delete (`Guarded`) serves from
L1 the current row, or an invalidation of it is on its way (sent, or owed by a
call in flight). *Converges*: once no more statements change the table, what
such a process serves is what the table holds. *L1Bounded*: the Map and its
order. Of the Bun listener in its wrapper: *Accounted* (a promise is pending exactly
while its call is in one place of the two queues), *ExecutedOnce* (at most once, in order,
and every resolved one), *OneConnection*, *ConnectedListens*, *KeepsContract*,
*Reconnects*, *LazySettles*, *Released* (after close what is open is ended and "closed" is
reported, and nothing connects again, *ClosedForGood*: not even what was still to be
imported or the timer that `scheduleReconnect` sets after a handler has closed).
*Accounted* and *LazySettles* are about a listener with channels. *LazySettles* names what stays
pending all the same (`Orphaned`): the calls that an early `close()` takes off the wrapper's
queue (117), and those made after that `close()`, during the import or after it, which are queued for a
handle that is never set (82, 104). They are in one place of the queues too, and *Accounted* says which.

Of transactions: *CleanConnections* (a connection has one user from `connect()` to
`release()`, and comes back without a transaction, lock or setting), *Serialized* (the
refinement of AtomicCalls), *Settles* (every call ends, with a lock_timeout for those
that wait, and so does `close()`, except those that are `Hanging`). Hanging is the largest set of calls
that wait for a pool which is ended, for a pool whose connections are all with calls
of the set, or for a call of the set made in their callback: nothing in the code limits how
long `pool.connect()` takes, so that nothing will free them. Two connections are as many as a
holder and a waiter take, so that a call in the holder's section finds none, and as two callbacks
with a call each take, which is the deadlock (without `HeldBy` in `AwaitsOneOf` the run
fails on it); one failure in one of two overlapping calls meets every
await of the other. `Settles` is stated as []<> of "nothing else is under way", which
says the same of calls that are made once and is much cheaper to check.

Of NodeListener: the same *ConnectedListens*, *KeepsContract* and *Reconnects*,
and *OneConnection* (something will always connect it, and no timer replaces a
client that connects or works). Four failures are a loss with all three reports
in each of two attempts and one more of each kind.

Of the outbox: *Exclusive* (no two consumers hold a message by unexpired
claims), *NotLost* (nothing is processed or trimmed undelivered), *NeverAgain*
(what is processed is not claimed again), *Processed* (every committed message
is processed in the end). A third message or consumer adds no new order of claim,
expiry and acknowledgement; the theorems cover any number.

Of the limiters: *WithinLimit* (a fixed window admits the limit and what was
given back, unless a sweep after its end starts it again for late statements),
*BlockLasts* (overlapping blocks last as long as the longest asked for),
*SlidingBound* (the limit and one hit of each caller, which is what is left of
*SlidingLimit*; and a quiet key is admitted), *Metered* (a bucket gives what it held and what time refilled,
and the time that late statements turned back, twice). Four calls fill a window
and exceed it with both callers at once, and let a late one follow a sweep.

Of the collections: *PoppedOnce* (no element is returned by two pops), *SweptExpired*
(a sweep removes nothing that got a longer life after it was picked), *NoneLost* (each
increment returns more than those before), *ScanComplete* (a scan returns all that
was there throughout, but for three things that the code leaves out: the empty field or member, what
follows the first page of an hscan whose count is below 1 or no whole number, and in a list
elements of equal positions), *PopsEnd* (a blocking
pop ends at its deadline, and does not leave elements it could have). A race takes
an element and two calls, the sweep's an expiry and a revival as well: four, which a
sorted set and a counter have; the sweeps of the other kinds are the same statement. Two
instants are before and after an expiry or a deadline, and let the positions of two pushes overlap.

Fairness: the driver and the server answer statements, the event loop handles
what arrives, timers fire, a listener notices a broken connection and tries
again, and a server that can be reached answers. Failures are bounded by
`MaxFaults`, since with endless failures nothing could be promised; `close()`
and calls are never forced. A server that goes silent without breaking the
connection is outside this fairness: the health check has no timeout
(`bun-listen/src/index.ts`:794), so nothing would notice it.

Of the outbox, that transactions end, that consumers claim again and again and
handle what they hold, and that time passes; nobody is forced to trim, or not to die.
Of transactions, that the import ends, a pool gives what it has, statements execute, a
lock_timeout passes and callbacks end.
Of the collections, that statements end, the timer of a blocking pop fires, and time
passes; a statement may fail, which rejects its call. RateLimit has safety properties only.

`CHECK_DEADLOCK FALSE` in the listeners' runs: a closed listener has nothing left to
do; and in those of RateLimit, Collections and Transactions: the calls and the instants are bounded.

## Disagreements found

- **KvSetRace** (`kv-cache.ts`:345, 374, 482, 504, 525). set, mset, compareAndSwap,
  expire and persist store in L1 unconditionally when their reply arrives. If
  another process overwrites the row and its notification is handled before
  that reply, the older value stays until it expires. README 254-256 promises a
  coherent L1.
- **KvReconnectGap** (`kv-cache.ts`:581). "reconnect" is emitted when an attempt
  is scheduled; what is read between it and the next LISTEN may be stale, and
  is not cleared when LISTEN takes effect. README 275-277.
- **RateFresh** (`rate-limit.ts`:494). The first `consume` of every key is refused,
  and takes nothing: the row it inserts is not visible to the other parts of its statement.
  `rate-limit.test.ts`:215 expects it to be admitted, on a mock that does not model that.
- **RateSliding** (`rate-limit.ts`:391). `rate-limit.test.ts`:203 expects the third hit on a
  sliding limit of 2 to be refused, on a mock of the statement; the SUM does not see
  the upsert beside it, so that one caller alone gets the third hit admitted.

- Without a run: two scans that miss elements. The empty field or member is never returned, since the
  first page starts after the empty string (`hash.ts`:218, `set.ts`:208,
  `sorted-set.ts`:249). hscan compares the rows of a page with `count`, though its LIMIT is
  `max(1, floor(count))` (`hash.ts`:225): with a count below 1 or a fraction the first page is
  taken for the last, and with 0 an empty hash makes it throw. `ScanComplete` without
  `r.member # 0` or `scan.whole` fails on them.

- Without a run: calls that never settle. Without channels the queue of the Bun listener is
  not flushed when the connection is ready: `notify()` called before stays pending
  until the next one, or with health checks the first of them (`bun-listen/src/index.ts`:548). A
  `close()` before the import has ended drops the calls in the wrapper's queue (`pubsub.ts`:117), and
  those made after it wait for a handle that is never set (`pubsub.ts`:82, 104), where
  the listener itself would reject them (`bun-listen/src/index.ts`:572). Calls that wait
  for a pool that `close()` ends are never served (`adapters/node.ts`:71). And
  `pool.connect()` has no timeout (`adapters/node.ts`:56): when the callbacks that have all connections of a
  pool each await a call that needs one more (two sections of different locks, a section and an exec, or one with a pool of
  one), none comes back, and the pool is dead. `lockTimeoutMs` does not help, as nobody waits for
  a lock.

- Without a run: the expiry of a collection. A new field, member or element takes
  the greatest `expires_at` its statement's snapshot shows (`hash.ts`:105,
  `set.ts`:77, `sorted-set.ts`:85, `list.ts`:172): beside a concurrent `expire` or `persist`
  it keeps the old one, and the fields of a key have different lives (README 494: "no
  per-field TTL"). If the others have expired and are not yet swept, it is born expired,
  and an update of an expired field is not seen until `persist` or `expire`. The model
  has these states; the properties above hold in spite of them.

- Without a run, since no document says otherwise, or since a run would say no more
  than the line: `batch()` makes a client, whose cache starts an invalidation listener that
  nobody closes, and whose writes leave the L1 of the client it was called on as it was
  (`client.ts`:141); `exec` empties the pipeline first, so that repeating a failed one
  runs nothing and succeeds (`pipeline.ts`:38), while the facade empties its queue last, so that
  a concurrent exec runs commands twice (`redis-aliases.ts`:168); COMMIT after a failed
  statement rolls back without an error, and a callback that hid the failure is told of
  success (`adapters/node.ts`:60); two first calls make two pools of which one is never ended
  (`adapters/node.ts`:37);
  without `lockTimeoutMs` calls that wait for a lock can hold all connections while the
  section of its holder waits for one (`advisory-lock.ts`:98); and
  a failed import, after which `getHealth()` says "connecting" for ever (`pubsub.ts`:124).

The same invariant `KeptCoherent` also fails when the other process calls
`rename` or `unlink` (nothing is published, 675 and 696), or `clearPrefix("")`
(the receivers ignore an empty prefix, 607), when a getset races with a get
of the same process, and when the reply of a `set` with a TTL is late (its
entry outlives the row, 345). These have no run of their own: change `OpsOf`
or `Ttls` of `KvSetRace.cfg` to see them.

## Proofs

| Module | Invariant | Theorems |
|---|---|---|
| KvCacheProofs | `CoherenceInv` | `TypeCorrect`, `Coherence` |
| KvMapProofs | `MapInv` | `MapBounded` |
| OutboxStreamProofs | `ClaimInv` | `TypeCorrect`, `ExclusiveClaims`, `AtLeastOnce`, `ProcessedForGood` |
| NodeListenerProofs | `ListenerInv` | `TypeCorrect`, `AlwaysConnecting`, `ConnectedMeansListening`, `ImplementsContract` |
| BunListenerProofs | `LazyInv` | `TypeCorrect`, `PromisesAccounted`, `ExecutedAtMostOnce`, `AlwaysConnecting`, `ConnectedMeansListening`, `ImplementsContract`, `StaysClosed` |
| TransactionsProofs | `TransactionInv` | `TypeCorrect`, `ConnectionsStayClean`, `ImplementsAtomicCalls` |
| RateLimitProofs | `RateInv`, `SlidingInv` | `TypeCorrect`, `LimitKept`, `BlocksLast`, `SlidingKept`, `BucketMetered` |
| CollectionsProofs | `CollectionInv` | `TypeCorrect`, `PoppedAtMostOnce`, `SweepsExpired`, `NoIncrementLost`, `ScansComplete` |

Each is `Spec => ...` for every value of the constants that satisfies the
assumptions of the module (`ASSUME`), so for any number of processes, calls, failures,
rows and instants. The module of the invariant states it as a theorem too
(`...Invariant`). The assumptions are types, that what is counted is finite, that
`Forever` is later than any expiry, and of the collections that there is a key, that values, scores,
increments and the counts of pops are positive, and that a counter has one row; TLC
evaluates them on every run. Members may be empty and the counts of scans any, so that
`ScansComplete` names its exceptions in the property. A proof has a
lemma per action or group of like actions, and lemmas on the operators before them.
None of the properties is inductive as it stands; what follows is what each needs
besides.

**The cache.** A reply in flight may be about to store a stale
row, and the connection may be about to come up. `CoherenceInv` adds that what
a call with a fresh generation is about to store matches the row or is about
to be invalidated (`InFlightOk`), that a listener without LISTEN has nothing
cached nor in flight (`DownOk`), that cached expiries do not exceed the row's
(`Match`), and which calls a protected process can have in flight (`CallsOk`).
The proof abstracts a step to what one process sees of it (`Preserved`) and then
has one lemma per group of actions: statements, replies, publications, local
calls, the connection.

`Disciplined` names what coherence depends on and the code leaves to its users:
no rename or unlink by anyone; no write with `notify: false`; the cache is not used between "reconnect" and
LISTEN (the gap above); `clearL1OnReconnect`; no crash and no failed `pg_notify`
between a statement and its publication; no empty key or prefix. The cfg of
KvCoherence satisfies it; KvFaults does not, and does not check `Coherent`.

`MapBounded` does not need `Disciplined`. An insertion evicts one entry, the oldest, and
only when there are more than `l1.max`: that this is enough holds because the
places of the entries are exactly 1 to their number (`Ordered`), which every removal
must restore.

**The outbox.** A claim that has picked its
rows writes them later, when its timeout may have passed, and an unexpired claim
is visible to others only through its row. `ClaimInv` adds that it is in the row
until the message is done (`ClaimsKept`), that what an executing claim has picked is with
nobody else (`PickedAlone`), and what a consumer's loop holds (`LoopOk`). Steps that add
nothing to a batch share one lemma (`QuietStep`).

**The listeners.** `ListenerInv` says which flags go with each state of the client
held, and counts what the events to come will still add to `reconnectAttempts`
(`ToCount`), without which the attempts have no bound. In the Bun listener whether
a promise is settled once, or "connected" is true, depends on what is on the wire.
`BunInv` therefore describes the whole conversation: `Fresh` (nothing of a connection
outlives its socket), `Protocol` (an answer is awaited for the query that the server has, and
nothing else is on the wire then), `Answers` (a query answered without an error has been
executed), and that the calls of `notify()` stand in line in their order, each once.
`LazyInv` adds the wrapper: before the import has ended the listener is in its initial
state (`Dormant`) and the calls are in the wrapper's queue (`Waiting`). From these,
each step is one of PgListener or a stutter. For the Bun listener that assumes
`HasChannels`, as without channels there is no LISTEN and nothing to lose; the
cache always has one.

**Transactions.** That a connection is clean when it comes back depends on the phase
of the call that has it. `TransactionInv` says for each phase what is true of the call's record
(`CallOk`) and of its connection (`HeldOk`: its transaction is begun and its lock held
where the code believes so, unless the connection is broken), that nobody else
has that connection (`Users`), that a waiting call is in one queue once, that a section that
can still commit has read the last count (`SawLast`), and that commands are in one
batch each. `ImplementsAtomicCalls` takes the actions one by one: all but the COMMITs and the
ends of calls are stutters of AtomicCalls.

**The limiters.** `RateInv` relates what was admitted to the row that counts it, as long as the
row lasts (`RowsLast`, `AdmittedCounted`), a promise of `block` to the row
that keeps it (`BlockHeld`), and the tokens to the time (`Metered` is inductive with
these). The bound of a sliding window is one of sums: `SlidingInv` says that there is room for the
hits that were let pass and not counted yet, one at most for each caller (`RoomLeft`),
and that the rows of any window count no more than what was asked for in it
(`AskedFor`), so that a refusal is justified. `Total` is a fold of the community
modules; the lemmas from `AddsUp` to `TotalZero` derive what sums do from its
definition (any term can be taken out, a sum is monotone, and so on).

**The collections.** `CollectionInv` says that ids are never given twice and that the
primary key holds, that a popped element's row is gone and a returned count is no more
than its row still has (`Returned`), what each statement in flight has picked
(`CallOk`), and that a scan has returned all that is due up to its
cursor (`Scanned`). That a page of `LIMIT` n exists, and is the first n rows, is proved from
well-foundedness (`FirstExists`, `FirstSetExists`).

TLC has checked the parts that the proofs add on small instances. Only model-checked:
the liveness properties (`Converges`, `Reconnects`, `LazySettles`, `Released` but for its
safety half `ClosedForGood`, `Settles`, `Processed`, `PopsEnd`), since liveness under fairness is out of the prover's reach, and
the violations, which are single behaviours.

## Plan

To prove next: a guarded process's coherence as a refinement, of a cache that is a plain
copy of the table but for invalidations on their way; that a pop returns the elements at the end it
pops from; that a bucket whose clocks agree is metered without `rewound`; what
`Disciplined` can do without when only one process writes.

## Not modelled

- The queue facade (`queue.ts`): it starts and stops pg-boss, which keeps the queue. Its lazy
  start has the race of `getPool`; `stats()` of a client starts a stopped queue again
  (`client.ts`:153).
- The cleanup worker (`client.ts`): a timer that calls the `cleanupExpired` of every part,
  each of them an action of its module.
- The redis facades, web adapters, metrics and SQL helpers: they keep no state
  beyond what is said of the pipeline facade above, and rename, convert and format.
- DSN parsing, SCRAM arithmetic, message framing, pattern translation, the hash of lock
  keys: functions of their arguments that unit tests reach.
- `ensureSchema` and `CREATE TABLE` under concurrent starts; a pool that the caller
  gives (its life is the caller's); a ROLLBACK that fails on a connection that survives it
  (`query_timeout` of pg), which would come back to the pool with its transaction.
