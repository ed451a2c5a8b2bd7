------------------------------- MODULE KvCache -------------------------------
(***************************************************************************)
(* PgKvCache (src/packages/pgredis/src/kv-cache.ts): a key/value table in  *)
(* PostgreSQL shared by several processes, each with an in-memory L1 cache *)
(* kept coherent by LISTEN/NOTIFY.                                         *)
(*                                                                         *)
(* A value is the revision of the statement that wrote the row: expire and *)
(* persist write a revision too, since they change what a cache must hold. *)
(* A call is asynchronous: its statement executes at one moment            *)
(* ("replied"), the code after the await runs at a later one (Reply), and  *)
(* pg_notify is a second statement (Publish).  Other calls, notifications  *)
(* and connection events of the same process may come in between.          *)
(*                                                                         *)
(* l1Generation is only ever compared with the value captured before a     *)
(* statement, and only grows: "fresh" in a call record says that it has    *)
(* not grown since the call captured it.                                   *)
(***************************************************************************)
EXTENDS Integers, Sequences, FiniteSets, Functions

CONSTANTS
    Instances,          \* the PgKvCache objects, one per process
    Keys,               \* the keys of the namespace
    Matching,           \* [prefix -> the keys it matches]; "" may be a prefix
    Calls,              \* the concurrent calls there may be
    Home,               \* [Calls -> Instances]: who makes them
    OpsOf,              \* [Instances -> SUBSET OpKinds]: the methods it calls
    NotifyChoices,      \* the values of the per-call option notify
    Ttls,               \* the values of ttlMs other than null
    L1Enabled,          \* the instances whose option l1 is not false
    L1Max,              \* option l1.max
    L1Ttl,              \* option l1.ttlMs; 0 is no local expiry
    ClearL1OnReconnect, \* option clearL1OnReconnect
    UsedWhile,          \* the listener states in which callers use the cache
    Faults,             \* the kinds of failure that happen
    MaxFaults,          \* bound: failures in a behaviour
    MaxWrites,          \* bound: statements that change the table
    MaxTime,            \* bound: the last instant
    Forever             \* the expiry of what never expires (null)

OpKinds == {"get", "mget", "set", "mset", "delete", "clearPrefix",
            "clearNamespace", "cleanupExpired", "compareAndSwap", "expire",
            "persist", "rename", "unlink", "getset", "getdel", "invalidate",
            "invalidateAll", "stats", "startListener", "stopListener"}

FaultKinds == {"statement", "reply", "publish", "crash", "disconnect", "connect"}

\* "down" is reconnecting; "lost" is a loss the listener has not noticed.
ConnStates == {"off", "starting", "down", "up", "lost"}

Prefixes == DOMAIN Matching

ASSUME FiniteAssumption == IsFiniteSet(Keys)
ASSUME CallsAssumption == /\ Home \in [Calls -> Instances]
                          /\ OpsOf \in [Instances -> SUBSET OpKinds]
                          /\ NotifyChoices \subseteq BOOLEAN
                          /\ Faults \subseteq FaultKinds
ASSUME NamesAssumption == /\ Keys \subseteq STRING
                          /\ Prefixes \subseteq STRING
                          /\ Matching \in [Prefixes -> SUBSET Keys]
ASSUME OptionsAssumption == /\ L1Enabled \subseteq Instances
                            /\ L1Max \in Nat \ {0}
                            /\ L1Ttl \in Nat
                            /\ ClearL1OnReconnect \in BOOLEAN
                            /\ UsedWhile \subseteq ConnStates
ASSUME BoundsAssumption == /\ MaxFaults \in Nat
                           /\ MaxWrites \in Nat
                           /\ MaxTime \in Nat
ASSUME TimeAssumption == /\ Ttls \subseteq Nat
                         /\ Forever \in Nat
                         /\ MaxTime + L1Ttl < Forever
                         /\ \A t \in Ttls : MaxTime + t < Forever

VARIABLES
    row,    \* [Keys -> Rows]: the table
    now,    \* the clock, the same for the server and the processes
    rev,    \* the statements that changed the table so far
    l1,     \* [Instances -> [Keys -> Entries]]: the Map of each process
    call,   \* [Calls -> CallRecords]: the calls in flight
    inbox,  \* [Instances -> Seq(Notifications)]: sent, not yet handled
    conn,   \* [Instances -> ConnStates]: the invalidation listener
    faults  \* the failures so far

vars == <<row, now, rev, l1, call, inbox, conn, faults>>

Rows == [rev : Nat, exp : Nat]
NoRow == [rev |-> 0, exp |-> 0]                 \* exp 0: never live
NoRows == [k \in Keys |-> NoRow]
Entries == [rev : Nat, exp : Nat, pos : Nat]    \* pos: insertion order, 1 oldest
NoEntry == [rev |-> 0, exp |-> 0, pos |-> 0]
EmptyL1 == [k \in Keys |-> NoEntry]

NotifyOps == {"none", "set", "delete", "clearPrefix", "clearNamespace"}
Notifications == [op : NotifyOps, arg : Keys \cup Prefixes \cup {""}]
NoNote == [op |-> "none", arg |-> ""]

CallRecords == [pc : {"idle", "issued", "replied", "publish"},
                op : OpKinds \cup {"none"},
                rows : [Keys -> Rows],     \* what the statement returned
                store : SUBSET Keys,       \* keys given to setL1
                drop : SUBSET Keys,        \* keys given to deleteL1
                ttl : Nat,                 \* ttlMs, Forever for null
                note : Notifications,      \* what is published, or NoNote
                fresh : BOOLEAN]           \* l1Generation as captured
Idle == [pc |-> "idle", op |-> "none", rows |-> NoRows, store |-> {},
         drop |-> {}, ttl |-> 0, note |-> NoNote, fresh |-> TRUE]


-----------------------------------------------------------------------------
(* The table.                                                              *)

Live(k) == row[k].exp > now
Present(k) == row[k] # NoRow

\* The expiry ttlMs from now; null is no expiry.
After(ttl) == IF ttl = Forever THEN Forever ELSE now + ttl

TtlChoices == Ttls \cup {Forever}

\* The keys a notification makes its receiver delete: none if the key or the
\* prefix it should name is "".
Names(note) == note.op = "clearNamespace" \/ note.arg # ""
AffectedByKey(note) ==         \* a mutant of Affected: only keys are invalidated
    IF note.op \in {"set", "delete"} THEN {note.arg} ELSE {}
Affected(note) ==
    CASE note.op \in {"set", "delete"} /\ Names(note) -> {note.arg}
      [] note.op = "clearPrefix" /\ Names(note) -> Matching[note.arg]
      [] note.op = "clearNamespace" -> Keys
      [] OTHER -> {}

\* The notification of a call whose option notify has the value n.
NoteOfMethod(n, o, a) ==       \* a mutant of Note: an op nobody knows
    IF n THEN [op |-> "mset", arg |-> a] ELSE NoNote
Note(n, o, a) == IF n THEN [op |-> o, arg |-> a] ELSE NoNote

-----------------------------------------------------------------------------
(* The Map of a process.  Its iteration order is insertion order; a hit    *)
(* re-inserts, and enforceL1Max deletes the oldest.                        *)

Cached(cache) == {k \in Keys : cache[k] # NoEntry}
Expired(cache) == {k \in Cached(cache) : cache[k].exp <= now}

\* The Map that keeps the keys of stay in their order and then inserts the
\* keys of DOMAIN place, each at its place, with the entries given.
Reinsert(cache, stay, place, given) ==
    [k \in Keys |->
        IF k \in stay
        THEN [cache[k] EXCEPT !.pos =
                Cardinality({x \in stay : cache[x].pos <= cache[k].pos})]
        ELSE IF k \in DOMAIN place
        THEN [rev |-> given[k].rev, exp |-> given[k].exp,
              pos |-> Cardinality(stay) + place[k]]
        ELSE NoEntry]

\* The orders in which a loop may insert the keys of K.
Places(K) == Injection(K, 1..Cardinality(K))

\* A mutant of Evict: one entry too many stays.
EvictLate(cache) ==
    LET over == Cardinality(Cached(cache)) - L1Max - 1
    IN  IF over <= 0 THEN cache
        ELSE [k \in Keys |-> IF cache[k].pos <= over THEN NoEntry
                             ELSE [cache[k] EXCEPT !.pos = @ - over]]

\* enforceL1Max: the oldest entries beyond l1Max are deleted.
Evict(cache) ==
    LET over == Cardinality(Cached(cache)) - L1Max
    IN  IF over <= 0 THEN cache
        ELSE [k \in Keys |-> IF cache[k].pos <= over THEN NoEntry
                             ELSE [cache[k] EXCEPT !.pos = @ - over]]

\* The deletion of the keys of D.
Without(cache, D) == Reinsert(cache, Cached(cache) \ D, [k \in {} |-> 0], cache)

\* setL1 for the keys of K, one after another: an entry expires with the row
\* or l1TtlMs from now, whichever is first; what has expired is deleted (of
\* the orders mget may meet the rows in, one that has the expired ones first).
L1ExpiryLocal(exp) == now + L1Ttl      \* a mutant of L1Expiry: forgets the row's
L1Expiry(exp) == IF L1Ttl = 0 \/ exp <= now + L1Ttl THEN exp ELSE now + L1Ttl
SetL1(cache, K, given, place) ==
    LET entries == [k \in Keys |-> [rev |-> given[k].rev, exp |-> L1Expiry(given[k].exp)]]
    IN  Evict(Reinsert(cache, Cached(cache) \ K, place, entries))
Storable(K, given) == {k \in K : L1Expiry(given[k].exp) > now}

\* getL1 for the keys of K: a hit becomes the youngest entry, an expired
\* entry is deleted.
Hits(cache, K) == {k \in K : cache[k].exp > now}
GetL1(cache, K, place) == Reinsert(cache, Cached(cache) \ K, place, cache)

-----------------------------------------------------------------------------
(* Calls and their steps.                                                  *)

\* The methods that capture l1Generation before their first statement.
Capturing == {"get", "mget", "getset"}

\* The methods that keep the expiry of a row relative to the caller's clock.
Relative == {"set", "mset", "compareAndSwap"}

OutdatedNever(calls, i) == calls       \* a mutant of Outdated: it does not grow

\* l1Generation of i grows: what the calls of i captured is outdated.
Outdated(calls, i) ==
    [c \in Calls |-> IF Home[c] = i /\ calls[c].op \in Capturing
                     THEN [calls[c] EXCEPT !.fresh = FALSE] ELSE calls[c]]

CanUse(i, op) == /\ op \in OpsOf[i]
                 /\ conn[i] \in UsedWhile

CanCall(c, op) == call[c].pc = "idle" /\ CanUse(Home[c], op)

\* The rows of K that a statement returns.
Returned(rows, K) == [k \in Keys |-> IF k \in K THEN rows[k] ELSE NoRow]

\* The record of a call whose statement has executed.
Replied(op, store, drop, rows, ttl, note) ==
    [pc |-> "replied", op |-> op, rows |-> Returned(rows, store), store |-> store,
     drop |-> drop, ttl |-> ttl, note |-> note, fresh |-> TRUE]

\* The statement of call c changes the table to newRow.
Write(c, newRow, reply) ==
    /\ rev < MaxWrites
    /\ rev' = rev + 1
    /\ row' = newRow
    /\ call' = [call EXCEPT ![c] = reply]
    /\ UNCHANGED <<now, l1, inbox, conn, faults>>

\* The statement of call c changes nothing.
NoWrite(c, reply) ==
    /\ call' = [call EXCEPT ![c] = reply]
    /\ UNCHANGED <<row, now, rev, l1, inbox, conn, faults>>

Revision(exp) == [rev |-> rev + 1, exp |-> exp]
Put(K, exp) == [k \in Keys |-> IF k \in K THEN Revision(exp) ELSE row[k]]
Deleted(K) == [k \in Keys |-> IF k \in K THEN NoRow ELSE row[k]]

Init ==
    /\ row = NoRows
    /\ now = 1
    /\ rev = 0
    /\ l1 = [i \in Instances |-> EmptyL1]
    /\ call = [c \in Calls |-> Idle]
    /\ inbox = [i \in Instances |-> <<>>]
    /\ conn = [i \in Instances |-> "starting"]
    /\ faults = 0

-----------------------------------------------------------------------------
(* Reads.                                                                  *)

\* get and mget up to the await: L1 first, then the missing keys are asked
\* of the table.
Get(c, K) ==
    LET i == Home[c]
        missing == K \ Hits(l1[i], K)
    IN  /\ CanCall(c, "mget") \/ (CanCall(c, "get") /\ Cardinality(K) = 1)
        /\ \E place \in Places(Hits(l1[i], K)) :
              l1' = [l1 EXCEPT ![i] = GetL1(@, K, place)]
        /\ call' = IF missing = {} THEN call
                   ELSE [call EXCEPT ![c] = [Idle EXCEPT !.pc = "issued", !.op = "get",
                                                         !.store = missing]]
        /\ UNCHANGED <<row, now, rev, inbox, conn, faults>>

\* The SELECT of get and mget; the keys it does not find are deleted from L1.
Select(c) ==
    LET found == {k \in call[c].store : Live(k)}
    IN  /\ call[c].pc = "issued" /\ call[c].op = "get"
        /\ NoWrite(c, [call[c] EXCEPT !.pc = "replied", !.rows = Returned(row, found),
                                      !.store = found, !.drop = call[c].store \ found])

-----------------------------------------------------------------------------
(* Writes.                                                                 *)

\* set, with setex, psetex and setnx.
Set(c, k, mode, ttl, n) ==
    /\ CanCall(c, "set")
    /\ IF mode = "always" \/ (mode = "nx" /\ ~Live(k)) \/ (mode = "xx" /\ Live(k))
       THEN Write(c, Put({k}, After(ttl)),
                  Replied("set", {k}, {}, Put({k}, After(ttl)), ttl, Note(n, "set", k)))
       ELSE NoWrite(c, Replied("set", {}, IF mode = "xx" THEN {k} ELSE {}, NoRows, ttl, NoNote))

Mset(c, K, ttl, n) ==
    /\ CanCall(c, "mset")
    /\ Write(c, Put(K, After(ttl)),
             Replied("mset", K, {}, Put(K, After(ttl)), ttl, Note(n, "clearNamespace", "")))

\* matches: the row holds the expected value.
CompareAndSwap(c, k, expectedMissing, matches, ttl, n) ==
    /\ CanCall(c, "compareAndSwap")
    /\ IF IF expectedMissing THEN ~Live(k) ELSE Live(k) /\ matches
       THEN Write(c, Put({k}, After(ttl)),
                  Replied("compareAndSwap", {k}, {}, Put({k}, After(ttl)), ttl, Note(n, "set", k)))
       ELSE NoWrite(c, Replied("compareAndSwap", {}, {k}, NoRows, ttl, NoNote))

\* expire (ttl a number) and persist (ttl null).
Expire(c, k, ttl, n) ==
    LET op == IF ttl = Forever THEN "persist" ELSE "expire"
    IN  /\ CanCall(c, op)
        /\ IF Live(k)
           THEN Write(c, Put({k}, After(ttl)),
                      Replied(op, {k}, {}, Put({k}, After(ttl)), ttl, Note(n, "set", k)))
           ELSE NoWrite(c, Replied(op, {}, {k}, NoRows, ttl, NoNote))

\* getset up to the await of the transaction, and its commit.
Getset(c, k) ==
    /\ CanCall(c, "getset")
    /\ NoWrite(c, [Idle EXCEPT !.pc = "issued", !.op = "getset", !.store = {k}])

Commit(c) ==
    /\ call[c].pc = "issued" /\ call[c].op = "getset"
    /\ \E k \in call[c].store :
         LET newRow == Put({k}, Forever)
         IN  Write(c, newRow, [call[c] EXCEPT !.pc = "replied", !.rows = Returned(newRow, {k}),
                                              !.note = Note(TRUE, "set", k)])

Delete(c, k, n) ==
    /\ CanCall(c, "delete")
    /\ Write(c, Deleted({k}), Replied("delete", {}, {k}, NoRows, 0, Note(n, "delete", k)))

\* getdel publishes only what it has deleted.
Getdel(c, k) ==
    /\ CanCall(c, "getdel")
    /\ IF Present(k)
       THEN Write(c, Deleted({k}), Replied("getdel", {}, {k}, NoRows, 0, Note(TRUE, "delete", k)))
       ELSE NoWrite(c, Replied("getdel", {}, {k}, NoRows, 0, NoNote))

\* Only the keys whose rows are deleted are dropped from the caller's L1.
ClearPrefix(c, p, n) ==
    /\ CanCall(c, "clearPrefix")
    /\ Write(c, Deleted(Matching[p]),
             Replied("clearPrefix", {}, {k \in Matching[p] : Present(k)}, NoRows, 0,
                     Note(n, "clearPrefix", p)))

ClearNamespace(c, n) ==
    /\ CanCall(c, "clearNamespace")
    /\ Write(c, Deleted(Keys),
             Replied("clearNamespace", {}, Keys, NoRows, 0, Note(n, "clearNamespace", "")))

\* K: the expired rows that the limit lets the statement delete.
CleanupExpired(c, K) ==
    /\ CanCall(c, "cleanupExpired")
    /\ \A k \in K : Present(k) /\ ~Live(k)
    /\ LET reply == Replied("cleanupExpired", {}, K, NoRows, 0, NoNote)
       IN  IF K = {} THEN NoWrite(c, reply) ELSE Write(c, Deleted(K), reply)

Unlink(c, K) ==
    /\ CanCall(c, "unlink")
    /\ Write(c, Deleted(K), Replied("unlink", {}, {k \in K : Present(k)}, NoRows, 0, NoNote))

\* rename to a key whose row exists may also fail on the primary key, which
\* changes nothing: the statement does not order its DELETE and its UPDATE.
Rename(c, k, to) ==
    /\ CanCall(c, "rename")
    /\ k # to
    /\ IF Live(k)
       THEN Write(c, [Deleted({k}) EXCEPT ![to] = Revision(row[k].exp)],
                  Replied("rename", {}, {k, to}, NoRows, 0, NoNote))
       ELSE NoWrite(c, Replied("rename", {}, {}, NoRows, 0, NoNote))

-----------------------------------------------------------------------------
(* After the await.                                                        *)

\* The reply of a statement: setL1 for the keys of store, unless the call
\* captured an outdated l1Generation; then deleteL1 for the keys of drop;
\* then pg_notify is sent, or the call is over.
Reply(c) ==
    LET i == Home[c]
        r == call[c]
        given == [k \in Keys |-> IF r.op \in Relative
                                 THEN [rev |-> r.rows[k].rev, exp |-> After(r.ttl)]
                                 ELSE r.rows[k]]
        stored == IF i \in L1Enabled /\ (r.op \in Capturing => r.fresh) THEN r.store ELSE {}
        dropped(cache) == r.drop \cup (IF r.op = "cleanupExpired" THEN Expired(cache) ELSE {})
        calls == IF r.drop = {} THEN call ELSE Outdated(call, i)
    IN  /\ r.pc = "replied"
        /\ \E place \in Places(Storable(stored, given)) :
             LET cache == SetL1(l1[i], stored, given, place)
             IN  l1' = [l1 EXCEPT ![i] = Without(cache, dropped(cache))]
        /\ call' = [calls EXCEPT ![c] = IF r.note = NoNote THEN Idle
                                        ELSE [Idle EXCEPT !.pc = "publish", !.note = r.note]]
        /\ UNCHANGED <<row, now, rev, inbox, conn, faults>>

\* pg_notify executes: every listening connection but the sender's own, which
\* ignores it (senderId), gets the notification.
Publish(c) ==
    /\ call[c].pc = "publish"
    /\ inbox' = [i \in Instances |-> IF i # Home[c] /\ conn[i] = "up"
                                     THEN Append(inbox[i], call[c].note) ELSE inbox[i]]
    /\ call' = [call EXCEPT ![c] = Idle]
    /\ UNCHANGED <<row, now, rev, l1, conn, faults>>

-----------------------------------------------------------------------------
(* Invalidation.                                                           *)

\* handleNotification.
HandleNotification(i) ==
    LET gone == Affected(Head(inbox[i]))
    IN  /\ inbox[i] # <<>>
        /\ inbox' = [inbox EXCEPT ![i] = Tail(@)]
        /\ l1' = [l1 EXCEPT ![i] = Without(@, gone)]
        /\ call' = IF Names(Head(inbox[i])) THEN Outdated(call, i) ELSE call
        /\ UNCHANGED <<row, now, rev, conn, faults>>

Invalidate(i, k) ==
    /\ CanUse(i, "invalidate")
    /\ l1' = [l1 EXCEPT ![i] = Without(@, {k})]
    /\ call' = Outdated(call, i)
    /\ UNCHANGED <<row, now, rev, inbox, conn, faults>>

InvalidateAll(i) ==
    /\ CanUse(i, "invalidateAll")
    /\ l1' = [l1 EXCEPT ![i] = EmptyL1]
    /\ call' = Outdated(call, i)
    /\ UNCHANGED <<row, now, rev, inbox, conn, faults>>

\* stats sweeps the expired entries.
Stats(i) ==
    /\ CanUse(i, "stats")
    /\ l1' = [l1 EXCEPT ![i] = Without(@, Expired(@))]
    /\ UNCHANGED <<row, now, rev, call, inbox, conn, faults>>

-----------------------------------------------------------------------------
(* The listener's connection.                                              *)

ReconnectKeepingL1(i) ==       \* a mutant of Reconnect
    conn' = [conn EXCEPT ![i] = "down"] /\ UNCHANGED <<l1, call>>
\* The listener says "reconnect" when it notices the loss of its connection
\* and again whenever an attempt fails, never when it is listening again.
Reconnect(i) ==
    /\ conn' = [conn EXCEPT ![i] = "down"]
    /\ IF ClearL1OnReconnect
       THEN l1' = [l1 EXCEPT ![i] = EmptyL1] /\ call' = Outdated(call, i)
       ELSE UNCHANGED <<l1, call>>

NoticeClose(i) ==
    /\ conn[i] = "lost" /\ inbox[i] = <<>>
    /\ Reconnect(i)
    /\ UNCHANGED <<row, now, rev, inbox, faults>>

Listening(i) ==
    /\ conn[i] \in {"starting", "down"}
    /\ conn' = [conn EXCEPT ![i] = "up"]
    /\ UNCHANGED <<row, now, rev, l1, call, inbox, faults>>

\* startInvalidationListener closes the previous listener first.
StartListener(i) ==
    /\ CanUse(i, "startListener")
    /\ conn' = [conn EXCEPT ![i] = "starting"]
    /\ inbox' = [inbox EXCEPT ![i] = <<>>]
    /\ UNCHANGED <<row, now, rev, l1, call, faults>>

StopListener(i) ==
    /\ CanUse(i, "stopListener")
    /\ conn' = [conn EXCEPT ![i] = "off"]
    /\ inbox' = [inbox EXCEPT ![i] = <<>>]
    /\ UNCHANGED <<row, now, rev, l1, call, faults>>

-----------------------------------------------------------------------------
(* Failures.                                                               *)

Fault(f) == f \in Faults /\ faults < MaxFaults /\ faults' = faults + 1

\* The connection breaks: what it has not delivered of the inbox is lost.
Disconnect(i) ==
    /\ Fault("disconnect")
    /\ conn[i] = "up"
    /\ conn' = [conn EXCEPT ![i] = "lost"]
    /\ \E n \in 0..Len(inbox[i]) : inbox' = [inbox EXCEPT ![i] = SubSeq(@, 1, n)]
    /\ UNCHANGED <<row, now, rev, l1, call>>

ConnectFails(i) ==
    /\ Fault("connect")
    /\ conn[i] \in {"starting", "down"}
    /\ Reconnect(i)
    /\ UNCHANGED <<row, now, rev, inbox>>

\* A call throws: its statement failed before it changed anything, or its
\* reply was lost after the commit, or pg_notify failed.
Throw(c) ==
    /\ \/ call[c].pc = "issued" /\ Fault("statement")
       \/ call[c].pc = "replied" /\ Fault("reply")
       \/ call[c].pc = "publish" /\ Fault("publish")
    /\ call' = [call EXCEPT ![c] = Idle]
    /\ UNCHANGED <<row, now, rev, l1, inbox, conn>>

\* The process dies and starts again: an empty L1, no calls, a new listener.
Crash(i) ==
    /\ Fault("crash")
    /\ l1' = [l1 EXCEPT ![i] = EmptyL1]
    /\ call' = [c \in Calls |-> IF Home[c] = i THEN Idle ELSE call[c]]
    /\ inbox' = [inbox EXCEPT ![i] = <<>>]
    /\ conn' = [conn EXCEPT ![i] = "starting"]
    /\ UNCHANGED <<row, now, rev>>

Tick ==
    /\ now < MaxTime
    /\ now' = now + 1
    /\ UNCHANGED <<row, rev, l1, call, inbox, conn, faults>>

-----------------------------------------------------------------------------
(* The specification.                                                      *)

Statement(c) ==
    \/ \E K \in SUBSET Keys \ {{}} : Get(c, K)
    \/ Select(c)
    \/ \E k \in Keys, ttl \in TtlChoices, n \in NotifyChoices :
         \/ \E mode \in {"always", "nx", "xx"} : Set(c, k, mode, ttl, n)
         \/ \E expectedMissing, matches \in BOOLEAN :
              CompareAndSwap(c, k, expectedMissing, matches, ttl, n)
         \/ Expire(c, k, ttl, n)
    \/ \E K \in SUBSET Keys \ {{}}, ttl \in TtlChoices, n \in NotifyChoices : Mset(c, K, ttl, n)
    \/ \E k \in Keys : Getset(c, k) \/ Getdel(c, k)
    \/ Commit(c)
    \/ \E k \in Keys, n \in NotifyChoices : Delete(c, k, n)
    \/ \E p \in Prefixes, n \in NotifyChoices : ClearPrefix(c, p, n)
    \/ \E n \in NotifyChoices : ClearNamespace(c, n)
    \/ \E K \in SUBSET Keys : CleanupExpired(c, K)
    \/ \E K \in SUBSET Keys \ {{}} : Unlink(c, K)
    \/ \E k, to \in Keys : Rename(c, k, to)

Connection(i) ==
    \/ NoticeClose(i)
    \/ Listening(i)
    \/ StartListener(i)
    \/ StopListener(i)
    \/ Disconnect(i)
    \/ ConnectFails(i)
    \/ Crash(i)

Local(i) ==
    \/ HandleNotification(i)
    \/ \E k \in Keys : Invalidate(i, k)
    \/ InvalidateAll(i)
    \/ Stats(i)

Next ==
    \/ \E c \in Calls : Statement(c) \/ Reply(c) \/ Publish(c) \/ Throw(c)
    \/ \E i \in Instances : Local(i) \/ Connection(i)
    \/ Tick

Spec == Init /\ [][Next]_vars

\* The driver and the server answer every statement, the event loop handles
\* every notification, the listener notices a loss and reconnects.
Fairness ==
    /\ \A c \in Calls : WF_vars(Select(c) \/ Commit(c)) /\ WF_vars(Reply(c)) /\ WF_vars(Publish(c))
    /\ \A i \in Instances : /\ WF_vars(HandleNotification(i))
                            /\ WF_vars(NoticeClose(i))
                            /\ WF_vars(Listening(i))

FairSpec == Spec /\ Fairness

-----------------------------------------------------------------------------
(* Properties.                                                             *)

\* Type correctness of the state PgKvCache and the table keep.
TypeOK ==
    /\ row \in [Keys -> Rows]
    /\ now \in Nat
    /\ rev \in Nat
    /\ l1 \in [Instances -> [Keys -> Entries]]
    /\ call \in [Calls -> CallRecords]
    /\ inbox \in [Instances -> Seq(Notifications)]
    /\ conn \in [Instances -> ConnStates]
    /\ faults \in Nat

\* The Map never holds more than l1.max entries, and its order is a total
\* order of exactly the entries (getL1, setL1, enforceL1Max).
L1Bounded ==
    \A i \in Instances :
        LET cached == Cached(l1[i])
        IN  /\ Cardinality(cached) <= L1Max
            /\ {l1[i][k].pos : k \in cached} = 1..Cardinality(cached)
            /\ i \notin L1Enabled => cached = {}

\* The methods after which the caller's L1 stays coherent whatever other
\* processes do: they store under the guard of l1Generation, or only delete.
Guarded == {"get", "mget", "delete", "getdel", "clearPrefix", "clearNamespace",
            "cleanupExpired", "invalidate", "invalidateAll", "stats"}
Protected(i) == OpsOf[i] \subseteq Guarded

\* An invalidation of k is on its way to i: sent, or to be published by a
\* call of another instance, or to be made by a call of its own.
Pending(i, k) ==
    \/ \E n \in DOMAIN inbox[i] : k \in Affected(inbox[i][n])
    \/ \E c \in Calls : /\ Home[c] # i
                        /\ call[c].pc \in {"replied", "publish"}
                        /\ k \in Affected(call[c].note)
    \/ \E c \in Calls : /\ Home[c] = i
                        /\ call[c].pc = "replied"
                        /\ k \in call[c].drop

\* What a get of k at i would serve from L1 is the row as it is now.
Current(i, k) == Live(k) /\ l1[i][k].rev = row[k].rev
Served(i, k) == l1[i][k].exp > now

\* While its listener is connected, what an instance that only calls guarded
\* methods serves from L1 is the current row, or its invalidation is on its
\* way (README.md: the listener keeps the local L1 cache coherent).
Coherent ==
    \A i \in Instances : Protected(i) /\ conn[i] = "up" =>
        \A k \in Keys : Served(i, k) => Current(i, k) \/ Pending(i, k)

\* The reply of a write of k by i itself is on its way.
OwnWrite(i, k) ==
    \E c \in Calls : /\ Home[c] = i
                    /\ call[c].pc = "replied" /\ call[c].op # "get"
                    /\ k \in call[c].store

\* README.md:254: a listener keeps the local L1 cache coherent across
\* processes, whatever methods they call.
KeptCoherent ==
    \A i \in Instances : conn[i] = "up" =>
        \A k \in Keys : Served(i, k) => Current(i, k) \/ Pending(i, k) \/ OwnWrite(i, k)

\* The inductive invariant behind Coherent.  Match: what is known of a row is
\* its current revision, and expires no later than the row.
Match(known, k) == known.rev = row[k].rev /\ known.exp <= row[k].exp

\* A cached entry matches its row, or its invalidation is on its way.
CacheOk(i) ==
    conn[i] = "up" =>
        \A k \in Keys : l1[i][k].exp > now => Match(l1[i][k], k) \/ Pending(i, k)

\* So does what a call is about to store under an l1Generation that has not
\* grown since the call captured it.
CapturedFresh(i, c) == Home[c] = i /\ call[c].op \in Capturing /\ call[c].fresh
InFlightOk(i) ==
    conn[i] = "up" =>
        \A c \in Calls : CapturedFresh(i, c) /\ call[c].pc = "replied" =>
            \A k \in call[c].store :
                call[c].rows[k].exp > now => Match(call[c].rows[k], k) \/ Pending(i, k)

\* Nothing is cached, or about to be, when LISTEN takes effect.
DownOk(i) ==
    conn[i] \in {"starting", "down"} =>
        /\ \A k \in Keys : l1[i][k].exp = 0
        /\ \A c \in Calls : ~CapturedFresh(i, c)

\* A protected instance only has calls of guarded methods in flight.
CallsOk ==
    \A c \in Calls : Protected(Home[c]) =>
        /\ call[c].op \in Guarded \cup {"none"}
        /\ call[c].pc = "replied" /\ call[c].op \notin Capturing => call[c].store = {}

CoherenceInv ==
    /\ CallsOk
    /\ \A i \in Instances : Protected(i) => CacheOk(i) /\ InFlightOk(i) /\ DownOk(i)

\* Once no statement changes the table any more, every protected L1 serves
\* what the table holds (handleNotification and the generation guard).
Converges ==
    \A i \in Instances : Protected(i) =>
        <>[](\A k \in Keys : Served(i, k) => Current(i, k))
=============================================================================
