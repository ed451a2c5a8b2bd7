--------------------------- MODULE KvCacheProofs ---------------------------
(***************************************************************************)
(* What holds of PgKvCache for every number of processes, keys and calls:  *)
(* type correctness, and coherence of the L1 caches under the conditions   *)
(* of Disciplined.                                                         *)
(***************************************************************************)
EXTENDS KvCache, FiniteSetTheorems, TLAPS

Caches == [Keys -> Entries]

\* A set of keys is finite.
LEMMA CardinalityType ==
    ASSUME NEW K \in SUBSET Keys
    PROVE  IsFiniteSet(K) /\ Cardinality(K) \in Nat
  BY FiniteAssumption, FS_Subset, FS_CardinalityType

\* Two entries say the same of their key; only their positions may differ.
Same(e, f) == e.rev = f.rev /\ e.exp = f.exp

\* Every key that place inserts is given an entry.
Given(place, given) ==
    \A k \in DOMAIN place : place[k] \in Nat /\ given[k].rev \in Nat /\ given[k].exp \in Nat

\* new keeps the entries of stay, takes those of place and deletes the others.
Reinserted(new, cache, stay, place, given) ==
    /\ new \in Caches
    /\ \A k \in Keys :
         /\ k \in stay => Same(new[k], cache[k])
         /\ k \notin stay /\ k \in DOMAIN place => Same(new[k], given[k])
         /\ k \notin stay /\ k \notin DOMAIN place => new[k] = NoEntry

\* Reinsert does what its name says, and yields a Map.
LEMMA ReinsertEntries ==
    ASSUME NEW cache \in Caches, NEW stay \in SUBSET Keys, NEW place, NEW given,
           Given(place, given)
    PROVE  Reinserted(Reinsert(cache, stay, place, given), cache, stay, place, given)
<1> DEFINE R == Reinsert(cache, stay, place, given)
           D == DOMAIN place
<1>2. \A k \in Keys : Cardinality({x \in stay : cache[x].pos <= cache[k].pos}) \in Nat
  <2> TAKE k \in Keys
  <2> {x \in stay : cache[x].pos <= cache[k].pos} \in SUBSET Keys
    OBVIOUS
  <2> QED  BY CardinalityType
<1>3. Cardinality(stay) \in Nat
  BY CardinalityType
<1>4. ASSUME NEW k \in Keys
      PROVE  /\ R[k] \in Entries
             /\ k \in stay => Same(R[k], cache[k])
             /\ k \notin stay /\ k \in D => Same(R[k], given[k])
             /\ k \notin stay /\ k \notin D => R[k] = NoEntry
  <2>1. CASE k \in stay
    <3> DEFINE n == Cardinality({x \in stay : cache[x].pos <= cache[k].pos})
    <3>1. R[k] = [cache[k] EXCEPT !.pos = n]
      BY <2>1 DEF Reinsert
    <3>2. n \in Nat /\ cache[k] \in Entries
      BY <1>2 DEF Caches
    <3> HIDE DEF n
    <3> QED  BY <2>1, <3>1, <3>2 DEF Entries, Same
  <2>2. CASE k \notin stay /\ k \in D
    <3> R[k] = [rev |-> given[k].rev, exp |-> given[k].exp,
                pos |-> Cardinality(stay) + place[k]]
      BY <2>2 DEF Reinsert
    <3> QED  BY <1>3, <2>2 DEF Entries, Given, Same
  <2>3. CASE k \notin stay /\ k \notin D
    BY <2>3 DEF Reinsert, NoEntry, Entries
  <2> QED  BY <2>1, <2>2, <2>3
<1>5. R \in Caches
  <2> R = [k \in Keys |-> R[k]]
    BY DEF Reinsert
  <2> QED  BY <1>4 DEF Caches
<1> QED  BY <1>4, <1>5 DEF Reinserted

\* Every entry of new is an entry of cache, or there is none.
Shrunk(new, cache) ==
    new \in Caches /\ \A k \in Keys : new[k].exp = 0 \/ Same(new[k], cache[k])

\* Evict keeps an entry or deletes it.
LEMMA EvictEntries ==
    ASSUME NEW cache \in Caches
    PROVE  Shrunk(Evict(cache), cache)
<1> DEFINE over == Cardinality(Cached(cache)) - L1Max
           E == [k \in Keys |-> IF cache[k].pos <= over THEN NoEntry
                                ELSE [cache[k] EXCEPT !.pos = @ - over]]
<1>1. over \in Int
  BY CardinalityType, OptionsAssumption DEF Cached
<1>2. Evict(cache) = IF over <= 0 THEN cache ELSE E
  BY DEF Evict
<1> HIDE DEF over
<1>3. ASSUME over > 0, NEW k \in Keys
      PROVE  E[k] \in Entries /\ (E[k].exp = 0 \/ Same(E[k], cache[k]))
  BY <1>1, <1>3 DEF Caches, Entries, NoEntry, Same
<1>4. CASE over <= 0
  BY <1>2, <1>4 DEF Shrunk, Same
<1>5. CASE over > 0
  <2>1. Evict(cache) = E
    BY <1>1, <1>2, <1>5
  <2>2. E \in Caches
    BY <1>3, <1>5 DEF Caches
  <2> HIDE DEF E
  <2> QED  BY <1>3, <1>5, <2>1, <2>2 DEF Shrunk
<1> QED  BY <1>1, <1>4, <1>5

\* An order of insertion gives each key a place.
LEMMA PlacesType ==
    ASSUME NEW K \in SUBSET Keys, NEW place \in Places(K)
    PROVE  place \in [K -> Nat]
<1> Cardinality(K) \in Nat
  BY CardinalityType
<1> QED  BY DEF Places, Injection

\* deleteL1 deletes the keys of D and keeps the other entries.
LEMMA WithoutEntries ==
    ASSUME NEW cache \in Caches, NEW D
    PROVE  /\ Shrunk(Without(cache, D), cache)
           /\ \A k \in Keys \cap D : Without(cache, D)[k].exp = 0
<1> DEFINE stay == Cached(cache) \ D
           place == [k \in {} |-> 0]
           R == Reinsert(cache, stay, place, cache)
<1>1. stay \in SUBSET Keys
  BY DEF Cached
<1>2. DOMAIN place = {}
  OBVIOUS
<1>3. Reinserted(R, cache, stay, place, cache)
  <2>1. Given(place, cache)
    BY <1>2 DEF Given
  <2> HIDE DEF stay, place
  <2> QED  BY <1>1, <2>1, ReinsertEntries
<1>4. Without(cache, D) = R
  BY DEF Without
<1>5. \A k \in D : k \notin stay
  OBVIOUS
<1> HIDE DEF stay, place, R
<1>6. R \in Caches
  BY <1>3 DEF Reinserted
<1>7. \A k \in Keys : R[k].exp = 0 \/ Same(R[k], cache[k])
  BY <1>2, <1>3 DEF Reinserted, NoEntry
<1>8. \A k \in Keys \cap D : R[k].exp = 0
  BY <1>2, <1>3, <1>5 DEF Reinserted, NoEntry
<1> QED  BY <1>4, <1>6, <1>7, <1>8 DEF Shrunk

\* getL1 keeps or deletes an entry.
LEMMA GetL1Entries ==
    ASSUME NEW cache \in Caches, NEW K \in SUBSET Keys,
           NEW place \in Places(Hits(cache, K))
    PROVE  Shrunk(GetL1(cache, K, place), cache)
<1> DEFINE stay == Cached(cache) \ K
           H == Hits(cache, K)
           R == Reinsert(cache, stay, place, cache)
<1>1. stay \in SUBSET Keys /\ H \in SUBSET Keys
  BY DEF Cached, Hits
<1>2. place \in [H -> Nat]
  BY <1>1, PlacesType
<1>3. Given(place, cache)
  BY <1>1, <1>2 DEF Given, Caches, Entries
<1>4. Reinserted(R, cache, stay, place, cache)
  <2> HIDE DEF stay
  <2> QED  BY <1>1, <1>3, ReinsertEntries
<1>5. GetL1(cache, K, place) = R
  BY DEF GetL1
<1> HIDE DEF stay, H, R
<1>6. R \in Caches
  BY <1>4 DEF Reinserted
<1>7. \A k \in Keys : R[k].exp = 0 \/ Same(R[k], cache[k])
  BY <1>4 DEF Reinserted, NoEntry
<1> QED  BY <1>5, <1>6, <1>7 DEF Shrunk

\* What setL1 makes of cache for the keys of K: what it is given for them,
\* with no later an expiry, or nothing; the other entries stay or are evicted.
Stored(new, cache, K, given) ==
    /\ new \in Caches
    /\ \A k \in Keys :
         \/ new[k].exp = 0
         \/ k \notin K /\ Same(new[k], cache[k])
         \/ k \in K /\ new[k].rev = given[k].rev /\ new[k].exp <= given[k].exp

LEMMA SetL1Entries ==
    ASSUME now \in Nat, NEW cache \in Caches, NEW K \in SUBSET Keys, NEW given,
           \A k \in K : given[k].rev \in Nat /\ given[k].exp \in Nat,
           NEW place \in Places(Storable(K, given))
    PROVE  Stored(SetL1(cache, K, given, place), cache, K, given)
<1> DEFINE stay == Cached(cache) \ K
           S == Storable(K, given)
           entries == [k \in Keys |-> [rev |-> given[k].rev, exp |-> L1Expiry(given[k].exp)]]
           R == Reinsert(cache, stay, place, entries)
<1>1. stay \in SUBSET Keys /\ S \in SUBSET Keys /\ S \subseteq K
  BY DEF Cached, Storable
<1>2. place \in [S -> Nat]
  BY <1>1, PlacesType
<1>3. \A k \in S : /\ entries[k].rev = given[k].rev
                   /\ entries[k].exp \in Nat /\ entries[k].exp <= given[k].exp
                   /\ entries[k].rev \in Nat
  BY <1>1, OptionsAssumption DEF L1Expiry
<1>4. Reinserted(R, cache, stay, place, entries)
  <2>1. DOMAIN place = S
    BY <1>2
  <2> HIDE DEF stay, S, entries
  <2>2. Given(place, entries)
    BY <1>2, <1>3, <2>1 DEF Given
  <2> QED  BY <1>1, <2>2, ReinsertEntries
<1>5. \A k \in stay : k \notin K
  OBVIOUS
<1>6. SetL1(cache, K, given, place) = Evict(R)
  BY DEF SetL1
<1>7. \A k \in Keys : cache[k] \in Entries
  BY DEF Caches
<1> HIDE DEF stay, S, R, entries
<1>8. Shrunk(Evict(R), R)
  <2> R \in Caches
    BY <1>4 DEF Reinserted
  <2> QED  BY EvictEntries
<1>9. ASSUME NEW k \in Keys
      PROVE  \/ R[k].exp = 0
             \/ k \notin K /\ Same(R[k], cache[k])
             \/ k \in K /\ R[k].rev = given[k].rev /\ R[k].exp <= given[k].exp
  <2>1. CASE k \in stay
    BY <1>4, <1>5, <2>1 DEF Reinserted
  <2>2. CASE k \notin stay /\ k \in S
    <3>1. Same(R[k], entries[k])
      BY <1>2, <1>4, <2>2 DEF Reinserted
    <3> QED  BY <1>1, <1>3, <2>2, <3>1 DEF Same
  <2>3. CASE k \notin stay /\ k \notin S
    BY <1>2, <1>4, <2>3 DEF Reinserted, NoEntry
  <2> QED  BY <2>1, <2>2, <2>3
<1> QED  BY <1>6, <1>8, <1>9 DEF Shrunk, Stored, Same

-----------------------------------------------------------------------------
(* Type correctness.                                                       *)

LEMMA CacheType ==
    ASSUME TypeOK, NEW i \in Instances
    PROVE  l1[i] \in Caches
  BY DEF TypeOK, Caches

LEMMA EmptyL1Type == EmptyL1 \in Caches
  BY DEF EmptyL1, Caches, NoEntry, Entries

LEMMA IdleType == Idle \in CallRecords /\ NoRows \in [Keys -> Rows] /\ NoNote \in Notifications
<1>1. NoRows \in [Keys -> Rows]
  BY DEF NoRows, NoRow, Rows
<1>2. NoNote \in Notifications
  BY DEF NoNote, Notifications, NotifyOps
<1>3. Idle \in CallRecords
  <2> HIDE DEF NoRows, NoNote
  <2> QED  BY <1>1, <1>2 DEF Idle, CallRecords
<1> QED  BY <1>1, <1>2, <1>3

LEMMA AfterType ==
    ASSUME TypeOK, NEW ttl \in TtlChoices
    PROVE  ttl \in Nat /\ After(ttl) \in Nat
  BY TimeAssumption DEF TypeOK, After, TtlChoices

LEMMA NoteType ==
    ASSUME NEW n \in NotifyChoices, NEW o \in NotifyOps,
           NEW a \in Keys \cup Prefixes \cup {""}
    PROVE  Note(n, o, a) \in Notifications
<1>1. [op |-> o, arg |-> a] \in Notifications
  BY DEF Notifications
<1> QED  BY <1>1, IdleType DEF Note

LEMMA PutType ==
    ASSUME TypeOK, NEW K, NEW exp \in Nat
    PROVE  Put(K, exp) \in [Keys -> Rows] /\ Deleted(K) \in [Keys -> Rows]
  BY DEF TypeOK, Put, Deleted, Revision, NoRow, Rows

LEMMA RevisionType ==
    ASSUME TypeOK, NEW k \in Keys
    PROVE  Revision(row[k].exp) \in Rows
  BY DEF TypeOK, Revision, Rows

LEMMA RepliedType ==
    ASSUME NEW op \in OpKinds, NEW store \in SUBSET Keys, NEW drop \in SUBSET Keys,
           NEW rows \in [Keys -> Rows], NEW ttl \in Nat, NEW note \in Notifications
    PROVE  Replied(op, store, drop, rows, ttl, note) \in CallRecords
<1> Returned(rows, store) \in [Keys -> Rows]
  BY DEF Returned, NoRow, Rows
<1> HIDE DEF OpKinds
<1> QED  BY DEF Replied, CallRecords

LEMMA IssuedType ==
    ASSUME NEW op \in OpKinds, NEW K \in SUBSET Keys
    PROVE  [Idle EXCEPT !.pc = "issued", !.op = op, !.store = K] \in CallRecords
<1> HIDE DEF OpKinds
<1> QED  BY IdleType DEF CallRecords

LEMMA OutdatedType ==
    ASSUME NEW calls \in [Calls -> CallRecords], NEW i
    PROVE  Outdated(calls, i) \in [Calls -> CallRecords]
<1> SUFFICES ASSUME NEW c \in Calls  PROVE [calls[c] EXCEPT !.fresh = FALSE] \in CallRecords
  BY DEF Outdated
<1> DEFINE d == calls[c]
<1>1. d \in CallRecords
  OBVIOUS
<1> HIDE DEF d
<1>2. [d EXCEPT !.fresh = FALSE] \in CallRecords
  BY <1>1 DEF CallRecords
<1> QED  BY <1>2 DEF d

LEMMA WriteType ==
    ASSUME TypeOK, NEW c \in Calls, NEW newRow \in [Keys -> Rows], NEW reply \in CallRecords
    PROVE  /\ Write(c, newRow, reply) => TypeOK'
           /\ NoWrite(c, reply) => TypeOK'
<1>1. TypeOK => [call EXCEPT ![c] = reply] \in [Calls -> CallRecords]
  BY DEF TypeOK
<1>2. CASE Write(c, newRow, reply)
  BY <1>1, <1>2 DEF TypeOK, Write
<1>3. CASE NoWrite(c, reply)
  BY <1>1, <1>3 DEF TypeOK, NoWrite
<1> QED  BY <1>2, <1>3

\* A step that only changes a Map and the call records.
LEMMA LocalType ==
    ASSUME TypeOK, NEW i \in Instances, NEW cache \in Caches,
           l1' = [l1 EXCEPT ![i] = cache],
           call' \in [Calls -> CallRecords],
           UNCHANGED <<row, now, rev>>,
           inbox' \in [Instances -> Seq(Notifications)],
           conn' \in [Instances -> ConnStates], faults' \in Nat
    PROVE  TypeOK'
  BY DEF TypeOK, Caches

LEMMA FaultType ==
    ASSUME TypeOK, NEW f, Fault(f)
    PROVE  faults' \in Nat
  BY DEF TypeOK, Fault

\* Every statement preserves the types.
LEMMA StatementType ==
    ASSUME TypeOK, NEW c \in Calls, Statement(c)
    PROVE  TypeOK'
<1> USE CallsAssumption, NamesAssumption, IdleType, AfterType, NoteType, PutType,
        RepliedType, WriteType
<1>1. call[c] \in CallRecords /\ row \in [Keys -> Rows] /\ Forever \in TtlChoices /\ 0 \in Nat
  BY DEF TypeOK, TtlChoices
<1>2. ASSUME NEW K \in SUBSET Keys, Get(c, K)  PROVE TypeOK'
  <2>1. PICK place \in Places(Hits(l1[Home[c]], K)) :
          l1' = [l1 EXCEPT ![Home[c]] = GetL1(@, K, place)]
    BY <1>2 DEF Get
  <2>2. GetL1(l1[Home[c]], K, place) \in Caches
    BY <2>1, CacheType, GetL1Entries DEF Shrunk
  <2>3. call' \in [Calls -> CallRecords]
    <3>1. \A missing \in SUBSET Keys :
            [Idle EXCEPT !.pc = "issued", !.op = "get", !.store = missing] \in CallRecords
      BY IssuedType DEF OpKinds
    <3>2. K \ Hits(l1[Home[c]], K) \in SUBSET Keys
      OBVIOUS
    <3> QED  BY <1>2, <3>1, <3>2 DEF Get, TypeOK
  <2> QED  BY <1>2, <2>1, <2>2, <2>3, LocalType DEF Get, TypeOK
<1>3. ASSUME Select(c)  PROVE TypeOK'
  <2> DEFINE found == {k \in call[c].store : Live(k)}
             reply == [call[c] EXCEPT !.pc = "replied", !.rows = Returned(row, found),
                                      !.store = found, !.drop = call[c].store \ found]
  <2>1. found \in SUBSET Keys /\ call[c].store \in SUBSET Keys
    BY <1>1 DEF CallRecords
  <2>2. Returned(row, found) \in [Keys -> Rows]
    BY <1>1 DEF Returned, NoRow, Rows
  <2>3. reply \in CallRecords
    <3> HIDE DEF found
    <3> QED  BY <1>1, <2>1, <2>2 DEF CallRecords
  <2>4. NoWrite(c, reply)
    BY <1>3 DEF Select
  <2> HIDE DEF reply
  <2> QED  BY <2>3, <2>4
<1>4. ASSUME NEW k \in Keys, NEW ttl \in TtlChoices, NEW n \in NotifyChoices,
             NEW mode \in {"always", "nx", "xx"}, Set(c, k, mode, ttl, n)
      PROVE  TypeOK'
  BY <1>4 DEF Set, OpKinds, NotifyOps
<1>5. ASSUME NEW k \in Keys, NEW ttl \in TtlChoices, NEW n \in NotifyChoices,
             NEW expectedMissing \in BOOLEAN, NEW matches \in BOOLEAN,
             CompareAndSwap(c, k, expectedMissing, matches, ttl, n)
      PROVE  TypeOK'
  BY <1>5 DEF CompareAndSwap, OpKinds, NotifyOps
<1>6. ASSUME NEW k \in Keys, NEW ttl \in TtlChoices, NEW n \in NotifyChoices, Expire(c, k, ttl, n)
      PROVE  TypeOK'
  BY <1>6 DEF Expire, OpKinds, NotifyOps
<1>7. ASSUME NEW K \in SUBSET Keys, NEW ttl \in TtlChoices, NEW n \in NotifyChoices, Mset(c, K, ttl, n)
      PROVE  TypeOK'
  BY <1>7 DEF Mset, OpKinds, NotifyOps
<1>8. ASSUME NEW k \in Keys, Getset(c, k)  PROVE TypeOK'
  <2> [Idle EXCEPT !.pc = "issued", !.op = "getset", !.store = {k}] \in CallRecords
    BY IssuedType DEF OpKinds
  <2> QED  BY <1>8 DEF Getset
<1>9. ASSUME NEW k \in Keys, Getdel(c, k)  PROVE TypeOK'
  <2>1. Note(TRUE, "delete", k) \in Notifications
    BY DEF Note, Notifications, NotifyOps
  <2>2. \/ Write(c, Deleted({k}), Replied("getdel", {}, {k}, NoRows, 0, Note(TRUE, "delete", k)))
        \/ NoWrite(c, Replied("getdel", {}, {k}, NoRows, 0, NoNote))
    BY <1>9 DEF Getdel
  <2> QED  BY <1>1, <2>1, <2>2 DEF OpKinds
<1>10. ASSUME Commit(c)  PROVE TypeOK'
  <2> DEFINE newRow(k) == Put({k}, Forever)
             reply(k) == [call[c] EXCEPT !.pc = "replied", !.rows = Returned(newRow(k), {k}),
                                         !.note = Note(TRUE, "set", k)]
  <2>1. PICK k \in call[c].store : Write(c, newRow(k), reply(k))
    BY <1>10 DEF Commit
  <2>2. k \in Keys
    BY <1>1 DEF CallRecords
  <2>3. newRow(k) \in [Keys -> Rows]
    BY <1>1
  <2>4. Returned(newRow(k), {k}) \in [Keys -> Rows]
    <3> HIDE DEF newRow
    <3> QED  BY <2>3 DEF Returned, NoRow, Rows
  <2>5. Note(TRUE, "set", k) \in Notifications
    BY <2>2 DEF Note, Notifications, NotifyOps
  <2>6. reply(k) \in CallRecords
    <3> HIDE DEF newRow
    <3> QED  BY <1>1, <2>4, <2>5 DEF CallRecords
  <2> HIDE DEF newRow, reply
  <2> QED  BY <2>1, <2>3, <2>6
<1>11. ASSUME NEW k \in Keys, NEW n \in NotifyChoices, Delete(c, k, n)  PROVE TypeOK'
  BY <1>11 DEF Delete, OpKinds, NotifyOps
<1>12. ASSUME NEW p \in Prefixes, NEW n \in NotifyChoices, ClearPrefix(c, p, n)  PROVE TypeOK'
  BY <1>12 DEF ClearPrefix, OpKinds, NotifyOps
<1>13. ASSUME NEW n \in NotifyChoices, ClearNamespace(c, n)  PROVE TypeOK'
  BY <1>13 DEF ClearNamespace, OpKinds, NotifyOps
<1>14. ASSUME NEW K \in SUBSET Keys, CleanupExpired(c, K)  PROVE TypeOK'
  BY <1>14 DEF CleanupExpired, OpKinds, NotifyOps
<1>15. ASSUME NEW K \in SUBSET Keys, Unlink(c, K)  PROVE TypeOK'
  BY <1>15 DEF Unlink, OpKinds, NotifyOps
<1>16. ASSUME NEW k \in Keys, NEW to \in Keys, Rename(c, k, to)  PROVE TypeOK'
  <2> DEFINE newRow == [Deleted({k}) EXCEPT ![to] = Revision(row[k].exp)]
  <2>1. newRow \in [Keys -> Rows]
    <3>1. Deleted({k}) \in [Keys -> Rows]
      BY <1>1
    <3>2. Revision(row[k].exp) \in Rows
      BY RevisionType
    <3> QED  BY <3>1, <3>2
  <2> HIDE DEF newRow
  <2>2. \/ Write(c, newRow, Replied("rename", {}, {k, to}, NoRows, 0, NoNote))
        \/ NoWrite(c, Replied("rename", {}, {}, NoRows, 0, NoNote))
    BY <1>16 DEF Rename, newRow
  <2> QED  BY <1>1, <2>1, <2>2 DEF OpKinds
<1> QED
  BY ZenonT(30), <1>2, <1>3, <1>4, <1>5, <1>6, <1>7, <1>8, <1>9, <1>10, <1>11, <1>12, <1>13, <1>14,
     <1>15, <1>16 DEF Statement

\* What the reply of call c gives setL1 for the keys it returns.
Returns(c) == [k \in Keys |-> IF call[c].op \in Relative
                              THEN [rev |-> call[c].rows[k].rev, exp |-> After(call[c].ttl)]
                              ELSE call[c].rows[k]]
ToStore(c) == IF Home[c] \in L1Enabled /\ (call[c].op \in Capturing => call[c].fresh)
              THEN call[c].store ELSE {}

\* Reply(c) in parts: a Map in which ToStore(c) is stored and drop deleted.
LEMMA ReplyParts ==
    ASSUME TypeOK, NEW c \in Calls, Reply(c)
    PROVE  /\ \E stored \in Caches, new \in Caches :
                /\ Stored(stored, l1[Home[c]], ToStore(c), Returns(c))
                /\ Shrunk(new, stored)
                /\ \A k \in call[c].drop : new[k].exp = 0
                /\ l1' = [l1 EXCEPT ![Home[c]] = new]
           /\ call' = [(IF call[c].drop = {} THEN call ELSE Outdated(call, Home[c]))
                         EXCEPT ![c] = IF call[c].note = NoNote THEN Idle
                                       ELSE [Idle EXCEPT !.pc = "publish", !.note = call[c].note]]
           /\ UNCHANGED <<row, now, rev, inbox, conn, faults>>
<1> DEFINE i == Home[c]
           dropped(cache) == call[c].drop \cup
                             (IF call[c].op = "cleanupExpired" THEN Expired(cache) ELSE {})
           cache(place) == SetL1(l1[i], ToStore(c), Returns(c), place)
<1>1. PICK place \in Places(Storable(ToStore(c), Returns(c))) :
        l1' = [l1 EXCEPT ![i] = Without(cache(place), dropped(cache(place)))]
  BY DEF Reply, ToStore, Returns
<1>2. /\ call[c] \in CallRecords /\ i \in Instances /\ now \in Nat
      /\ call[c].drop \subseteq Keys
  BY CallsAssumption DEF TypeOK, CallRecords
<1>3. Stored(cache(place), l1[i], ToStore(c), Returns(c))
  <2>1. ToStore(c) \in SUBSET Keys
    BY <1>2 DEF ToStore, CallRecords
  <2>2. \A k \in ToStore(c) : Returns(c)[k].rev \in Nat /\ Returns(c)[k].exp \in Nat
    <3> TAKE k \in ToStore(c)
    <3>1. k \in Keys /\ call[c].rows[k] \in Rows /\ call[c].ttl \in Nat
      BY <1>2, <2>1 DEF CallRecords
    <3>2. After(call[c].ttl) \in Nat
      BY <1>2, <3>1, TimeAssumption DEF After
    <3> QED  BY <3>1, <3>2 DEF Returns, Rows
  <2>3. l1[i] \in Caches
    BY <1>2, CacheType
  <2> QED  BY <1>2, <2>1, <2>2, <2>3, SetL1Entries
<1> DEFINE stored == cache(place)
           new == Without(stored, dropped(stored))
<1>4. stored \in Caches
  BY <1>3 DEF Stored
<1> HIDE DEF cache
<1>5. /\ Shrunk(new, stored)
      /\ \A k \in Keys \cap dropped(stored) : new[k].exp = 0
  <2> HIDE DEF dropped, stored
  <2> QED  BY <1>4, WithoutEntries DEF new
<1>6. \A k \in call[c].drop : new[k].exp = 0
  BY <1>2, <1>5
<1>7. new \in Caches
  BY <1>5 DEF Shrunk
<1>8. /\ call' = [(IF call[c].drop = {} THEN call ELSE Outdated(call, Home[c]))
                   EXCEPT ![c] = IF call[c].note = NoNote THEN Idle
                                 ELSE [Idle EXCEPT !.pc = "publish", !.note = call[c].note]]
      /\ UNCHANGED <<row, now, rev, inbox, conn, faults>>
  BY DEF Reply
<1>9. l1' = [l1 EXCEPT ![Home[c]] = new]
  BY <1>1
<1> HIDE DEF new, stored, dropped
<1> QED  BY <1>3, <1>4, <1>5, <1>6, <1>7, <1>8, <1>9 DEF stored

LEMMA ReplyType ==
    ASSUME TypeOK, NEW c \in Calls, Reply(c)
    PROVE  TypeOK'
<1>1. PICK new \in Caches : l1' = [l1 EXCEPT ![Home[c]] = new]
  BY ReplyParts
<1>2. call[c].note \in Notifications
  BY DEF TypeOK, CallRecords
<1>3. call' \in [Calls -> CallRecords]
  <2>1. call \in [Calls -> CallRecords] /\ Outdated(call, Home[c]) \in [Calls -> CallRecords]
    BY OutdatedType DEF TypeOK
  <2>2. [Idle EXCEPT !.pc = "publish", !.note = call[c].note] \in CallRecords
    BY <1>2, IdleType DEF CallRecords
  <2> DEFINE calls == IF call[c].drop = {} THEN call ELSE Outdated(call, Home[c])
             record == IF call[c].note = NoNote THEN Idle
                       ELSE [Idle EXCEPT !.pc = "publish", !.note = call[c].note]
  <2>3. calls \in [Calls -> CallRecords] /\ record \in CallRecords
    BY <2>1, <2>2, IdleType
  <2>4. call' = [calls EXCEPT ![c] = record]
    BY ReplyParts
  <2> HIDE DEF calls, record
  <2> QED  BY <2>3, <2>4
<1>4. Home[c] \in Instances
  BY CallsAssumption
<1>5. UNCHANGED <<row, now, rev, inbox, conn, faults>>
  BY ReplyParts
<1> QED  BY <1>1, <1>3, <1>4, <1>5, LocalType DEF TypeOK

LEMMA LocalStepType ==
    ASSUME TypeOK, NEW i \in Instances, Local(i)
    PROVE  TypeOK'
<1>1. /\ l1[i] \in Caches /\ EmptyL1 \in Caches
      /\ \A D : Without(l1[i], D) \in Caches
  BY CacheType, EmptyL1Type, WithoutEntries DEF Shrunk
<1>2. call \in [Calls -> CallRecords] /\ Outdated(call, i) \in [Calls -> CallRecords]
  BY OutdatedType DEF TypeOK
<1>3. /\ inbox \in [Instances -> Seq(Notifications)]
      /\ conn \in [Instances -> ConnStates] /\ faults \in Nat
  BY DEF TypeOK
<1>4. CASE HandleNotification(i)
  <2>1. inbox' \in [Instances -> Seq(Notifications)]
    BY <1>3, <1>4 DEF HandleNotification
  <2> DEFINE gone == Affected(Head(inbox[i]))
  <2>2. /\ l1' = [l1 EXCEPT ![i] = Without(l1[i], gone)]
        /\ call' \in [Calls -> CallRecords]
        /\ UNCHANGED <<row, now, rev, conn, faults>>
    BY <1>2, <1>4 DEF HandleNotification
  <2> QED  BY <1>1, <1>3, <2>1, <2>2, LocalType
<1>5. ASSUME NEW k \in Keys, Invalidate(i, k)  PROVE TypeOK'
  BY <1>1, <1>2, <1>3, <1>5, LocalType DEF Invalidate
<1>6. CASE InvalidateAll(i)
  BY <1>1, <1>2, <1>3, <1>6, LocalType DEF InvalidateAll
<1>7. CASE Stats(i)
  BY <1>1, <1>2, <1>3, <1>7, LocalType DEF Stats
<1> QED  BY <1>4, <1>5, <1>6, <1>7 DEF Local

LEMMA ReconnectType ==
    ASSUME TypeOK, NEW i \in Instances, Reconnect(i), UNCHANGED <<row, now, rev, inbox>>,
           faults' \in Nat
    PROVE  TypeOK'
<1>1. EmptyL1 \in Caches /\ l1[i] \in Caches
  BY CacheType, EmptyL1Type
<1>2. conn' \in [Instances -> ConnStates] /\ inbox' \in [Instances -> Seq(Notifications)]
  BY DEF Reconnect, TypeOK, ConnStates
<1>3. CASE ClearL1OnReconnect
  <2>1. l1' = [l1 EXCEPT ![i] = EmptyL1] /\ call' = Outdated(call, i)
    BY <1>3 DEF Reconnect
  <2>2. call' \in [Calls -> CallRecords]
    BY <2>1, OutdatedType DEF TypeOK
  <2> QED  BY <1>1, <1>2, <2>1, <2>2, LocalType
<1>4. CASE ~ClearL1OnReconnect
  BY <1>2, <1>4 DEF Reconnect, TypeOK
<1> QED  BY <1>3, <1>4

LEMMA ConnectionType ==
    ASSUME TypeOK, NEW i \in Instances, Connection(i)
    PROVE  TypeOK'
<1> USE DEF ConnStates
<1>1. CASE NoticeClose(i)
  BY <1>1, ReconnectType DEF NoticeClose, TypeOK
<1>2. CASE Listening(i)
  BY <1>2 DEF Listening, TypeOK
<1>3. CASE StartListener(i)
  BY <1>3 DEF StartListener, TypeOK
<1>4. CASE StopListener(i)
  BY <1>4 DEF StopListener, TypeOK
<1>5. CASE Disconnect(i)
  <2>1. faults' \in Nat
    BY <1>5, FaultType DEF Disconnect
  <2>2. PICK n \in 0..Len(inbox[i]) : inbox' = [inbox EXCEPT ![i] = SubSeq(@, 1, n)]
    BY <1>5 DEF Disconnect
  <2>3. inbox' \in [Instances -> Seq(Notifications)]
    <3>1. inbox[i] \in Seq(Notifications)
      BY DEF TypeOK
    <3>2. SubSeq(inbox[i], 1, n) \in Seq(Notifications)
      BY <2>2, <3>1
    <3> QED  BY <2>2, <3>2 DEF TypeOK
  <2> QED  BY <1>5, <2>1, <2>3 DEF Disconnect, TypeOK
<1>6. CASE ConnectFails(i)
  BY <1>6, ReconnectType, FaultType DEF ConnectFails
<1>7. CASE Crash(i)
  <2>1. faults' \in Nat
    BY <1>7, FaultType DEF Crash
  <2>2. call' \in [Calls -> CallRecords]
    BY <1>7, IdleType DEF Crash, TypeOK
  <2>3. EmptyL1 \in Caches /\ l1' = [l1 EXCEPT ![i] = EmptyL1]
    BY <1>7, EmptyL1Type DEF Crash
  <2>4. inbox' \in [Instances -> Seq(Notifications)] /\ conn' \in [Instances -> ConnStates]
    BY <1>7 DEF Crash, TypeOK
  <2> QED  BY <1>7, <2>1, <2>2, <2>3, <2>4, LocalType DEF Crash
<1> QED  BY <1>1, <1>2, <1>3, <1>4, <1>5, <1>6, <1>7 DEF Connection

\* Every behaviour of PgKvCache keeps the types: the Map, the call records,
\* the notifications and the listener's state are what the code declares.
THEOREM TypeCorrect == Spec => []TypeOK
<1>1. Init => TypeOK
  <2> SUFFICES ASSUME Init  PROVE TypeOK
    OBVIOUS
  <2>1. \A i \in Instances : EmptyL1 \in Caches
    BY EmptyL1Type
  <2> QED  BY <2>1, IdleType DEF Init, TypeOK, Caches, ConnStates
<1>2. TypeOK /\ [Next]_vars => TypeOK'
  <2> SUFFICES ASSUME TypeOK, [Next]_vars  PROVE TypeOK'
    OBVIOUS
  <2>1. ASSUME NEW c \in Calls, Publish(c)  PROVE TypeOK'
    <3>1. call[c].note \in Notifications
      BY DEF TypeOK, CallRecords
    <3>2. inbox' \in [Instances -> Seq(Notifications)]
      BY <2>1, <3>1 DEF Publish, TypeOK
    <3>3. call' \in [Calls -> CallRecords]
      BY <2>1, IdleType DEF Publish, TypeOK
    <3> QED  BY <2>1, <3>2, <3>3 DEF Publish, TypeOK
  <2>2. ASSUME NEW c \in Calls, Throw(c)  PROVE TypeOK'
    <3>1. faults' \in Nat
      BY <2>2, FaultType DEF Throw
    <3>2. call' \in [Calls -> CallRecords]
      BY <2>2, IdleType DEF Throw, TypeOK
    <3> QED  BY <2>2, <3>1, <3>2 DEF Throw, TypeOK
  <2>3. CASE Tick
    BY <2>3 DEF Tick, TypeOK
  <2>4. CASE UNCHANGED vars
    BY <2>4 DEF vars, TypeOK
  <2> QED
    BY <2>1, <2>2, <2>3, <2>4, StatementType, ReplyType, LocalStepType, ConnectionType DEF Next
<1> QED  BY <1>1, <1>2, PTL DEF Spec

-----------------------------------------------------------------------------
(* Coherence.                                                              *)

\* The conditions under which L1 is coherent: nobody renames, unlinks or
\* suppresses notifications; the cache is used only while its listener is
\* connected, and is cleared on reconnect; no call dies between its statement
\* and its notification; no key and no prefix is the empty string.
Disciplined ==
    /\ \A i \in Instances : OpsOf[i] \cap {"rename", "unlink"} = {}
    /\ NotifyChoices \subseteq {TRUE}
    /\ UsedWhile \subseteq {"up", "lost"}
    /\ ClearL1OnReconnect
    /\ Faults \subseteq {"statement", "disconnect", "connect"}
    /\ "" \notin Keys /\ "" \notin Prefixes

\* A step as one protected instance i sees it.
Cleared(i, k) == l1'[i][k].exp = 0 /\ \A c \in Calls : ~CapturedFresh(i, c)'

ConnStep(i) ==
    /\ conn'[i] = "up" => conn[i] \in {"up", "starting", "down"}
    /\ conn'[i] \in {"starting", "down"} =>
         \/ conn[i] \in {"starting", "down"}
         \/ /\ \A k \in Keys : l1'[i][k].exp = 0
            /\ \A c \in Calls : ~CapturedFresh(i, c)'

L1Step(i) ==
    \A k \in Keys :
        \/ l1'[i][k].exp = 0
        \/ Same(l1'[i][k], l1[i][k])
        \/ \E c \in Calls :
             /\ CapturedFresh(i, c) /\ call[c].pc = "replied" /\ k \in call[c].store
             /\ l1'[i][k].rev = call[c].rows[k].rev
             /\ l1'[i][k].exp <= call[c].rows[k].exp

RowStep(i) ==
    \A k \in Keys : row'[k] = row[k] \/ row[k].exp <= now \/ Pending(i, k)'

PendingStep(i) ==
    conn'[i] = "up" => \A k \in Keys : Pending(i, k) => Pending(i, k)' \/ Cleared(i, k)

CallStep(i) ==
    \A c \in Calls : CapturedFresh(i, c)' =>
        \/ call'[c].pc = "issued" /\ conn'[i] \notin {"starting", "down"}
        \/ CapturedFresh(i, c) /\ call'[c].pc # "replied"
        \/ CapturedFresh(i, c) /\ call'[c] = call[c]
        \/ CapturedFresh(i, c) /\ (\A k \in call[c].store : Match(call[c].rows[k], k))'

\* Such a step preserves what CoherenceInv says of i.
LEMMA Preserved ==
    ASSUME TypeOK, TypeOK', NEW i \in Instances, now <= now',
           CacheOk(i), InFlightOk(i), DownOk(i),
           ConnStep(i), L1Step(i), RowStep(i), PendingStep(i), CallStep(i)
    PROVE  CacheOk(i)' /\ InFlightOk(i)' /\ DownOk(i)'
<1>1. /\ now \in Nat /\ now' \in Nat
      /\ \A k \in Keys : /\ row[k].exp \in Nat /\ row'[k].exp \in Nat
                         /\ l1[i][k].exp \in Nat /\ l1'[i][k].exp \in Nat
                         /\ \A c \in Calls : call[c].rows[k].exp \in Nat /\ call'[c].rows[k].exp \in Nat
  <2>1. \A k \in Keys : row[k] \in Rows /\ row'[k] \in Rows /\ l1[i][k] \in Entries /\ l1'[i][k] \in Entries
    BY DEF TypeOK
  <2>2. \A c \in Calls : call[c] \in CallRecords /\ call'[c] \in CallRecords
    BY DEF TypeOK
  <2>3. \A c \in Calls, k \in Keys : call[c].rows[k] \in Rows /\ call'[c].rows[k] \in Rows
    BY <2>2 DEF CallRecords
  <2> QED  BY <2>1, <2>3 DEF TypeOK, Rows, Entries
<1>2. \A c \in Calls : call[c].store \subseteq Keys /\ call'[c].store \subseteq Keys
  BY DEF TypeOK, CallRecords
<1>3. ASSUME NEW k \in Keys, NEW known, known.exp \in Nat, known.exp > now',
             conn'[i] = "up", Match(known, k) \/ Pending(i, k)
      PROVE  \/ known.rev = row'[k].rev /\ known.exp <= row'[k].exp
             \/ Pending(i, k)'
             \/ Cleared(i, k)
  <2>1. CASE Pending(i, k)
    BY <1>3, <2>1 DEF PendingStep
  <2>2. CASE Match(known, k)
    <3>1. row[k].exp > now
      BY <1>1, <1>3, <2>2 DEF Match
    <3>2. row'[k] = row[k] \/ Pending(i, k)'
      BY <1>1, <3>1 DEF RowStep
    <3> QED  BY <2>2, <3>2 DEF Match
  <2> QED  BY <1>3, <2>1, <2>2
<1>4. CacheOk(i)'
  <2> SUFFICES ASSUME conn'[i] = "up", NEW k \in Keys, l1'[i][k].exp > now'
               PROVE  Match(l1[i][k], k)' \/ Pending(i, k)'
    BY DEF CacheOk
  <2>1. l1'[i][k].exp # 0 /\ ~Cleared(i, k)
    BY <1>1 DEF Cleared
  <2>2. CASE conn[i] # "up"
    <3>1. conn[i] \in {"starting", "down"}
      BY <2>2 DEF ConnStep
    <3> QED  BY <2>1, <3>1 DEF DownOk, L1Step, Same
  <2>3. CASE conn[i] = "up"
    <3>1. CASE Same(l1'[i][k], l1[i][k])
      <4>1. Match(l1[i][k], k) \/ Pending(i, k)
        BY <1>1, <2>3, <3>1 DEF CacheOk, Same
      <4>2. l1[i][k].exp > now' /\ l1[i][k].exp \in Nat
        BY <1>1, <3>1 DEF Same
      <4>3. \/ l1[i][k].rev = row'[k].rev /\ l1[i][k].exp <= row'[k].exp
            \/ Pending(i, k)'
        BY <1>3, <2>1, <4>1, <4>2
      <4> QED  BY <3>1, <4>3 DEF Match, Same
    <3>2. ASSUME NEW c \in Calls,
                 CapturedFresh(i, c), call[c].pc = "replied", k \in call[c].store,
                 l1'[i][k].rev = call[c].rows[k].rev, l1'[i][k].exp <= call[c].rows[k].exp
          PROVE  Match(l1[i][k], k)' \/ Pending(i, k)'
      <4>1. call[c].rows[k].exp > now' /\ call[c].rows[k].exp \in Nat
        BY <1>1, <3>2
      <4>2. Match(call[c].rows[k], k) \/ Pending(i, k)
        BY <1>1, <2>3, <3>2, <4>1 DEF InFlightOk
      <4>3. \/ call[c].rows[k].rev = row'[k].rev /\ call[c].rows[k].exp <= row'[k].exp
            \/ Pending(i, k)'
        BY <1>3, <2>1, <4>1, <4>2
      <4> QED  BY <1>1, <3>2, <4>3 DEF Match
    <3> QED  BY <2>1, <3>1, <3>2 DEF L1Step
  <2> QED  BY <2>2, <2>3
<1>5. InFlightOk(i)'
  <2> SUFFICES ASSUME conn'[i] = "up", NEW c \in Calls, CapturedFresh(i, c)',
                      call'[c].pc = "replied", NEW k \in call'[c].store,
                      call'[c].rows[k].exp > now'
               PROVE  Match(call[c].rows[k], k)' \/ Pending(i, k)'
    BY DEF InFlightOk
  <2>1. k \in Keys /\ ~Cleared(i, k)
    BY <1>2 DEF Cleared
  <2>2. CASE \A x \in call'[c].store : Match(call[c].rows[x], x)'
    BY <2>2
  <2>3. CASE CapturedFresh(i, c) /\ call'[c] = call[c]
    <3>1. conn[i] = "up"
      BY <2>3 DEF ConnStep, DownOk
    <3>2. call[c].rows[k].exp > now' /\ call[c].rows[k].exp \in Nat
      BY <1>1, <2>1, <2>3
    <3>3. Match(call[c].rows[k], k) \/ Pending(i, k)
      BY <1>1, <2>3, <3>1, <3>2 DEF InFlightOk
    <3>4. \/ call[c].rows[k].rev = row'[k].rev /\ call[c].rows[k].exp <= row'[k].exp
          \/ Pending(i, k)'
      BY <1>3, <2>1, <3>2, <3>3
    <3> QED  BY <2>3, <3>4 DEF Match
  <2> QED  BY <2>2, <2>3 DEF CallStep
<1>6. DownOk(i)'
  <2> SUFFICES ASSUME conn'[i] \in {"starting", "down"}
               PROVE  /\ \A k \in Keys : l1'[i][k].exp = 0
                      /\ \A c \in Calls : ~CapturedFresh(i, c)'
    BY DEF DownOk
  <2>1. CASE conn[i] \in {"starting", "down"}
    <3>1. \A c \in Calls : ~CapturedFresh(i, c)
      BY <2>1 DEF DownOk
    <3>2. \A c \in Calls : ~CapturedFresh(i, c)'
      BY <3>1 DEF CallStep
    <3>3. \A k \in Keys : l1'[i][k].exp = 0
      BY <2>1, <3>1 DEF DownOk, L1Step, Same
    <3> QED  BY <3>2, <3>3
  <2>2. CASE /\ \A k \in Keys : l1'[i][k].exp = 0
             /\ \A c \in Calls : ~CapturedFresh(i, c)'
    BY <2>2
  <2> QED  BY <2>1, <2>2 DEF ConnStep
<1> QED  BY <1>4, <1>5, <1>6

\* The statement of call c, whose record becomes reply: it changes no row of
\* which an entry could be served without a notification to others and, if
\* its instance is protected, without dropping the key; a protected instance
\* captures l1Generation while its listener is connected, and stores only
\* rows it has read.
Covered(c, reply) ==
    \A k \in Keys :
        \/ row'[k] = row[k]
        \/ row[k].exp <= now
        \/ /\ reply.pc = "replied" /\ k \in Affected(reply.note)
           /\ Protected(Home[c]) => k \in reply.drop

ReplyOk(c, reply) ==
    /\ reply.op \in Guarded
    /\ reply.pc = "replied" /\ reply.op \notin Capturing => reply.store = {}
    /\ reply.op \in Capturing /\ reply.fresh =>
         \/ reply.pc = "issued" /\ conn[Home[c]] \notin {"starting", "down"}
         \/ /\ call[c].op \in Capturing /\ call[c].fresh
            /\ \A k \in reply.store : reply.rows[k] = row[k] /\ row'[k] = row[k]

StatementStep(c, reply) ==
    /\ call[c].pc \in {"idle", "issued"}
    /\ call' = [call EXCEPT ![c] = reply]
    /\ UNCHANGED <<now, inbox, conn>>
    /\ \A i \in Instances, k \in Keys : l1'[i][k].exp = 0 \/ Same(l1'[i][k], l1[i][k])
    /\ Covered(c, reply)
    /\ Protected(Home[c]) => ReplyOk(c, reply)

LEMMA StatementPreserves ==
    ASSUME TypeOK, TypeOK', CoherenceInv, NEW c \in Calls, NEW reply, StatementStep(c, reply)
    PROVE  CoherenceInv'
<1>1. /\ call'[c] = reply
      /\ \A d \in Calls : d # c => call'[d] = call[d]
      /\ inbox' = inbox /\ conn' = conn /\ now' = now /\ now \in Nat
  BY DEF StatementStep, TypeOK
<1>2. CallsOk'
  BY <1>1 DEF CoherenceInv, CallsOk, StatementStep, ReplyOk
<1>3. ASSUME NEW i \in Instances, Protected(i)
      PROVE  CacheOk(i)' /\ InFlightOk(i)' /\ DownOk(i)'
  <2>1. ConnStep(i)
    BY <1>1 DEF ConnStep
  <2>2. L1Step(i)
    BY DEF L1Step, StatementStep
  <2>3. RowStep(i)
    <3> SUFFICES ASSUME NEW k \in Keys, reply.pc = "replied", k \in Affected(reply.note),
                        Protected(Home[c]) => k \in reply.drop
                 PROVE  Pending(i, k)'
      BY DEF RowStep, StatementStep, Covered
    <3>1. CASE Home[c] = i
      BY <1>1, <1>3, <3>1 DEF Pending
    <3>2. CASE Home[c] # i
      BY <1>1, <3>2 DEF Pending
    <3> QED  BY <3>1, <3>2
  <2>4. PendingStep(i)
    <3> SUFFICES ASSUME NEW k \in Keys, Pending(i, k)
                 PROVE  Pending(i, k)'
      BY DEF PendingStep
    <3> QED  BY <1>1 DEF Pending, StatementStep
  <2>5. CallStep(i)
    <3> SUFFICES ASSUME NEW d \in Calls, CapturedFresh(i, d)'
                 PROVE  \/ call'[d].pc = "issued" /\ conn'[i] \notin {"starting", "down"}
                        \/ CapturedFresh(i, d) /\ call'[d].pc # "replied"
                        \/ CapturedFresh(i, d) /\ call'[d] = call[d]
                        \/ CapturedFresh(i, d) /\ (\A k \in call[d].store : Match(call[d].rows[k], k))'
      BY DEF CallStep
    <3>1. CASE d # c
      BY <1>1, <3>1 DEF CapturedFresh
    <3>2. CASE d = c
      <4>1. ReplyOk(c, reply) /\ Home[c] = i /\ reply.op \in Capturing /\ reply.fresh
        BY <1>1, <1>3, <3>2 DEF CapturedFresh, StatementStep
      <4>2. CASE reply.pc = "issued" /\ conn[i] \notin {"starting", "down"}
        BY <1>1, <3>2, <4>2
      <4>3. CASE /\ call[c].op \in Capturing /\ call[c].fresh
                 /\ \A k \in reply.store : reply.rows[k] = row[k] /\ row'[k] = row[k]
        <5>1. reply.store \subseteq Keys
          BY <1>1 DEF TypeOK, CallRecords
        <5>2. \A k \in Keys : row[k].exp \in Nat
          BY DEF TypeOK, Rows
        <5>3. \A k \in reply.store : /\ reply.rows[k].rev = row'[k].rev
                                     /\ reply.rows[k].exp <= row'[k].exp
          BY <4>3, <5>1, <5>2
        <5>4. (\A k \in call[c].store : Match(call[c].rows[k], k))'
          BY <1>1, <5>3 DEF Match
        <5>5. CapturedFresh(i, c)
          BY <4>1, <4>3 DEF CapturedFresh
        <5> QED  BY <3>2, <5>4, <5>5
      <4> QED  BY <4>1, <4>2, <4>3 DEF ReplyOk
    <3> QED  BY <3>1, <3>2
  <2>6. CacheOk(i) /\ InFlightOk(i) /\ DownOk(i) /\ now <= now'
    BY <1>1, <1>3 DEF CoherenceInv
  <2> QED  BY <2>1, <2>2, <2>3, <2>4, <2>5, <2>6, Preserved
<1>4. \A i \in Instances : Protected(i)' => Protected(i)
  BY DEF Protected
<1> QED  BY <1>2, <1>3, <1>4 DEF CoherenceInv

\* What a published notification invalidates.
LEMMA Affects ==
    ASSUME Disciplined, NEW n \in NotifyChoices \cup {TRUE}
    PROVE  /\ \A k \in Keys : /\ Affected(Note(n, "set", k)) = {k}
                              /\ Affected(Note(n, "delete", k)) = {k}
           /\ \A p \in Prefixes : Affected(Note(n, "clearPrefix", p)) = Matching[p]
           /\ Affected(Note(n, "clearNamespace", "")) = Keys
<1> n = TRUE
  BY DEF Disciplined
<1> QED  BY DEF Disciplined, Note, Affected, Names

LEMMA NothingAffected == Affected(NoNote) = {}
<1>1. NoNote.op = "none"
  BY DEF NoNote
<1> QED  BY <1>1 DEF Affected

\* The reply of a method of an instance that is not protected.
LEMMA UnprotectedStep ==
    ASSUME TypeOK, TypeOK', CoherenceInv, NEW c \in Calls, NEW newRow, NEW reply,
           ~Protected(Home[c]), call[c].pc \in {"idle", "issued"},
           \/ NoWrite(c, reply)
           \/ /\ Write(c, newRow, reply)
              /\ reply.pc = "replied"
              /\ \A k \in Keys : newRow[k] = row[k] \/ k \in Affected(reply.note)
    PROVE  CoherenceInv'
<1>1. StatementStep(c, reply)
  BY DEF StatementStep, Covered, NoWrite, Write, Same
<1> QED  BY <1>1, StatementPreserves

\* The reply of a method that only deletes.
LEMMA DeletingStep ==
    ASSUME TypeOK, TypeOK', CoherenceInv, NEW c \in Calls, NEW newRow, NEW reply,
           NEW op \in Guarded \ Capturing, NEW drop, NEW note,
           reply = Replied(op, {}, drop, NoRows, 0, note),
           call[c].pc \in {"idle", "issued"},
           \/ NoWrite(c, reply)
           \/ /\ Write(c, newRow, reply)
              /\ \A k \in Keys : \/ newRow[k] = row[k]
                                 \/ row[k].exp <= now
                                 \/ k \in Affected(note) /\ k \in drop
    PROVE  CoherenceInv'
<1>1. /\ reply.pc = "replied" /\ reply.op = op /\ reply.store = {}
      /\ reply.drop = drop /\ reply.note = note
  BY DEF Replied
<1>2. StatementStep(c, reply)
  BY <1>1 DEF StatementStep, Covered, ReplyOk, NoWrite, Write, Same
<1> QED  BY <1>2, StatementPreserves

\* A step that only deletes entries, or time.
LEMMA QuietStep ==
    ASSUME TypeOK, TypeOK', CoherenceInv, UNCHANGED <<row, call, inbox, conn>>, now <= now',
           \A i \in Instances, k \in Keys : l1'[i][k].exp = 0 \/ Same(l1'[i][k], l1[i][k])
    PROVE  CoherenceInv'
<1>1. CallsOk'
  BY DEF CoherenceInv, CallsOk
<1>2. ASSUME NEW i \in Instances, Protected(i)
      PROVE  CacheOk(i)' /\ InFlightOk(i)' /\ DownOk(i)'
  <2>1. ConnStep(i) /\ L1Step(i) /\ RowStep(i) /\ PendingStep(i)
    BY DEF ConnStep, L1Step, RowStep, PendingStep, Pending
  <2>2. CallStep(i)
    BY DEF CallStep, CapturedFresh
  <2>3. CacheOk(i) /\ InFlightOk(i) /\ DownOk(i)
    BY <1>2 DEF CoherenceInv
  <2> QED  BY <2>1, <2>2, <2>3, Preserved
<1> QED  BY <1>1, <1>2 DEF CoherenceInv

\* Every statement preserves the invariant.
LEMMA StatementCoherence ==
    ASSUME Disciplined, TypeOK, TypeOK', CoherenceInv, NEW c \in Calls, Statement(c)
    PROVE  CoherenceInv'
<1> DEFINE i == Home[c]
<1>1. i \in Instances /\ call[c] \in CallRecords
  BY CallsAssumption DEF TypeOK
<1>2. \A op : CanCall(c, op) => /\ op \in OpsOf[i] /\ call[c].pc = "idle"
                                /\ conn[i] \in {"up", "lost"}
  BY DEF CanCall, CanUse, Disciplined
<1>3. \A op \in {"set", "mset", "compareAndSwap", "expire", "persist", "getset"} :
        op \in OpsOf[i] => ~Protected(i)
  BY DEF Protected, Guarded
<1>4. \A op \in {"rename", "unlink"} : op \notin OpsOf[i]
  BY <1>1 DEF Disciplined
<1>5. ASSUME NEW K \in SUBSET Keys, Get(c, K)  PROVE CoherenceInv'
  <2>1. PICK place \in Places(Hits(l1[i], K)) : l1' = [l1 EXCEPT ![i] = GetL1(@, K, place)]
    BY <1>5 DEF Get
  <2>2. \A j \in Instances, k \in Keys : l1'[j][k].exp = 0 \/ Same(l1'[j][k], l1[j][k])
    <3>1. Shrunk(GetL1(l1[i], K, place), l1[i])
      BY <1>1, <2>1, CacheType, GetL1Entries
    <3> QED  BY <1>1, <2>1, <3>1 DEF Shrunk, Same, TypeOK
  <2> DEFINE reply == [Idle EXCEPT !.pc = "issued", !.op = "get", !.store = K \ Hits(l1[i], K)]
  <2>3. call' = call \/ call' = [call EXCEPT ![c] = reply]
    BY <1>5 DEF Get
  <2>4. /\ UNCHANGED <<row, now, rev, inbox, conn>> /\ now \in Nat
        /\ call[c].pc = "idle" /\ conn[i] \in {"up", "lost"}
    BY <1>2, <1>5 DEF Get, TypeOK
  <2>5. CASE call' = call
    BY <2>2, <2>4, <2>5, QuietStep
  <2>6. CASE call' = [call EXCEPT ![c] = reply]
    <3>1. reply.pc = "issued" /\ reply.op = "get"
      BY DEF Idle
    <3> HIDE DEF reply
    <3>2. ReplyOk(c, reply)
      BY <2>4, <3>1 DEF ReplyOk, Guarded, Capturing
    <3>3. StatementStep(c, reply)
      BY <2>2, <2>4, <2>6, <3>2 DEF StatementStep, Covered
    <3> QED  BY <3>3, StatementPreserves
  <2> QED  BY <2>3, <2>5, <2>6
<1>6. ASSUME Select(c)  PROVE CoherenceInv'
  <2> DEFINE found == {k \in call[c].store : Live(k)}
             reply == [call[c] EXCEPT !.pc = "replied", !.rows = Returned(row, found),
                                      !.store = found, !.drop = call[c].store \ found]
  <2>1. NoWrite(c, reply) /\ call[c].pc = "issued" /\ call[c].op = "get"
    BY <1>6 DEF Select
  <2>2. /\ reply.pc = "replied" /\ reply.op = "get" /\ reply.fresh = call[c].fresh
        /\ reply.store = found /\ reply.rows = Returned(row, found)
    BY <1>1, <2>1 DEF CallRecords
  <2>3. \A k \in found : k \in Keys /\ Returned(row, found)[k] = row[k]
    BY <1>1 DEF Returned, CallRecords
  <2> HIDE DEF reply, found
  <2>4. ReplyOk(c, reply)
    BY <2>1, <2>2, <2>3 DEF ReplyOk, Guarded, Capturing, NoWrite
  <2>5. StatementStep(c, reply)
    BY <2>1, <2>4 DEF StatementStep, Covered, NoWrite, Same
  <2> QED  BY <2>5, StatementPreserves
<1>7. ASSUME NEW k \in Keys, NEW ttl \in TtlChoices, NEW n \in NotifyChoices,
             \/ \E mode \in {"always", "nx", "xx"} : Set(c, k, mode, ttl, n)
             \/ \E expectedMissing, matches \in BOOLEAN :
                  CompareAndSwap(c, k, expectedMissing, matches, ttl, n)
             \/ Expire(c, k, ttl, n)
      PROVE  CoherenceInv'
  <2>1. ~Protected(i) /\ call[c].pc = "idle"
    BY <1>2, <1>3, <1>7 DEF Set, CompareAndSwap, Expire
  <2>2. \E op, reply :
          \/ NoWrite(c, reply)
          \/ /\ reply = Replied(op, {k}, {}, Put({k}, After(ttl)), ttl, Note(n, "set", k))
             /\ Write(c, Put({k}, After(ttl)), reply)
    BY <1>7 DEF Set, CompareAndSwap, Expire
  <2>3. \A x \in Keys : Put({k}, After(ttl))[x] = row[x] \/ x \in Affected(Note(n, "set", k))
    BY Affects DEF Put
  <2>4. \A op : LET reply == Replied(op, {k}, {}, Put({k}, After(ttl)), ttl, Note(n, "set", k))
                IN  reply.pc = "replied" /\ reply.note = Note(n, "set", k)
    BY DEF Replied
  <2> QED  BY <2>1, <2>2, <2>3, <2>4, UnprotectedStep
<1>8. ASSUME NEW K \in SUBSET Keys, NEW ttl \in TtlChoices, NEW n \in NotifyChoices, Mset(c, K, ttl, n)
      PROVE  CoherenceInv'
  <2> DEFINE newRow == Put(K, After(ttl))
             reply == Replied("mset", K, {}, newRow, ttl, Note(n, "clearNamespace", ""))
  <2>1. ~Protected(i) /\ call[c].pc = "idle" /\ Write(c, newRow, reply)
    BY <1>2, <1>3, <1>8 DEF Mset
  <2>2. reply.pc = "replied" /\ Affected(reply.note) = Keys
    BY Affects DEF Replied
  <2> HIDE DEF reply, newRow
  <2> QED  BY <2>1, <2>2, UnprotectedStep
<1>9. ASSUME NEW k \in Keys, Getset(c, k)  PROVE CoherenceInv'
  BY <1>2, <1>3, <1>9, UnprotectedStep DEF Getset
<1>10. ASSUME Commit(c)  PROVE CoherenceInv'
  <2> DEFINE newRow(k) == Put({k}, Forever)
             reply(k) == [call[c] EXCEPT !.pc = "replied", !.rows = Returned(newRow(k), {k}),
                                         !.note = Note(TRUE, "set", k)]
  <2>1. PICK k \in call[c].store : Write(c, newRow(k), reply(k))
    BY <1>10 DEF Commit
  <2>2. k \in Keys /\ call[c].op = "getset" /\ call[c].pc = "issued"
    BY <1>1, <1>10 DEF CallRecords, Commit
  <2>3. ~Protected(i)
    BY <2>2 DEF CoherenceInv, CallsOk, Guarded
  <2>4. reply(k).pc = "replied" /\ reply(k).note = Note(TRUE, "set", k)
    BY <1>1 DEF CallRecords
  <2>5. \A x \in Keys : newRow(k)[x] = row[x] \/ x \in Affected(Note(TRUE, "set", k))
    BY <2>2, Affects DEF Put
  <2> HIDE DEF newRow, reply
  <2> QED  BY <2>1, <2>2, <2>3, <2>4, <2>5, UnprotectedStep
<1>11. ASSUME NEW k \in Keys, NEW n \in NotifyChoices, Delete(c, k, n)  PROVE CoherenceInv'
  <2>1. call[c].pc = "idle" /\ "delete" \in Guarded \ Capturing
    BY <1>2, <1>11 DEF Delete, Guarded, Capturing
  <2>2. \A x \in Keys : \/ Deleted({k})[x] = row[x]
                        \/ x \in Affected(Note(n, "delete", k)) /\ x \in {k}
    BY Affects DEF Deleted
  <2>3. Write(c, Deleted({k}), Replied("delete", {}, {k}, NoRows, 0, Note(n, "delete", k)))
    BY <1>11 DEF Delete
  <2> QED  BY <2>1, <2>2, <2>3, DeletingStep
<1>12. ASSUME NEW k \in Keys, Getdel(c, k)  PROVE CoherenceInv'
  <2>1. call[c].pc = "idle" /\ "getdel" \in Guarded \ Capturing
    BY <1>2, <1>12 DEF Getdel, Guarded, Capturing
  <2>2. \A x \in Keys : \/ Deleted({k})[x] = row[x]
                        \/ x \in Affected(Note(TRUE, "delete", k)) /\ x \in {k}
    BY Affects DEF Deleted
  <2>3. CASE Write(c, Deleted({k}), Replied("getdel", {}, {k}, NoRows, 0, Note(TRUE, "delete", k)))
    BY <2>1, <2>2, <2>3, DeletingStep
  <2>4. CASE NoWrite(c, Replied("getdel", {}, {k}, NoRows, 0, NoNote))
    BY <2>1, <2>4, DeletingStep
  <2> QED  BY <1>12, <2>3, <2>4 DEF Getdel
<1>13. ASSUME NEW p \in Prefixes, NEW n \in NotifyChoices, ClearPrefix(c, p, n)  PROVE CoherenceInv'
  <2> DEFINE D == {k \in Matching[p] : Present(k)}
  <2>1. call[c].pc = "idle" /\ "clearPrefix" \in Guarded \ Capturing
    BY <1>2, <1>13 DEF ClearPrefix, Guarded, Capturing
  <2>2. \A x \in Keys : \/ Deleted(Matching[p])[x] = row[x]
                        \/ x \in Affected(Note(n, "clearPrefix", p)) /\ x \in D
    BY Affects DEF Deleted, Present
  <2>3. Write(c, Deleted(Matching[p]),
              Replied("clearPrefix", {}, D, NoRows, 0, Note(n, "clearPrefix", p)))
    BY <1>13 DEF ClearPrefix
  <2> HIDE DEF D
  <2> QED  BY <2>1, <2>2, <2>3, DeletingStep
<1>14. ASSUME NEW n \in NotifyChoices, ClearNamespace(c, n)  PROVE CoherenceInv'
  <2>1. call[c].pc = "idle" /\ "clearNamespace" \in Guarded \ Capturing
    BY <1>2, <1>14 DEF ClearNamespace, Guarded, Capturing
  <2>2. Affected(Note(n, "clearNamespace", "")) = Keys
    BY Affects
  <2>3. Write(c, Deleted(Keys),
              Replied("clearNamespace", {}, Keys, NoRows, 0, Note(n, "clearNamespace", "")))
    BY <1>14 DEF ClearNamespace
  <2> QED  BY <2>1, <2>2, <2>3, DeletingStep
<1>15. ASSUME NEW K \in SUBSET Keys, CleanupExpired(c, K)  PROVE CoherenceInv'
  <2> DEFINE reply == Replied("cleanupExpired", {}, K, NoRows, 0, NoNote)
  <2>1. call[c].pc = "idle" /\ "cleanupExpired" \in Guarded \ Capturing
    BY <1>2, <1>15 DEF CleanupExpired, Guarded, Capturing
  <2>2. \A x \in Keys : Deleted(K)[x] = row[x] \/ row[x].exp <= now
    <3> \A k \in K : row[k].exp \in Nat /\ now \in Nat
      BY DEF TypeOK, Rows
    <3> QED  BY <1>15 DEF CleanupExpired, Deleted, Live
  <2>3. NoWrite(c, reply) \/ Write(c, Deleted(K), reply)
    BY <1>15 DEF CleanupExpired
  <2> QED  BY <2>1, <2>2, <2>3, DeletingStep
<1>16. \A K : ~Unlink(c, K)
  BY <1>2, <1>4 DEF Unlink
<1>17. \A k, to : ~Rename(c, k, to)
  BY <1>2, <1>4 DEF Rename
<1> QED
  BY <1>5, <1>6, <1>7, <1>8, <1>9, <1>10, <1>11, <1>12, <1>13, <1>14, <1>15, <1>16, <1>17
  DEF Statement

\* A step of instance i alone, which at most outdates what its calls captured.
LEMMA LocalPreserves ==
    ASSUME TypeOK, TypeOK', CoherenceInv, NEW i \in Instances, UNCHANGED <<row, now>>,
           \A j \in Instances \ {i} : l1'[j] = l1[j] /\ inbox'[j] = inbox[j] /\ conn'[j] = conn[j],
           call' = call \/ call' = Outdated(call, i),
           Protected(i) => ConnStep(i) /\ L1Step(i) /\ PendingStep(i)
    PROVE  CoherenceInv'
<1>1. \A c \in Calls : \/ call'[c] = call[c]
                       \/ call'[c] = [call[c] EXCEPT !.fresh = FALSE]
  BY DEF Outdated
<1>2. \A c \in Calls : call[c] \in CallRecords
  BY DEF TypeOK
<1>3. \A c \in Calls : /\ call'[c].pc = call[c].pc /\ call'[c].op = call[c].op
                       /\ call'[c].store = call[c].store /\ call'[c].drop = call[c].drop
                       /\ call'[c].note = call[c].note
                       /\ call'[c].fresh => call'[c] = call[c]
  <2> SUFFICES ASSUME NEW c \in Calls
               PROVE  /\ call'[c].pc = call[c].pc /\ call'[c].op = call[c].op
                      /\ call'[c].store = call[c].store /\ call'[c].drop = call[c].drop
                      /\ call'[c].note = call[c].note
                      /\ call'[c].fresh => call'[c] = call[c]
    OBVIOUS
  <2>1. CASE call'[c] = call[c]
    BY <2>1
  <2>2. CASE call'[c] = [call[c] EXCEPT !.fresh = FALSE]
    <3>1. call'[c].fresh = FALSE
      BY <1>2, <2>2 DEF CallRecords
    <3>2. /\ call'[c].pc = call[c].pc /\ call'[c].op = call[c].op
          /\ call'[c].store = call[c].store /\ call'[c].drop = call[c].drop
          /\ call'[c].note = call[c].note
      BY <1>2, <2>2 DEF CallRecords
    <3> QED  BY <3>1, <3>2
  <2> QED  BY <1>1, <2>1, <2>2
<1>4. CallsOk'
  BY <1>3 DEF CoherenceInv, CallsOk
<1>5. ASSUME NEW j \in Instances, Protected(j)
      PROVE  CacheOk(j)' /\ InFlightOk(j)' /\ DownOk(j)'
  <2>1. ConnStep(j) /\ L1Step(j) /\ PendingStep(j)
    <3>1. CASE j = i
      BY <1>5, <3>1
    <3>2. CASE j # i
      <4>1. l1'[j] = l1[j] /\ inbox'[j] = inbox[j] /\ conn'[j] = conn[j]
        BY <3>2
      <4>2. ConnStep(j) /\ L1Step(j)
        BY <4>1 DEF ConnStep, L1Step, Same
      <4>3. PendingStep(j)
        BY <1>3, <4>1 DEF PendingStep, Pending
      <4> QED  BY <4>2, <4>3
    <3> QED  BY <3>1, <3>2
  <2>2. RowStep(j) /\ now <= now'
    BY DEF RowStep, TypeOK
  <2>3. CallStep(j)
    BY <1>3 DEF CallStep, CapturedFresh
  <2>4. CacheOk(j) /\ InFlightOk(j) /\ DownOk(j)
    BY <1>5 DEF CoherenceInv
  <2> QED  BY <2>1, <2>2, <2>3, <2>4, Preserved
<1> QED  BY <1>4, <1>5 DEF CoherenceInv

\* What i captured is outdated.
LEMMA OutdatedCalls ==
    ASSUME TypeOK, NEW i, call' = Outdated(call, i)
    PROVE  \A c \in Calls : ~CapturedFresh(i, c)'
<1>1. \A c \in Calls : call[c] \in CallRecords
  BY DEF TypeOK
<1> QED  BY <1>1 DEF Outdated, CapturedFresh, CallRecords

\* Notifications and local invalidations preserve the invariant.
LEMMA LocalCoherence ==
    ASSUME TypeOK, TypeOK', CoherenceInv, NEW i \in Instances, Local(i)
    PROVE  CoherenceInv'
<1>1. /\ l1[i] \in Caches
      /\ \A D : Shrunk(Without(l1[i], D), l1[i]) /\ \A k \in Keys \cap D : Without(l1[i], D)[k].exp = 0
  BY CacheType, WithoutEntries
<1>2. DOMAIN l1 = Instances /\ DOMAIN inbox = Instances /\ inbox[i] \in Seq(Notifications)
  BY DEF TypeOK
<1>3. CASE HandleNotification(i)
  <2> DEFINE gone == Affected(Head(inbox[i]))
             cache == Without(l1[i], gone)
  <2>1. /\ l1' = [l1 EXCEPT ![i] = cache] /\ inbox' = [inbox EXCEPT ![i] = Tail(@)]
        /\ inbox[i] # <<>> /\ UNCHANGED <<row, now, conn>>
        /\ call' = IF Names(Head(inbox[i])) THEN Outdated(call, i) ELSE call
    BY <1>3 DEF HandleNotification
  <2>2. \A k \in Keys : cache[k].exp = 0 \/ Same(cache[k], l1[i][k])
    <3> HIDE DEF gone
    <3> QED  BY <1>1 DEF Shrunk
  <2>3. \A k \in Keys : k \in gone => cache[k].exp = 0
    <3> HIDE DEF gone
    <3> QED  BY <1>1
  <2> HIDE DEF cache
  <2>4. ConnStep(i) /\ L1Step(i)
    BY <1>2, <2>1, <2>2 DEF ConnStep, L1Step
  <2>5. PendingStep(i)
    <3> SUFFICES ASSUME NEW k \in Keys, Pending(i, k)  PROVE Pending(i, k)' \/ Cleared(i, k)
      BY DEF PendingStep
    <3>1. CASE k \in gone
      <4>1. Names(Head(inbox[i]))
        BY <3>1 DEF Affected, Names
      <4>2. \A c \in Calls : ~CapturedFresh(i, c)'
        BY <2>1, <4>1, OutdatedCalls
      <4> QED  BY <1>2, <2>1, <2>3, <3>1, <4>2 DEF Cleared
    <3>2. CASE k \notin gone
      <4>1. ASSUME NEW n \in DOMAIN inbox[i], k \in Affected(inbox[i][n])
            PROVE  \E m \in DOMAIN inbox'[i] : k \in Affected(inbox'[i][m])
        <5>1. n # 1 /\ n \in 1..Len(inbox[i])
          BY <1>2, <2>1, <3>2, <4>1
        <5>2. inbox'[i] = Tail(inbox[i])
          BY <1>2, <2>1
        <5>3. n - 1 \in DOMAIN inbox'[i] /\ inbox'[i][n - 1] = inbox[i][n]
          BY <1>2, <2>1, <5>1, <5>2
        <5> QED  BY <4>1, <5>3
      <4>2. \A c \in Calls : call[c] \in CallRecords
        BY DEF TypeOK
      <4>3. \A c \in Calls : /\ call'[c].pc = call[c].pc /\ call'[c].drop = call[c].drop
                             /\ call'[c].note = call[c].note
        <5> HIDE DEF gone
        <5> QED  BY <2>1, <4>2 DEF Outdated, CallRecords
      <4> QED  BY <4>1, <4>3 DEF Pending
    <3> QED  BY <3>1, <3>2
  <2>6. \A j \in Instances \ {i} : l1'[j] = l1[j] /\ inbox'[j] = inbox[j] /\ conn'[j] = conn[j]
    BY <1>2, <2>1
  <2>7. call' = call \/ call' = Outdated(call, i)
    BY <2>1
  <2> QED  BY <2>1, <2>4, <2>5, <2>6, <2>7, LocalPreserves
<1>4. ASSUME \/ \E k \in Keys : Invalidate(i, k)
             \/ InvalidateAll(i)
      PROVE  CoherenceInv'
  <2>1. PICK cache : /\ l1' = [l1 EXCEPT ![i] = cache]
                     /\ \A k \in Keys : cache[k].exp = 0 \/ Same(cache[k], l1[i][k])
                     /\ call' = Outdated(call, i) /\ UNCHANGED <<row, now, inbox, conn>>
    <3>1. ASSUME NEW k \in Keys, Invalidate(i, k)
          PROVE  /\ l1' = [l1 EXCEPT ![i] = Without(l1[i], {k})]
                 /\ \A x \in Keys : \/ Without(l1[i], {k})[x].exp = 0
                                    \/ Same(Without(l1[i], {k})[x], l1[i][x])
                 /\ call' = Outdated(call, i) /\ UNCHANGED <<row, now, inbox, conn>>
      BY <1>1, <3>1 DEF Invalidate, Shrunk
    <3>2. ASSUME InvalidateAll(i)
          PROVE  /\ l1' = [l1 EXCEPT ![i] = EmptyL1]
                 /\ \A x \in Keys : EmptyL1[x].exp = 0
                 /\ call' = Outdated(call, i) /\ UNCHANGED <<row, now, inbox, conn>>
      BY <3>2 DEF InvalidateAll, EmptyL1, NoEntry
    <3> QED  BY <1>4, <3>1, <3>2
  <2>2. ConnStep(i) /\ L1Step(i)
    BY <1>2, <2>1 DEF ConnStep, L1Step
  <2>3. PendingStep(i)
    <3>1. \A c \in Calls : call[c] \in CallRecords
      BY DEF TypeOK
    <3>2. \A c \in Calls : /\ call'[c].pc = call[c].pc /\ call'[c].drop = call[c].drop
                           /\ call'[c].note = call[c].note
      BY <2>1, <3>1 DEF Outdated, CallRecords
    <3> QED  BY <2>1, <3>2 DEF PendingStep, Pending
  <2> QED  BY <1>2, <2>1, <2>2, <2>3, LocalPreserves
<1>5. CASE Stats(i)
  <2>1. /\ l1' = [l1 EXCEPT ![i] = Without(@, Expired(@))]
        /\ UNCHANGED <<row, now, call, inbox, conn>>
    BY <1>5 DEF Stats
  <2>2. Shrunk(Without(l1[i], Expired(l1[i])), l1[i]) /\ now <= now
    BY <1>1 DEF TypeOK
  <2>3. \A j \in Instances, k \in Keys : l1'[j][k].exp = 0 \/ Same(l1'[j][k], l1[j][k])
    BY <1>2, <2>1, <2>2 DEF Shrunk, Same
  <2> QED  BY <2>1, <2>2, <2>3, QuietStep
<1> QED  BY <1>3, <1>4, <1>5 DEF Local

\* The reply of call c as the calls see it: its record becomes one that
\* captures nothing, and at most the other calls of its instance are outdated.
Answered(c, reply) ==
    /\ call'[c] = reply /\ reply.op = "none" /\ reply.store = {}
    /\ \A d \in Calls \ {c} :
         /\ call'[d].pc = call[d].pc /\ call'[d].op = call[d].op
         /\ call'[d].store = call[d].store /\ call'[d].drop = call[d].drop
         /\ call'[d].note = call[d].note
         /\ call'[d].fresh => call'[d] = call[d]
    /\ call[c].drop # {} => \A d \in Calls : ~CapturedFresh(Home[c], d)'

LEMMA ReplyAnswers ==
    ASSUME TypeOK, NEW c \in Calls, Reply(c)
    PROVE  /\ Answered(c, call'[c])
           /\ call[c].note # NoNote => call'[c].pc = "publish" /\ call'[c].note = call[c].note
<1> DEFINE record == IF call[c].note = NoNote THEN Idle
                     ELSE [Idle EXCEPT !.pc = "publish", !.note = call[c].note]
           calls == IF call[c].drop = {} THEN call ELSE Outdated(call, Home[c])
<1>1. call' = [calls EXCEPT ![c] = record]
  BY ReplyParts
<1>2. calls \in [Calls -> CallRecords]
  BY OutdatedType DEF TypeOK
<1>3. /\ record.op = "none" /\ record.store = {}
      /\ call[c].note # NoNote => record.pc = "publish" /\ record.note = call[c].note
  BY DEF Idle
<1>4. \A d \in Calls : call[d] \in CallRecords
  BY DEF TypeOK
<1>5. \A d \in Calls : calls[d] = call[d] \/ calls[d] = [call[d] EXCEPT !.fresh = FALSE]
  BY DEF Outdated
<1>6. call[c].drop # {} => \A d \in Calls : ~(Home[d] = Home[c] /\ calls[d].op \in Capturing /\ calls[d].fresh)
  BY <1>4 DEF Outdated, CallRecords
<1> HIDE DEF record, calls
<1>7. call'[c] = record /\ \A d \in Calls \ {c} : call'[d] = calls[d]
  BY <1>1, <1>2
<1>8. ASSUME NEW d \in Calls \ {c}
      PROVE  /\ call'[d].pc = call[d].pc /\ call'[d].op = call[d].op
             /\ call'[d].store = call[d].store /\ call'[d].drop = call[d].drop
             /\ call'[d].note = call[d].note
             /\ call'[d].fresh => call'[d] = call[d]
  <2>1. CASE call'[d] = call[d]
    BY <2>1
  <2>2. CASE call'[d] = [call[d] EXCEPT !.fresh = FALSE]
    <3>1. call'[d].fresh = FALSE
      BY <1>4, <2>2 DEF CallRecords
    <3>2. /\ call'[d].pc = call[d].pc /\ call'[d].op = call[d].op
          /\ call'[d].store = call[d].store /\ call'[d].drop = call[d].drop
          /\ call'[d].note = call[d].note
      BY <1>4, <2>2 DEF CallRecords
    <3> QED  BY <3>1, <3>2
  <2> QED  BY <1>5, <1>7, <2>1, <2>2
<1>9. call[c].drop # {} => \A d \in Calls : ~CapturedFresh(Home[c], d)'
  <2>1. "none" \notin Capturing
    BY DEF Capturing
  <2> QED  BY <1>3, <1>6, <1>7, <2>1 DEF CapturedFresh
<1> QED  BY <1>3, <1>7, <1>8, <1>9 DEF Answered

\* A reply preserves the invariant: it stores only what it captured, and does
\* the deletions that were pending on it.
LEMMA ReplyCoherence ==
    ASSUME TypeOK, TypeOK', CoherenceInv, NEW c \in Calls, Reply(c)
    PROVE  CoherenceInv'
<1> DEFINE i == Home[c]
<1>1. Answered(c, call'[c]) /\ (call[c].note # NoNote => call'[c].pc = "publish" /\ call'[c].note = call[c].note)
  BY ReplyAnswers
<1>2. PICK stored, new :
        /\ Stored(stored, l1[i], ToStore(c), Returns(c))
        /\ Shrunk(new, stored)
        /\ \A k \in call[c].drop : new[k].exp = 0
        /\ l1' = [l1 EXCEPT ![i] = new]
  BY ReplyParts
<1>3. UNCHANGED <<row, now, inbox, conn>> /\ call[c].pc = "replied"
  BY DEF Reply
<1>4. DOMAIN l1 = Instances /\ i \in Instances /\ now <= now
  BY CallsAssumption DEF TypeOK
<1>5. CallsOk'
  <2>1. \A d \in Calls : \/ call'[d].op = "none" /\ call'[d].store = {}
                         \/ /\ call'[d].pc = call[d].pc /\ call'[d].op = call[d].op
                            /\ call'[d].store = call[d].store
    BY <1>1 DEF Answered
  <2> QED  BY <2>1 DEF CoherenceInv, CallsOk
<1>6. ASSUME NEW j \in Instances, Protected(j)
      PROVE  CacheOk(j)' /\ InFlightOk(j)' /\ DownOk(j)'
  <2>1. L1Step(j)
    <3>1. CASE j # i
      BY <1>2, <1>4, <3>1 DEF L1Step, Same
    <3>2. CASE j = i
      <4> SUFFICES ASSUME NEW k \in Keys, new[k].exp # 0
                   PROVE  \/ Same(new[k], l1[i][k])
                          \/ /\ CapturedFresh(i, c) /\ k \in call[c].store
                             /\ new[k].rev = call[c].rows[k].rev
                             /\ new[k].exp <= call[c].rows[k].exp
        BY <1>2, <1>3, <1>4, <3>2 DEF L1Step
      <4>1. Same(new[k], stored[k])
        BY <1>2 DEF Shrunk
      <4>2. CASE k \notin ToStore(c) /\ Same(stored[k], l1[i][k])
        BY <4>1, <4>2 DEF Same
      <4>3. CASE /\ k \in ToStore(c)
                 /\ stored[k].rev = Returns(c)[k].rev /\ stored[k].exp <= Returns(c)[k].exp
        <5>1. k \in call[c].store /\ call[c].op \in Capturing /\ call[c].fresh
          BY <1>3, <1>6, <3>2, <4>3 DEF ToStore, CoherenceInv, CallsOk
        <5>2. Returns(c)[k] = call[c].rows[k]
          BY <5>1 DEF Returns, Capturing, Relative
        <5> QED  BY <4>1, <4>3, <5>1, <5>2 DEF Same, CapturedFresh
      <4> QED  BY <1>2, <4>1, <4>2, <4>3 DEF Stored, Same
    <3> QED  BY <3>1, <3>2
  <2>2. PendingStep(j)
    <3> SUFFICES ASSUME NEW k \in Keys, Pending(j, k)  PROVE Pending(j, k)' \/ Cleared(j, k)
      BY DEF PendingStep
    <3>1. CASE j = i /\ k \in call[c].drop
      <4>1. \A d \in Calls : ~CapturedFresh(i, d)'
        BY <1>1, <3>1 DEF Answered
      <4> QED  BY <1>2, <1>4, <3>1, <4>1 DEF Cleared
    <3>2. CASE i # j /\ k \in Affected(call[c].note)
      <4>1. call[c].note # NoNote
        BY <3>2, NothingAffected
      <4> QED  BY <1>1, <3>2, <4>1 DEF Pending
    <3>3. CASE \E n \in DOMAIN inbox[j] : k \in Affected(inbox[j][n])
      BY <1>3, <3>3 DEF Pending
    <3>4. ASSUME NEW d \in Calls \ {c},
                 \/ Home[d] # j /\ call[d].pc \in {"replied", "publish"} /\ k \in Affected(call[d].note)
                 \/ Home[d] = j /\ call[d].pc = "replied" /\ k \in call[d].drop
          PROVE  Pending(j, k)'
      BY <1>1, <3>4 DEF Pending, Answered
    <3> QED  BY <3>1, <3>2, <3>3, <3>4 DEF Pending
  <2>3. CallStep(j)
    <3>1. ~CapturedFresh(j, c)'
      BY <1>1 DEF Answered, CapturedFresh, Capturing
    <3> QED  BY <1>1, <3>1 DEF Answered, CallStep, CapturedFresh
  <2>4. ConnStep(j) /\ RowStep(j)
    BY <1>3 DEF ConnStep, RowStep
  <2>5. CacheOk(j) /\ InFlightOk(j) /\ DownOk(j)
    BY <1>6 DEF CoherenceInv
  <2> QED  BY <1>3, <1>4, <2>1, <2>2, <2>3, <2>4, <2>5, Preserved
<1> QED  BY <1>5, <1>6 DEF CoherenceInv

\* The end of a call, after which no invalidation is lost.
LEMMA EndingStep ==
    ASSUME TypeOK, TypeOK', CoherenceInv, NEW c \in Calls, call' = [call EXCEPT ![c] = Idle],
           UNCHANGED <<row, now, l1, conn>>,
           \A j \in Instances : PendingStep(j)
    PROVE  CoherenceInv'
<1>1. /\ call'[c] = Idle /\ \A d \in Calls \ {c} : call'[d] = call[d]
      /\ now <= now
  BY DEF TypeOK
<1>2. Idle.op = "none" /\ Idle.store = {} /\ "none" \notin Capturing
  BY DEF Idle, Capturing
<1>3. CallsOk'
  <2>1. \A d \in Calls : call'[d] = call[d] \/ (call'[d].op = "none" /\ call'[d].store = {})
    BY <1>1, <1>2
  <2> QED  BY <2>1 DEF CoherenceInv, CallsOk
<1>4. ASSUME NEW j \in Instances, Protected(j)
      PROVE  CacheOk(j)' /\ InFlightOk(j)' /\ DownOk(j)'
  <2>1. ConnStep(j) /\ L1Step(j) /\ RowStep(j)
    BY DEF ConnStep, L1Step, Same, RowStep
  <2>2. CallStep(j)
    BY <1>1, <1>2 DEF CallStep, CapturedFresh
  <2>3. CacheOk(j) /\ InFlightOk(j) /\ DownOk(j)
    BY <1>4 DEF CoherenceInv
  <2> QED  BY <1>1, <2>1, <2>2, <2>3, Preserved
<1> QED  BY <1>3, <1>4 DEF CoherenceInv

\* pg_notify moves an invalidation from the call to the connected instances.
LEMMA PublishCoherence ==
    ASSUME TypeOK, TypeOK', CoherenceInv, NEW c \in Calls, Publish(c)
    PROVE  CoherenceInv'
<1>1. /\ call[c].pc = "publish" /\ call' = [call EXCEPT ![c] = Idle]
      /\ UNCHANGED <<row, now, l1, conn>>
      /\ \A j \in Instances : inbox'[j] = IF j # Home[c] /\ conn[j] = "up"
                                          THEN Append(inbox[j], call[c].note) ELSE inbox[j]
  BY DEF Publish
<1>2. ASSUME NEW j \in Instances, conn[j] = "up", NEW k \in Keys, Pending(j, k)
      PROVE  Pending(j, k)'
  <2>1. inbox[j] \in Seq(Notifications)
    BY DEF TypeOK
  <2>2. ASSUME NEW n \in DOMAIN inbox[j]
        PROVE  n \in DOMAIN inbox'[j] /\ inbox'[j][n] = inbox[j][n]
    <3>1. n \in 1..Len(inbox[j])
      BY <2>1, <2>2
    <3>2. CASE inbox'[j] = inbox[j]
      BY <3>2, <2>2
    <3>3. CASE inbox'[j] = Append(inbox[j], call[c].note)
      BY <2>1, <3>1, <3>3
    <3> QED  BY <1>1, <3>2, <3>3
  <2>3. CASE j # Home[c] /\ k \in Affected(call[c].note)
    <3>1. inbox'[j] = Append(inbox[j], call[c].note)
      BY <1>1, <1>2, <2>3
    <3>2. \E n \in DOMAIN inbox'[j] : inbox'[j][n] = call[c].note
      BY <2>1, <3>1
    <3> QED  BY <2>3, <3>2 DEF Pending
  <2>4. ASSUME NEW d \in Calls \ {c}  PROVE call'[d] = call[d]
    BY <1>1 DEF TypeOK
  <2> QED  BY <1>1, <1>2, <2>2, <2>3, <2>4 DEF Pending
<1>3. \A j \in Instances : PendingStep(j)
  BY <1>1, <1>2 DEF PendingStep
<1> QED  BY <1>1, <1>3, EndingStep

\* Under Disciplined a call only dies with a statement that changed nothing.
LEMMA ThrowCoherence ==
    ASSUME Disciplined, TypeOK, TypeOK', CoherenceInv, NEW c \in Calls, Throw(c)
    PROVE  CoherenceInv'
<1>1. /\ call[c].pc = "issued" /\ call' = [call EXCEPT ![c] = Idle]
      /\ UNCHANGED <<row, now, l1, conn, inbox>>
  BY DEF Throw, Fault, Disciplined
<1>2. \A d \in Calls \ {c} : call'[d] = call[d]
  BY <1>1 DEF TypeOK
<1>3. \A j \in Instances : PendingStep(j)
  BY <1>1, <1>2 DEF PendingStep, Pending
<1> QED  BY <1>1, <1>3, EndingStep

\* The listener's connection: what a lost connection missed is cleared by
\* "reconnect", and nothing is captured until LISTEN takes effect.
LEMMA ConnectionCoherence ==
    ASSUME Disciplined, TypeOK, TypeOK', CoherenceInv, NEW i \in Instances, Connection(i)
    PROVE  CoherenceInv'
<1>1. DOMAIN l1 = Instances /\ DOMAIN inbox = Instances /\ DOMAIN conn = Instances
  BY DEF TypeOK
<1>2. ASSUME Reconnect(i), UNCHANGED <<row, now, inbox>>  PROVE CoherenceInv'
  <2>1. /\ conn' = [conn EXCEPT ![i] = "down"] /\ l1' = [l1 EXCEPT ![i] = EmptyL1]
        /\ call' = Outdated(call, i)
    BY <1>2 DEF Reconnect, Disciplined
  <2>2. \A c \in Calls : ~CapturedFresh(i, c)'
    BY <2>1, OutdatedCalls
  <2>3. conn'[i] = "down" /\ \A k \in Keys : l1'[i][k].exp = 0
    BY <1>1, <2>1 DEF EmptyL1, NoEntry
  <2>4. ConnStep(i) /\ L1Step(i) /\ PendingStep(i)
    BY <2>2, <2>3 DEF ConnStep, L1Step, PendingStep
  <2> QED  BY <1>1, <1>2, <2>1, <2>4, LocalPreserves
<1>3. CASE NoticeClose(i)
  BY <1>2, <1>3 DEF NoticeClose
<1>4. CASE ConnectFails(i)
  BY <1>2, <1>4 DEF ConnectFails
<1>5. CASE Listening(i)
  <2>1. /\ conn[i] \in {"starting", "down"} /\ conn' = [conn EXCEPT ![i] = "up"]
        /\ UNCHANGED <<row, now, l1, call, inbox>>
    BY <1>5 DEF Listening
  <2>2. ConnStep(i) /\ L1Step(i) /\ PendingStep(i)
    BY <1>1, <2>1 DEF ConnStep, L1Step, Same, PendingStep, Pending
  <2> QED  BY <1>1, <2>1, <2>2, LocalPreserves
<1>6. ASSUME StartListener(i) \/ StopListener(i)  PROVE CoherenceInv'
  <2>1. ~Protected(i)
    BY <1>6 DEF StartListener, StopListener, CanUse, Protected, Guarded
  <2>2. /\ \A j \in Instances \ {i} : inbox'[j] = inbox[j] /\ conn'[j] = conn[j]
        /\ UNCHANGED <<row, now, l1, call>>
    BY <1>1, <1>6 DEF StartListener, StopListener
  <2> QED  BY <2>1, <2>2, LocalPreserves
<1>7. CASE Disconnect(i)
  <2>1. /\ conn' = [conn EXCEPT ![i] = "lost"] /\ UNCHANGED <<row, now, l1, call>>
        /\ \A j \in Instances \ {i} : inbox'[j] = inbox[j]
    BY <1>1, <1>7 DEF Disconnect
  <2>2. ConnStep(i) /\ L1Step(i) /\ PendingStep(i)
    BY <1>1, <2>1 DEF ConnStep, L1Step, Same, PendingStep
  <2> QED  BY <1>1, <2>1, <2>2, LocalPreserves
<1>8. ~Crash(i)
  BY DEF Crash, Fault, Disciplined
<1> QED  BY <1>3, <1>4, <1>5, <1>6, <1>7, <1>8 DEF Connection

\* In every reachable state of a disciplined deployment, what L1 holds and
\* what a call is about to store matches the table, or its invalidation is on
\* its way (the l1Generation guard of get and mget, handleNotification, and
\* the clear on "reconnect").
THEOREM CoherenceInvariant == ASSUME Disciplined PROVE Spec => []CoherenceInv
<1>1. Init => CoherenceInv
  <2> SUFFICES ASSUME Init  PROVE CoherenceInv
    OBVIOUS
  <2>1. /\ \A i \in Instances, k \in Keys : l1[i][k].exp = 0
        /\ \A c \in Calls : call[c] = Idle
        /\ \A i \in Instances : conn[i] = "starting"
    BY DEF Init, EmptyL1, NoEntry
  <2>2. Idle.op = "none" /\ Idle.store = {} /\ "none" \notin Capturing
    BY DEF Idle, Capturing
  <2> QED
    BY <2>1, <2>2 DEF CoherenceInv, CallsOk, CacheOk, InFlightOk, DownOk, CapturedFresh
<1>2. Disciplined /\ TypeOK /\ TypeOK' /\ CoherenceInv /\ [Next]_vars => CoherenceInv'
  <2> SUFFICES ASSUME Disciplined, TypeOK, TypeOK', CoherenceInv, [Next]_vars
               PROVE  CoherenceInv'
    OBVIOUS
  <2>1. ASSUME Tick \/ UNCHANGED vars  PROVE CoherenceInv'
    <3>1. /\ UNCHANGED <<row, call, inbox, conn>> /\ now <= now'
          /\ \A i \in Instances, k \in Keys : l1'[i][k].exp = 0 \/ Same(l1'[i][k], l1[i][k])
      BY <2>1 DEF Tick, vars, Same, TypeOK
    <3> QED  BY <3>1, QuietStep
  <2> QED
    BY <2>1, StatementCoherence, ReplyCoherence, PublishCoherence, ThrowCoherence,
       LocalCoherence, ConnectionCoherence DEF Next
<1> QED  BY <1>1, <1>2, TypeCorrect, PTL DEF Spec

\* A cache hit of a protected instance whose listener is connected returns the
\* current value of a live row, unless an invalidation is already on its way:
\* README.md's promise, for every number of processes, keys and calls.
THEOREM Coherence == ASSUME Disciplined PROVE Spec => []Coherent
<1>1. TypeOK /\ CoherenceInv => Coherent
  <2> SUFFICES ASSUME TypeOK, CoherenceInv, NEW i \in Instances, Protected(i), conn[i] = "up",
                      NEW k \in Keys, Served(i, k)
               PROVE  Current(i, k) \/ Pending(i, k)
    BY DEF Coherent
  <2>1. row[k] \in Rows /\ l1[i][k] \in Entries /\ now \in Nat
    BY DEF TypeOK
  <2>2. Match(l1[i][k], k) \/ Pending(i, k)
    BY DEF CoherenceInv, CacheOk, Served
  <2> QED  BY <2>1, <2>2 DEF Match, Served, Current, Live, Rows, Entries
<1> QED  BY <1>1, TypeCorrect, CoherenceInvariant, PTL
=============================================================================
