----------------------------- MODULE KvMapProofs -----------------------------
(***************************************************************************)
(* The Map of a process never outgrows l1.max and stays in insertion       *)
(* order, for every number of processes, keys and calls, and whatever      *)
(* fails.                                                                  *)
(***************************************************************************)
EXTENDS KvCacheProofs

-----------------------------------------------------------------------------
(* The inductive invariant.                                                *)

\* The cached keys have distinct places, as many as there are keys.
Ordered(cache) ==
    /\ cache \in Caches
    /\ \A k \in Cached(cache) : cache[k].pos \in 1..Cardinality(Cached(cache))
    /\ \A k, x \in Cached(cache) : cache[k].pos = cache[x].pos => k = x

MapOk(i, cache) ==
    /\ Ordered(cache)
    /\ Cardinality(Cached(cache)) <= L1Max
    /\ i \notin L1Enabled => Cached(cache) = {}
MapInv == \A i \in Instances : MapOk(i, l1[i])

-----------------------------------------------------------------------------
(* Places.                                                                 *)

\* All places are taken.
LEMMA AllTaken ==
    ASSUME NEW cache, Ordered(cache)
    PROVE  {cache[k].pos : k \in Cached(cache)} = 1..Cardinality(Cached(cache))
<1> DEFINE C == Cached(cache)
           n == Cardinality(C)
           f == [k \in C |-> cache[k].pos]
<1>1. IsFiniteSet(C) /\ n \in Nat
  BY CardinalityType DEF Cached
<1>2. f \in Injection(C, 1..n)
  BY DEF Ordered, Injection, IsInjective
<1>3. IsFiniteSet(1..n) /\ Cardinality(1..n) = n
  BY <1>1, FS_Interval
<1>4. f \in Surjection(C, 1..n)
  <2> HIDE DEF C, f
  <2> QED  BY <1>2, <1>3, FS_Injection DEF n
<1>5. {cache[k].pos : k \in C} = 1..n
  <2>1. \A t \in 1..n : \E k \in C : f[k] = t
    <3> HIDE DEF f, C, n
    <3> QED  BY <1>4 DEF Surjection
  <2> QED  BY <1>2, <2>1 DEF Injection, IsInjective
<1> QED  BY <1>5

\* What stays is numbered anew, from 1 on, in the same order.
LEMMA Ranks ==
    ASSUME NEW cache \in Caches, NEW S \in SUBSET Keys,
           \A k, x \in S : cache[k].pos = cache[x].pos => k = x
    PROVE  /\ \A k \in S : Cardinality({x \in S : cache[x].pos <= cache[k].pos}) \in 1..Cardinality(S)
           /\ \A k, m \in S : Cardinality({x \in S : cache[x].pos <= cache[k].pos})
                              = Cardinality({x \in S : cache[x].pos <= cache[m].pos}) => k = m
<1> DEFINE B(k) == {x \in S : cache[x].pos <= cache[k].pos}
<1>1. \A k \in S : cache[k].pos \in Nat
  BY DEF Caches, Entries
<1>2. \A k \in S : B(k) \in SUBSET S /\ k \in B(k) /\ IsFiniteSet(B(k)) /\ Cardinality(B(k)) \in Nat
  <2> TAKE k \in S
  <2>1. B(k) \in SUBSET S /\ B(k) \in SUBSET Keys
    OBVIOUS
  <2>2. k \in B(k)
    BY <1>1
  <2> QED  BY <2>1, <2>2, CardinalityType
<1>3. IsFiniteSet(S) /\ Cardinality(S) \in Nat
  BY CardinalityType
<1> HIDE DEF B
<1>4. \A k \in S : Cardinality(B(k)) \in 1..Cardinality(S)
  <2> TAKE k \in S
  <2>1. Cardinality(B(k)) # 0
    BY <1>2, FS_EmptySet
  <2>2. Cardinality(B(k)) <= Cardinality(S)
    BY <1>2, <1>3, FS_Subset
  <2> QED  BY <1>2, <1>3, <2>1, <2>2
<1>5. ASSUME NEW k \in S, NEW m \in S, cache[k].pos < cache[m].pos
      PROVE  Cardinality(B(k)) # Cardinality(B(m))
  <2>1. B(k) \in SUBSET B(m)
    BY <1>1, <1>5 DEF B
  <2>2. m \notin B(k)
    BY <1>1, <1>5 DEF B
  <2>3. Cardinality(B(m)) = Cardinality(B(k)) => B(m) = B(k)
    BY <1>2, <2>1, FS_Subset
  <2> QED  BY <1>2, <2>2, <2>3
<1>6. ASSUME NEW k \in S, NEW m \in S, Cardinality(B(k)) = Cardinality(B(m))  PROVE k = m
  <2>1. cache[k].pos \in Nat /\ cache[m].pos \in Nat
    BY <1>1
  <2>2. ~(cache[k].pos < cache[m].pos) /\ ~(cache[m].pos < cache[k].pos)
    BY <1>5, <1>6
  <2> QED  BY <2>1, <2>2
<1> QED  BY <1>4, <1>6 DEF B

\* Reinsert keeps the order of what stays, and puts the others behind it.
LEMMA ReinsertOrdered ==
    ASSUME NEW cache, Ordered(cache), NEW stay \in SUBSET Cached(cache), NEW K \in SUBSET Keys, stay \cap K = {},
           NEW place \in Places(K), NEW given, \A k \in K : given[k].rev \in Nat /\ given[k].exp \in Nat
    PROVE  LET new == Reinsert(cache, stay, place, given)
           IN  Ordered(new) /\ Cached(new) = stay \cup K
<1> DEFINE new == Reinsert(cache, stay, place, given)
           rank(k) == Cardinality({x \in stay : cache[x].pos <= cache[k].pos})
           s == Cardinality(stay)
           n == Cardinality(K)
<1>1. cache \in Caches /\ stay \in SUBSET Keys
  BY DEF Ordered, Cached
<1>2. s \in Nat /\ n \in Nat /\ IsFiniteSet(stay) /\ IsFiniteSet(K)
  BY <1>1, CardinalityType
<1>3. /\ \A k \in stay : rank(k) \in 1..s
      /\ \A k, m \in stay : rank(k) = rank(m) => k = m
  <2>1. \A k, x \in stay : cache[k].pos = cache[x].pos => k = x
    BY DEF Ordered
  <2> QED  BY <1>1, <2>1, Ranks
<1>4. place \in [K -> 1..n] /\ \A k, m \in K : place[k] = place[m] => k = m
  BY DEF Places, Injection, IsInjective
<1>5. new \in Caches
  <2>1. Given(place, given)
    BY <1>2, <1>4 DEF Given
  <2> QED  BY <1>1, <2>1, ReinsertEntries DEF Reinserted
<1>6. ASSUME NEW k \in Keys
      PROVE  /\ k \in stay => new[k].pos = rank(k)
             /\ k \in K => new[k].pos = s + place[k]
             /\ k \notin stay \cup K => new[k] = NoEntry
  <2>1. CASE k \in stay
    <3>1. new[k] = [cache[k] EXCEPT !.pos = rank(k)]
      BY <2>1 DEF Reinsert
    <3>2. cache[k] \in Entries
      BY <1>1 DEF Caches
    <3> HIDE DEF rank, new
    <3> QED  BY <2>1, <3>1, <3>2 DEF Entries
  <2>2. CASE k \in K
    <3>1. new[k] = [rev |-> given[k].rev, exp |-> given[k].exp, pos |-> s + place[k]]
      BY <1>4, <2>2 DEF Reinsert
    <3> HIDE DEF new
    <3> QED  BY <2>2, <3>1
  <2>3. CASE k \notin stay \cup K
    BY <1>4, <2>3 DEF Reinsert
  <2> QED  BY <2>1, <2>2, <2>3
<1> HIDE DEF new, rank
<1>7. Cached(new) = stay \cup K
  <2>1. ASSUME NEW k \in stay \cup K  PROVE new[k].pos # 0
    <3>1. CASE k \in stay
      BY <1>1, <1>2, <1>3, <1>6, <3>1
    <3>2. CASE k \in K
      BY <1>2, <1>4, <1>6, <3>2
    <3> QED  BY <2>1, <3>1, <3>2
  <2>2. NoEntry.pos = 0
    BY DEF NoEntry
  <2> QED  BY <1>1, <1>6, <2>1, <2>2 DEF Cached
<1>8. Cardinality(Cached(new)) = s + n
  <2>1. Cardinality(stay \cap K) = 0
    BY FS_EmptySet
  <2>2. Cardinality(stay \cup K) = s + n - Cardinality(stay \cap K)
    BY <1>2, FS_Union
  <2> QED  BY <1>2, <1>7, <2>1, <2>2
<1> HIDE DEF s, n
<1>9. \A k \in stay \cup K : new[k].pos \in 1..(s + n)
  <2> TAKE k \in stay \cup K
  <2>1. CASE k \in stay
    BY <1>1, <1>2, <1>3, <1>6, <2>1
  <2>2. CASE k \in K
    BY <1>2, <1>4, <1>6, <2>2
  <2> QED  BY <2>1, <2>2
<1>10. ASSUME NEW k \in stay \cup K, NEW m \in stay \cup K, new[k].pos = new[m].pos  PROVE k = m
  <2>1. CASE k \in stay /\ m \in stay
    BY <1>1, <1>3, <1>6, <1>10, <2>1
  <2>2. CASE k \in K /\ m \in K
    <3>1. s + place[k] = s + place[m] /\ place[k] \in Nat /\ place[m] \in Nat
      BY <1>2, <1>4, <1>6, <1>10, <2>2
    <3>2. place[k] = place[m]
      BY <1>2, <3>1
    <3> QED  BY <1>4, <2>2, <3>2
  <2>3. CASE k \in stay /\ m \in K
    BY <1>1, <1>2, <1>3, <1>4, <1>6, <1>10, <2>3
  <2>4. CASE k \in K /\ m \in stay
    BY <1>1, <1>2, <1>3, <1>4, <1>6, <1>10, <2>4
  <2> QED  BY <2>1, <2>2, <2>3, <2>4
<1> QED  BY <1>5, <1>7, <1>8, <1>9, <1>10 DEF Ordered, new

\* enforceL1Max deletes the oldest, and no more than it must.
LEMMA EvictOrdered ==
    ASSUME NEW cache, Ordered(cache)
    PROVE  LET new == Evict(cache)
           IN  Ordered(new) /\ Cardinality(Cached(new)) <= L1Max /\ Cached(new) \subseteq Cached(cache)
<1> DEFINE C == Cached(cache)
           n == Cardinality(C)
           over == n - L1Max
           Young == {k \in C : over < cache[k].pos}
           E == [k \in Keys |-> IF cache[k].pos <= over THEN NoEntry ELSE [cache[k] EXCEPT !.pos = @ - over]]
<1>1. /\ C \in SUBSET Keys /\ n \in Nat /\ L1Max \in Nat \ {0} /\ over \in Int
      /\ cache \in Caches /\ \A k \in Keys : cache[k] \in Entries /\ cache[k].pos \in Nat
  <2>1. C \in SUBSET Keys
    BY DEF Cached
  <2>2. n \in Nat
    BY <2>1, CardinalityType
  <2>3. \A k \in Keys : cache[k] \in Entries /\ cache[k].pos \in Nat
    BY DEF Ordered, Caches, Entries
  <2> HIDE DEF C, n
  <2> QED  BY <2>1, <2>2, <2>3, OptionsAssumption DEF Ordered
<1>2. Evict(cache) = IF over <= 0 THEN cache ELSE E
  BY DEF Evict
<1>3. CASE over <= 0
  <2>1. n <= L1Max
    <3> HIDE DEF n
    <3> QED  BY <1>1, <1>3
  <2> QED  BY <1>2, <1>3, <2>1
<1>4. CASE 0 < over
  <2>1. Evict(cache) = E
    <3> HIDE DEF over, E
    <3> QED  BY <1>1, <1>2, <1>4
  <2>2. ASSUME NEW k \in Keys
        PROVE  IF cache[k].pos <= over THEN E[k] = NoEntry
               ELSE E[k] \in Entries /\ E[k].pos = cache[k].pos - over /\ E[k].pos \in Nat \ {0}
    <3>1. E[k] = IF cache[k].pos <= over THEN NoEntry ELSE [cache[k] EXCEPT !.pos = @ - over]
      OBVIOUS
    <3> HIDE DEF E, over
    <3>2. CASE cache[k].pos <= over
      BY <3>1, <3>2
    <3>3. CASE over < cache[k].pos
      <4>1. cache[k].pos - over \in Nat \ {0}
        BY <1>1, <1>4, <3>3
      <4>2. E[k] = [cache[k] EXCEPT !.pos = cache[k].pos - over]
        BY <1>1, <3>1, <3>3
      <4>3. E[k] \in Entries /\ E[k].pos = cache[k].pos - over
        BY <1>1, <4>1, <4>2 DEF Entries
      <4> QED  BY <1>1, <3>3, <4>1, <4>3
    <3> QED  BY <1>1, <3>2, <3>3
  <2>3. E \in Caches
    <3>1. NoEntry \in Entries
      BY DEF NoEntry, Entries
    <3>2. \A k \in Keys : E[k] \in Entries
      <4> HIDE DEF E, over
      <4> QED  BY <1>1, <2>2, <3>1
    <3> QED  BY <3>2 DEF Caches
  <2> HIDE DEF E, over, C, n
  <2>4. NoEntry.pos = 0
    BY DEF NoEntry
  <2>5. Cached(E) = Young
    <3>1. \A k \in Keys : cache[k] = NoEntry => cache[k].pos <= over
      BY <1>1, <1>4, <2>4
    <3>2. \A k \in Keys : E[k] # NoEntry <=> over < cache[k].pos
      BY <1>1, <2>2, <2>4
    <3> QED  BY <1>1, <3>1, <3>2 DEF Cached, C
  <2>6. Young \in SUBSET C /\ Young \in SUBSET Keys
    BY <1>1
  <2>7. \A k \in C : cache[k].pos \in 1..n
    BY DEF Ordered, C, n
  <2>8. over = n - L1Max
    BY DEF over
  <2>9. Cardinality(Young) = L1Max
    <3> DEFINE f == [k \in Young |-> cache[k].pos - over]
    <3>1. \A k \in Young : cache[k].pos - over \in 1..L1Max
      BY <1>1, <2>6, <2>7, <2>8
    <3>2. \A k, x \in Young : cache[k].pos - over = cache[x].pos - over => k = x
      <4> SUFFICES ASSUME NEW k \in Young, NEW x \in Young, cache[k].pos - over = cache[x].pos - over
                   PROVE  k = x
        OBVIOUS
      <4>1. cache[k].pos = cache[x].pos
        BY <1>1, <2>6
      <4> QED  BY <2>6, <4>1 DEF Ordered, C
    <3>3. \A t \in 1..L1Max : \E k \in Young : cache[k].pos - over = t
      <4> TAKE t \in 1..L1Max
      <4>1. t + over \in 1..n /\ over < t + over
        BY <1>1, <1>4, <2>8
      <4>2. PICK k \in C : cache[k].pos = t + over
        BY <4>1, AllTaken DEF C, n
      <4> QED  BY <1>1, <4>1, <4>2
    <3>4. f \in Injection(Young, 1..L1Max)
      <4> HIDE DEF Young
      <4> QED  BY <3>1, <3>2 DEF Injection, IsInjective
    <3>5. f \in Surjection(Young, 1..L1Max)
      <4> HIDE DEF Young
      <4> QED  BY <3>1, <3>3 DEF Surjection
    <3>6. IsFiniteSet(1..L1Max) /\ Cardinality(1..L1Max) = L1Max
      BY <1>1, FS_Interval
    <3> HIDE DEF f, Young
    <3> QED  BY <3>4, <3>5, <3>6, FS_Injection
  <2>10. ASSUME NEW k \in Young  PROVE E[k].pos = cache[k].pos - over /\ E[k].pos \in 1..L1Max
    <3>1. k \in Keys /\ cache[k].pos \in 1..n /\ over < cache[k].pos
      BY <2>6, <2>7
    <3>2. E[k].pos = cache[k].pos - over
      BY <1>1, <2>2, <3>1
    <3> QED  BY <1>1, <2>8, <3>1, <3>2
  <2>11. ASSUME NEW k \in Young, NEW x \in Young, E[k].pos = E[x].pos  PROVE k = x
    <3>1. cache[k].pos - over = cache[x].pos - over /\ cache[k].pos \in Nat /\ cache[x].pos \in Nat
      BY <1>1, <2>6, <2>10, <2>11
    <3>2. cache[k].pos = cache[x].pos
      BY <1>1, <3>1
    <3> QED  BY <2>6, <3>2 DEF Ordered, C
  <2> HIDE DEF Young
  <2>12. Ordered(E)
    BY <2>3, <2>5, <2>9, <2>10, <2>11 DEF Ordered
  <2>13. Cardinality(Cached(E)) <= L1Max
    BY <1>1, <2>5, <2>9
  <2> QED  BY <2>1, <2>5, <2>6, <2>12, <2>13 DEF C
<1> QED
  <2> HIDE DEF over
  <2> QED  BY <1>1, <1>3, <1>4

-----------------------------------------------------------------------------
(* The operations on a Map.                                                *)

\* A subset of the cached keys is no larger.
LEMMA Fewer ==
    ASSUME NEW cache, NEW new, Cached(new) \subseteq Cached(cache)
    PROVE  Cardinality(Cached(new)) <= Cardinality(Cached(cache)) /\ Cardinality(Cached(cache)) \in Nat
<1>1. Cached(cache) \in SUBSET Keys
  BY DEF Cached
<1> QED  BY <1>1, CardinalityType, FS_Subset

LEMMA NothingCached ==
    ASSUME NEW i
    PROVE  MapOk(i, EmptyL1)
<1>1. Cached(EmptyL1) = {}
  BY DEF Cached, EmptyL1
<1>2. Cardinality({}) = 0
  BY FS_EmptySet
<1> QED  BY <1>1, <1>2, EmptyL1Type, OptionsAssumption DEF MapOk, Ordered

LEMMA WithoutOrdered ==
    ASSUME NEW i, NEW cache, MapOk(i, cache), NEW D
    PROVE  MapOk(i, Without(cache, D))
<1> DEFINE stay == Cached(cache) \ D
           place == [k \in {} |-> 0]
           new == Reinsert(cache, stay, place, cache)
<1>1. place \in Places({})
  BY FS_EmptySet DEF Places, Injection, IsInjective
<1>2. Ordered(new) /\ Cached(new) = stay
  <2>1. PICK K : K = {}
    OBVIOUS
  <2>2. /\ stay \in SUBSET Cached(cache) /\ K \in SUBSET Keys /\ stay \cap K = {}
        /\ \A k \in K : cache[k].rev \in Nat /\ cache[k].exp \in Nat
        /\ place \in Places(K)
    BY <1>1, <2>1
  <2> HIDE DEF stay, place
  <2>3. Ordered(new) /\ Cached(new) = stay \cup K
    BY <2>2, ReinsertOrdered DEF MapOk
  <2> QED  BY <2>1, <2>3
<1>3. Without(cache, D) = new
  BY DEF Without
<1>4. Cached(new) \subseteq Cached(cache)
  BY <1>2
<1> HIDE DEF new
<1> QED  BY <1>2, <1>3, <1>4, Fewer, CardinalityType, OptionsAssumption DEF MapOk

LEMMA GetL1Ordered ==
    ASSUME now \in Nat, NEW i, NEW cache, MapOk(i, cache), NEW K \in SUBSET Keys,
           NEW place \in Places(Hits(cache, K))
    PROVE  MapOk(i, GetL1(cache, K, place))
<1> DEFINE stay == Cached(cache) \ K
           H == Hits(cache, K)
           new == Reinsert(cache, stay, place, cache)
<1>1. H \in SUBSET Keys /\ stay \in SUBSET Cached(cache) /\ stay \cap H = {} /\ H \subseteq Cached(cache)
  <2>1. \A k \in Keys : cache[k].exp > now => cache[k] # NoEntry
    BY DEF NoEntry
  <2> QED  BY <2>1 DEF Hits, Cached
<1>2. \A k \in H : cache[k].rev \in Nat /\ cache[k].exp \in Nat
  BY <1>1 DEF MapOk, Ordered, Caches, Entries
<1>3. Ordered(new) /\ Cached(new) = stay \cup H
  <2> HIDE DEF stay, H
  <2> QED  BY <1>1, <1>2, ReinsertOrdered DEF MapOk, H
<1>4. Cached(new) \subseteq Cached(cache)
  BY <1>1, <1>3
<1>5. GetL1(cache, K, place) = new
  BY DEF GetL1
<1> HIDE DEF new
<1> QED  BY <1>3, <1>4, <1>5, Fewer, CardinalityType, OptionsAssumption DEF MapOk

LEMMA SetL1Ordered ==
    ASSUME now \in Nat, NEW i, NEW cache, MapOk(i, cache), NEW K \in SUBSET Keys, NEW given,
           \A k \in K : given[k].rev \in Nat /\ given[k].exp \in Nat,
           i \notin L1Enabled => K = {},
           NEW place \in Places(Storable(K, given))
    PROVE  MapOk(i, SetL1(cache, K, given, place))
<1> DEFINE stay == Cached(cache) \ K
           S == Storable(K, given)
           entries == [k \in Keys |-> [rev |-> given[k].rev, exp |-> L1Expiry(given[k].exp)]]
           R == Reinsert(cache, stay, place, entries)
<1>1. S \in SUBSET Keys /\ S \subseteq K /\ stay \in SUBSET Cached(cache) /\ stay \cap S = {}
  BY DEF Storable
<1>2. \A k \in S : entries[k].rev \in Nat /\ entries[k].exp \in Nat
  BY <1>1, OptionsAssumption DEF L1Expiry
<1>3. Ordered(R) /\ Cached(R) = stay \cup S
  <2> HIDE DEF stay, S, entries
  <2> QED  BY <1>1, <1>2, ReinsertOrdered DEF MapOk, S
<1>4. SetL1(cache, K, given, place) = Evict(R)
  BY DEF SetL1
<1>5. i \notin L1Enabled => Cached(R) = {}
  BY <1>1, <1>3 DEF MapOk
<1> HIDE DEF R
<1> QED  BY <1>3, <1>4, <1>5, EvictOrdered DEF MapOk

-----------------------------------------------------------------------------
(* The steps.                                                              *)

\* A step changes at most one Map, and that Map stays as it must be.
MapStep ==
    \/ UNCHANGED l1
    \/ \E i \in Instances, new \in Caches : l1' = [l1 EXCEPT ![i] = new] /\ MapOk(i, new)

LEMMA ReplyStep ==
    ASSUME TypeOK, MapInv, NEW c \in Calls, Reply(c)
    PROVE  MapStep
<1> DEFINE i == Home[c]
           dropped(cache) == call[c].drop \cup
                             (IF call[c].op = "cleanupExpired" THEN Expired(cache) ELSE {})
           cache(place) == SetL1(l1[i], ToStore(c), Returns(c), place)
<1>1. PICK place \in Places(Storable(ToStore(c), Returns(c))) :
        l1' = [l1 EXCEPT ![i] = Without(cache(place), dropped(cache(place)))]
  BY DEF Reply, ToStore, Returns
<1>2. call[c] \in CallRecords /\ i \in Instances /\ now \in Nat /\ MapOk(i, l1[i])
  BY CallsAssumption DEF TypeOK, MapInv
<1>3. MapOk(i, cache(place))
  <2>1. ToStore(c) \in SUBSET Keys /\ (i \notin L1Enabled => ToStore(c) = {})
    BY <1>2 DEF ToStore, CallRecords
  <2>2. \A k \in ToStore(c) : Returns(c)[k].rev \in Nat /\ Returns(c)[k].exp \in Nat
    <3> TAKE k \in ToStore(c)
    <3>1. k \in Keys /\ call[c].rows[k] \in Rows /\ call[c].ttl \in Nat
      BY <1>2, <2>1 DEF CallRecords
    <3>2. After(call[c].ttl) \in Nat
      BY <1>2, <3>1, TimeAssumption DEF After
    <3> QED  BY <3>1, <3>2 DEF Returns, Rows
  <2> HIDE DEF i
  <2> QED  BY <1>2, <2>1, <2>2, SetL1Ordered
<1> HIDE DEF cache, dropped
<1>4. PICK new : new = Without(cache(place), dropped(cache(place)))
  OBVIOUS
<1>5. MapOk(i, new)
  BY <1>3, <1>4, WithoutOrdered
<1>6. new \in Caches /\ l1' = [l1 EXCEPT ![i] = new]
  BY <1>1, <1>4, <1>5 DEF MapOk, Ordered
<1> QED  BY <1>2, <1>5, <1>6 DEF MapStep

LEMMA GetStep ==
    ASSUME TypeOK, MapInv, NEW c \in Calls, NEW K \in SUBSET Keys, Get(c, K)
    PROVE  MapStep
<1>1. PICK i : i = Home[c]
  OBVIOUS
<1>2. PICK place \in Places(Hits(l1[i], K)) : l1' = [l1 EXCEPT ![i] = GetL1(l1[i], K, place)]
  BY <1>1 DEF Get
<1>3. i \in Instances /\ now \in Nat /\ MapOk(i, l1[i])
  BY <1>1, CallsAssumption DEF TypeOK, MapInv
<1>4. PICK new : new = GetL1(l1[i], K, place)
  OBVIOUS
<1>5. MapOk(i, new)
  BY <1>2, <1>3, <1>4, GetL1Ordered
<1>6. new \in Caches /\ l1' = [l1 EXCEPT ![i] = new]
  BY <1>2, <1>4, <1>5 DEF MapOk, Ordered
<1> QED  BY <1>3, <1>5, <1>6 DEF MapStep

LEMMA LocalMaps ==
    ASSUME TypeOK, MapInv, NEW i \in Instances, Local(i) \/ Connection(i)
    PROVE  MapStep
<1>1. CASE UNCHANGED l1
  BY <1>1 DEF MapStep
<1>2. ASSUME NEW D, l1' = [l1 EXCEPT ![i] = Without(l1[i], D)]  PROVE MapStep
  <2>1. PICK new : new = Without(l1[i], D)
    OBVIOUS
  <2>2. MapOk(i, new)
    BY <2>1, WithoutOrdered DEF MapInv
  <2> QED  BY <1>2, <2>1, <2>2 DEF MapStep, MapOk, Ordered
<1>3. ASSUME l1' = [l1 EXCEPT ![i] = EmptyL1]  PROVE MapStep
  BY <1>3, NothingCached, EmptyL1Type DEF MapStep
<1>4. CASE Local(i)
  BY <1>2, <1>3, <1>4 DEF Local, HandleNotification, Invalidate, InvalidateAll, Stats
<1>5. ASSUME Reconnect(i)  PROVE MapStep
  BY <1>1, <1>3, <1>5 DEF Reconnect
<1>6. CASE Connection(i)
  BY <1>1, <1>3, <1>5, <1>6 DEF Connection, NoticeClose, Listening, StartListener, StopListener, Disconnect,
     ConnectFails, Crash
<1> QED  BY <1>4, <1>6

\* Only get and mget touch a Map before they have the reply of a statement.
LEMMA StatementMaps ==
    ASSUME TypeOK, MapInv, NEW c \in Calls, Statement(c)
    PROVE  MapStep
<1>1. CASE \E K \in SUBSET Keys \ {{}} : Get(c, K)
  BY <1>1, GetStep
<1>2. \A newRow, reply : Write(c, newRow, reply) \/ NoWrite(c, reply) => UNCHANGED l1
  BY DEF Write, NoWrite
<1>3. ASSUME ~ \E K \in SUBSET Keys \ {{}} : Get(c, K)  PROVE UNCHANGED l1
  <2>1. ASSUME NEW k \in Keys, NEW ttl, NEW n,
               \/ \E mode \in {"always", "nx", "xx"} : Set(c, k, mode, ttl, n)
               \/ \E expectedMissing, matches \in BOOLEAN : CompareAndSwap(c, k, expectedMissing, matches, ttl, n)
               \/ Expire(c, k, ttl, n)
        PROVE  UNCHANGED l1
    BY <1>2, <2>1 DEF Set, CompareAndSwap, Expire
  <2>2. CASE Select(c) \/ Commit(c)
    BY <1>2, <2>2 DEF Select, Commit
  <2>3. ASSUME NEW K, NEW ttl, NEW n, Mset(c, K, ttl, n) \/ ClearNamespace(c, n) \/ CleanupExpired(c, K) \/ Unlink(c, K)
        PROVE  UNCHANGED l1
    BY <1>2, <2>3 DEF Mset, ClearNamespace, CleanupExpired, Unlink
  <2>4. ASSUME NEW k, NEW to, NEW n,
               Getset(c, k) \/ Getdel(c, k) \/ Delete(c, k, n) \/ ClearPrefix(c, k, n) \/ Rename(c, k, to)
        PROVE  UNCHANGED l1
    BY <1>2, <2>4 DEF Getset, Getdel, Delete, ClearPrefix, Rename
  <2> QED  BY <1>3, <2>1, <2>2, <2>3, <2>4 DEF Statement
<1> QED  BY <1>1, <1>3 DEF MapStep

-----------------------------------------------------------------------------
(* The theorems.                                                           *)

\* In every reachable state the entries of a Map have distinct places, as
\* many as there are entries, and l1.max bounds them (getL1, setL1,
\* enforceL1Max, deleteL1).
THEOREM MapInvariant == Spec => []MapInv
<1>1. Init => MapInv
  BY NothingCached DEF Init, MapInv
<1>2. TypeOK /\ MapInv /\ [Next]_vars => MapInv'
  <2> SUFFICES ASSUME TypeOK, MapInv, [Next]_vars  PROVE MapInv'
    OBVIOUS
  <2>1. MapStep
    <3>1. ASSUME NEW c \in Calls, Publish(c) \/ Throw(c)  PROVE MapStep
      BY <3>1 DEF Publish, Throw, MapStep
    <3>2. CASE Tick \/ UNCHANGED vars
      BY <3>2 DEF Tick, vars, MapStep
    <3> QED  BY <3>1, <3>2, StatementMaps, ReplyStep, LocalMaps DEF Next
  <2>2. CASE UNCHANGED l1
    BY <2>2 DEF MapInv
  <2>3. ASSUME NEW i \in Instances, NEW new \in Caches, l1' = [l1 EXCEPT ![i] = new], MapOk(i, new)
        PROVE  MapInv'
    <3>1. \A j \in Instances : l1'[j] = IF j = i THEN new ELSE l1[j]
      BY <2>3 DEF TypeOK
    <3>2. \A j \in Instances : MapOk(j, l1'[j])
      BY <2>3, <3>1 DEF MapInv
    <3> QED  BY <3>2 DEF MapInv
  <2> QED  BY <2>1, <2>2, <2>3 DEF MapStep
<1> QED  BY <1>1, <1>2, TypeCorrect, PTL DEF Spec

\* A Map never holds more than l1.max entries, an instance without L1 holds
\* none, and insertion order is a total order of the entries (PgKvCache).
THEOREM MapBounded == Spec => []L1Bounded
<1>1. MapInv => L1Bounded
  BY AllTaken DEF MapInv, MapOk, L1Bounded
<1> QED  BY <1>1, MapInvariant, PTL
=============================================================================
