-------------------------- MODULE CollectionsProofs --------------------------
(***************************************************************************)
(* What the collections guarantee for any number of clients, keys, members *)
(* and calls: proved from one inductive invariant.                         *)
(***************************************************************************)
EXTENDS Collections, FiniteSetTheorems, TLAPS

-----------------------------------------------------------------------------
(* The inductive invariant.                                                *)

Steady == kind \in Kinds /\ clock \in 0..MaxTime /\ calls \in 0..MaxCalls[kind]

\* The table: its primary key, and the ids it has given.
Table ==
    /\ rows \subseteq Rows /\ IsFiniteSet(rows) /\ born \in Nat \ {0}
    /\ \A r, x \in rows : r.id = x.id \/ (r.key = x.key /\ r.member = x.member) => r = x
    /\ \A r \in rows :
        /\ r.id # 0 /\ r.id < born
        /\ IF kind = "list" THEN r.member = r.id /\ -Forever < r.value ELSE r.value \in Nat

\* What a call has picked and read when its statement started.
CallOk(d) ==
    /\ d \in Calls /\ d.at <= MaxTime
    /\ d.op \in {"put", "incr", "set"} => /\ d.members \subseteq Members /\ d.number \in Nat \ {0}
                                          /\ kind # "list"
    /\ d.op = "incr" => \E m \in Members : d.members = {m}
    /\ d.op = "push" => kind = "list" /\ d.number \in Counts
    /\ d.op = "move" => kind = "set" /\ \E m \in Members : d.members = {m}
    /\ d.op = "sweep" => \A r \in d.saw : ~ Alive(r, clock)
    /\ d.step = "waiting" => d.op = "blockingPop" /\ d.rest # <<>>
CallsOk == call \in [Clients -> Calls] /\ \A c \in Clients : CallOk(call[c])

\* A row that a pop has returned is gone; an increment has returned no more
\* than its row still has.
Returned ==
    /\ popped \subseteq 1..(born - 1) /\ \A r \in rows : r.id \notin popped
    /\ given \subseteq [id : Nat, value : Nat]
    /\ \A g \in given : g.id < born
    /\ \A g \in given, r \in rows : g.id = r.id => g.value <= r.value

\* A scan has returned what is due up to its cursor.
Got(r) == \E g \in scan.got : g.id = r.id \/ (kind = "list" /\ g.cursor = r.value)
Scanned ==
    /\ scan.cursor \in Int
    /\ scan.due \subseteq Nat /\ \A i \in scan.due : i < born
    /\ \A r \in rows :
        /\ r.id \in scan.due /\ r.member # 0
        /\ (scan.over /\ scan.whole) \/ CursorOf(r) <= scan.cursor
        => Got(r)

CollectionInv == Steady /\ Table /\ CallsOk /\ Returned /\ Scanned

-----------------------------------------------------------------------------
(* What comes first.                                                       *)

\* A strict total order on R, as a set of pairs.
Ordering(L, R) ==
    /\ \A x \in R : <<x, x>> \notin L
    /\ \A x, y, z \in R : <<x, y>> \in L /\ <<y, z>> \in L => <<x, z>> \in L
    /\ \A x, y \in R : x = y \/ <<x, y>> \in L \/ <<y, x>> \in L

LEMMA Least ==
    ASSUME NEW S, S \subseteq Nat, S # {}
    PROVE  \E m \in S : \A n \in S : m <= n
<1> DEFINE L == {p \in Nat \X Nat : p[1] < p[2]}
<1>1. IsWellFoundedOn(L, Nat)
  BY NatLessThanWellFounded DEF OpToRel
<1>2. PICK m \in S : \A n \in S : ~(<<n, m>> \in L)
  <2> HIDE DEF L
  <2> QED  BY <1>1, WFMin
<1>3. \A n \in S : ~(n < m)
  BY <1>2
<1> QED  BY <1>3

\* The first element is the one with the fewest before it.
LEMMA FirstExists ==
    ASSUME NEW R, IsFiniteSet(R), R # {}, NEW L, Ordering(L, R)
    PROVE  \E m \in R : \A x \in R \ {m} : <<m, x>> \in L
<1> DEFINE Below(x) == {y \in R : <<y, x>> \in L}
           B == {Below(x) : x \in R}
           W == StrictSubsetOrdering(R)
<1>1. IsWellFoundedOn(W, FiniteSubsetsOf(R))
  BY FS_StrictSubsetOrderingWellFounded
<1>2. B \subseteq FiniteSubsetsOf(R) /\ B # {}
  <2>1. \A x \in R : Below(x) \in SUBSET R
    OBVIOUS
  <2>2. B \subseteq SUBSET R
    BY <2>1
  <2>3. B # {}
    OBVIOUS
  <2> HIDE DEF B
  <2> QED  BY <2>2, <2>3, FS_FiniteSubsetsOfFinite
<1>3. PICK b \in B : \A y \in B : ~(<<y, b>> \in W)
  <2> HIDE DEF W, B
  <2> QED  BY <1>1, <1>2, WFMin
<1>4. PICK m \in R : b = Below(m)
  BY <1>3
<1>5. ASSUME NEW x \in R \ {m}, <<x, m>> \in L  PROVE FALSE
  <2>1. Below(x) \subseteq Below(m)
    BY <1>5 DEF Ordering
  <2>2. x \in Below(m) /\ x \notin Below(x)
    BY <1>5 DEF Ordering
  <2>3. <<Below(x), Below(m)>> \in W
    BY <2>1, <2>2 DEF StrictSubsetOrdering
  <2> QED  BY <1>3, <1>4, <2>3
<1> QED  BY <1>5 DEF Ordering

\* The first n elements: of the sets of at most n that nothing outside
\* comes before, one that leaves the fewest out.
LEMMA FirstSetExists ==
    ASSUME NEW R, IsFiniteSet(R), NEW L, Ordering(L, R), NEW n \in Nat
    PROVE  \E P \in SUBSET R :
                /\ Cardinality(P) = IF n < Cardinality(R) THEN n ELSE Cardinality(R)
                /\ \A p \in P, r \in R \ P : <<p, r>> \in L
<1> DEFINE D == {P \in SUBSET R : Cardinality(P) <= n /\ \A p \in P, r \in R \ P : <<p, r>> \in L}
           S == {Cardinality(R \ P) : P \in D}
<1>1. {} \in D
  BY FS_EmptySet
<1>2. S \subseteq Nat /\ S # {}
  <2>1. ASSUME NEW P \in SUBSET R  PROVE Cardinality(R \ P) \in Nat
    <3>1. R \ P \in SUBSET R
      OBVIOUS
    <3> QED  BY <3>1, FS_Subset, FS_CardinalityType
  <2> QED  BY <1>1, <2>1
<1>3. PICK s \in S : \A x \in S : s <= x
  <2> HIDE DEF S
  <2> QED  BY <1>2, Least
<1>4. PICK P \in D : s = Cardinality(R \ P)
  BY <1>3
<1>5. /\ IsFiniteSet(P) /\ IsFiniteSet(R \ P) /\ Cardinality(P) \in Nat /\ Cardinality(R \ P) \in Nat
      /\ Cardinality(R) \in Nat /\ Cardinality(P) <= Cardinality(R)
  BY FS_Subset, FS_CardinalityType
<1>6. CASE R \ P = {}
  <2>1. P = R
    BY <1>6
  <2>2. Cardinality(R) <= n
    BY <2>1
  <2> QED  BY <1>5, <2>1, <2>2
<1>7. CASE R \ P # {}
  <2>1. Ordering(L, R \ P)
    BY DEF Ordering
  <2>2. PICK m \in R \ P : \A x \in (R \ P) \ {m} : <<m, x>> \in L
    BY <1>5, <1>7, <2>1, FirstExists
  <2> DEFINE Q == P \cup {m}
  <2>3. Cardinality(Q) = Cardinality(P) + 1
    BY <1>5, <2>2, FS_AddElement
  <2>4. Cardinality(R \ Q) = Cardinality(R \ P) - 1
    <3>1. R \ Q = (R \ P) \ {m}
      OBVIOUS
    <3>2. Cardinality((R \ P) \ {m}) = Cardinality(R \ P) - 1
      BY <1>5, <2>2, FS_RemoveElement
    <3> QED  BY <3>1, <3>2
  <2>5. \A p \in Q, r \in R \ Q : <<p, r>> \in L
    BY <2>2
  <2>6. ~(Cardinality(P) < n)
    <3> SUFFICES ASSUME Cardinality(P) < n  PROVE FALSE
      OBVIOUS
    <3>1. Cardinality(Q) <= n
      BY <1>5, <2>3
    <3>2. Q \in D
      BY <2>2, <2>5, <3>1
    <3>3. s <= Cardinality(R \ Q)
      BY <1>3, <3>2
    <3> QED  BY <1>4, <1>5, <2>4, <3>3
  <2>7. Cardinality(P) = n
    BY <1>5, <2>6
  <2>8. n < Cardinality(R)
    <3>1. Q \in SUBSET R
      OBVIOUS
    <3>2. Cardinality(Q) <= Cardinality(R)
      BY <3>1, FS_Subset
    <3> QED  BY <1>5, <2>3, <2>7, <3>2
  <2> QED  BY <2>7, <2>8
<1> QED  BY <1>6, <1>7

LEMMA MaxOf ==
    ASSUME NEW E, E \subseteq Int, IsFiniteSet(E), E # {}
    PROVE  Max(E) \in E /\ \A x \in E : x <= Max(E)
<1> DEFINE L == {p \in E \X E : p[2] < p[1]}
<1>1. Ordering(L, E)
  BY DEF Ordering
<1>2. PICK m \in E : \A x \in E \ {m} : <<m, x>> \in L
  <2> HIDE DEF L
  <2> QED  BY <1>1, FirstExists
<1>3. \A x \in E : m >= x
  <2>1. ASSUME NEW x \in E \ {m}  PROVE x < m
    BY <1>2
  <2> QED  BY <2>1
<1>4. \E x \in E : \A y \in E : x >= y
  BY <1>3
<1>5. Max(E) \in E /\ \A y \in E : Max(E) >= y
  BY <1>4 DEF Max
<1> QED  BY <1>5

LEMMA FiniteImage ==
    ASSUME NEW S, IsFiniteSet(S), NEW f, f = [x \in S |-> f[x]]
    PROVE  IsFiniteSet({f[x] : x \in S})
<1> DEFINE T == {f[x] : x \in S}
<1>1. f \in [S -> T] /\ \A t \in T : \E x \in S : f[x] = t
  OBVIOUS
<1>2. f \in Surjection(S, T)
  BY <1>1 DEF Surjection
<1> QED  BY <1>2, FS_Surjection

-----------------------------------------------------------------------------
(* What a statement sees.                                                  *)

LEMMA RowsTyped ==
    ASSUME Table
    PROVE  \A r \in rows : /\ r \in Rows /\ r.id \in Nat /\ r.key \in Keys /\ r.member \in Nat
                           /\ r.value \in Int /\ r.expires \in Nat
  BY DEF Table, Rows

\* The rows of a key are in order, and FirstOf is what LIMIT returns of them.
LEMMA FirstOfRows ==
    ASSUME Table, NEW k, NEW R \in SUBSET Of(k), NEW n \in Nat, NEW order \in {"asc", "desc", "member"}
    PROVE  LET P == FirstOf(R, n, order) IN
           /\ P \subseteq R /\ IsFiniteSet(P)
           /\ Cardinality(P) = IF n < Cardinality(R) THEN n ELSE Cardinality(R)
           /\ \A p \in P, r \in R \ P : Precedes(order, p, r)
<1> DEFINE L == {p \in R \X R : Precedes(order, p[1], p[2])}
<1>1. IsFiniteSet(rows) /\ R \subseteq rows
  BY DEF Table, Of
<1>2. IsFiniteSet(R)
  BY <1>1, FS_Subset
<1>3. \A r \in R : r.value \in Int /\ r.member \in Nat
  BY <1>1, RowsTyped
<1>4. \A r, x \in R : r # x => r.member # x.member
  BY <1>1 DEF Table, Of
<1>5. Ordering(L, R)
  <2>1. \A x, y \in R : <<x, y>> \in L <=> Precedes(order, x, y)
    OBVIOUS
  <2> HIDE DEF L
  <2>2. CASE order = "asc"
    BY <1>3, <1>4, <2>1, <2>2 DEF Ordering, Precedes, Before
  <2>3. CASE order = "desc"
    BY <1>3, <1>4, <2>1, <2>3 DEF Ordering, Precedes, Before
  <2>4. CASE order = "member"
    BY <1>3, <1>4, <2>1, <2>4 DEF Ordering, Precedes
  <2> QED  BY <2>2, <2>3, <2>4
<1>6. \E P \in SUBSET R :
        /\ Cardinality(P) = IF n < Cardinality(R) THEN n ELSE Cardinality(R)
        /\ \A p \in P, r \in R \ P : <<p, r>> \in L
  <2> HIDE DEF L
  <2> QED  BY <1>2, <1>5, FirstSetExists
<1>7. \E P \in Some(R, n) : \A p \in P, r \in R \ P : Precedes(order, p, r)
  BY <1>6 DEF Some
<1>8. /\ FirstOf(R, n, order) \in Some(R, n)
      /\ \A p \in FirstOf(R, n, order), r \in R \ FirstOf(R, n, order) : Precedes(order, p, r)
  BY <1>7 DEF FirstOf
<1>9. FirstOf(R, n, order) \in SUBSET R
  BY <1>8 DEF Some
<1> QED  BY <1>2, <1>8, <1>9, FS_Subset DEF Some

LEMMA PickedRows ==
    ASSUME Table, NEW k, NEW n \in Nat, NEW desc \in BOOLEAN, NEW P \in Picks(k, n, desc)
    PROVE  P \subseteq rows
<1>1. Visible(k) \in SUBSET Of(k) /\ Visible(k) \subseteq rows
  BY DEF Visible, Of
<1>2. CASE kind = "set"
  BY <1>1, <1>2 DEF Picks, Some
<1>3. CASE kind # "set"
  <2>1. PICK order \in {"asc", "desc", "member"} : P = FirstOf(Visible(k), n, order)
    BY <1>3 DEF Picks
  <2> QED  BY <1>1, <2>1, FirstOfRows
<1> QED  BY <1>2, <1>3

LEMMA InheritedTyped ==
    ASSUME Table, NEW k
    PROVE  Inherited(k) \in Nat
<1> DEFINE f == [r \in Of(k) |-> r.expires]
           X == {f[r] : r \in Of(k)}
           E == {r.expires : r \in Of(k)} \ {Forever}
<1>1. IsFiniteSet(Of(k)) /\ Of(k) \subseteq rows
  BY FS_Subset DEF Table, Of
<1>2. IsFiniteSet(X)
  BY <1>1, FiniteImage
<1>3. E \subseteq X
  OBVIOUS
<1>4. IsFiniteSet(E) /\ E \subseteq Nat
  <2>1. IsFiniteSet(E)
    <3> HIDE DEF X, E
    <3> QED  BY <1>2, <1>3, FS_Subset
  <2>2. E \subseteq Nat
    BY <1>1, RowsTyped
  <2> QED  BY <2>1, <2>2
<1>5. E # {} => Max(E) \in Nat
  <2> HIDE DEF E
  <2>1. E \subseteq Int
    BY <1>4
  <2> QED  BY <1>4, <2>1, MaxOf
<1>6. Inherited(k) = IF E = {} THEN Forever ELSE Max(E)
  BY DEF Inherited
<1> QED  BY <1>5, <1>6, CollectionAssumption

-----------------------------------------------------------------------------
(* What a statement does to the table.                                     *)

\* A row of the next state is a row of this one that has kept its id, key and
\* member, in a list also its position, or it is new.
Descends(r, x) ==
    r.id = x.id /\ r.key = x.key /\ r.member = x.member /\ (kind = "list" => r.value = x.value)
Evolves ==
    /\ kind' = kind /\ Table' /\ born <= born'
    /\ \A r \in rows' : born <= r.id \/ \E x \in rows : Descends(r, x)

LEMMA RowsKept ==
    ASSUME Table, kind' = kind,
           NEW K \in SUBSET rows, NEW f \in [K -> Rows],
           NEW N \in SUBSET Rows, IsFiniteSet(N),
           rows' = {f[x] : x \in K} \cup N,
           \A x \in K : Descends(f[x], x) /\ (kind # "list" => f[x].value \in Nat),
           born' \in Nat, born <= born',
           \A r \in N : /\ born <= r.id /\ r.id < born'
                        /\ IF kind = "list" THEN r.member = r.id /\ -Forever < r.value ELSE r.value \in Nat,
           \A r, x \in N : r.id = x.id \/ r.member = x.member => r = x,
           \A r \in N, x \in K : ~(r.key = x.key /\ r.member = x.member)
    PROVE  Evolves
<1>1. \A x \in K : x \in rows /\ x.id \in Nat /\ x.id < born /\ x.id # 0
  BY RowsTyped DEF Table
<1>2. born \in Nat /\ born # 0 /\ born' \in Nat \ {0}
  BY DEF Table
<1>3. \A r \in N : r.id \in Nat
  BY DEF Rows
<1>4. rows' \subseteq Rows
  OBVIOUS
<1>5. IsFiniteSet(rows')
  <2>1. IsFiniteSet(K)
    BY FS_Subset DEF Table
  <2>2. IsFiniteSet({f[x] : x \in K})
    BY <2>1, FiniteImage
  <2> QED  BY <2>2, FS_Union
<1>6. ASSUME NEW r \in rows'  PROVE r \in N \/ \E x \in K : r = f[x] /\ Descends(r, x)
  OBVIOUS
<1>7. ASSUME NEW r \in rows', NEW y \in rows', r.id = y.id \/ (r.key = y.key /\ r.member = y.member)
      PROVE  r = y
  <2>1. CASE r \in N /\ y \in N
    BY <1>7, <2>1
  <2>2. CASE r \in N /\ \E x \in K : y = f[x] /\ Descends(y, x)
    BY <1>1, <1>2, <1>3, <1>7, <2>2 DEF Descends
  <2>3. CASE y \in N /\ \E x \in K : r = f[x] /\ Descends(r, x)
    BY <1>1, <1>2, <1>3, <1>7, <2>3 DEF Descends
  <2>4. ASSUME NEW x \in K, r = f[x], Descends(r, x), NEW z \in K, y = f[z], Descends(y, z)  PROVE r = y
    <3>1. x = z
      BY <1>7, <2>4 DEF Descends, Table
    <3> QED  BY <2>4, <3>1
  <2> QED  BY <1>6, <2>1, <2>2, <2>3, <2>4
<1>8. ASSUME NEW r \in rows'
      PROVE  /\ r.id # 0 /\ r.id < born'
             /\ IF kind = "list" THEN r.member = r.id /\ -Forever < r.value ELSE r.value \in Nat
  <2>1. CASE r \in N
    <3>1. r.id # 0
      BY <1>2, <1>3, <2>1
    <3> QED  BY <2>1, <3>1
  <2>2. ASSUME NEW x \in K, r = f[x], Descends(r, x)
        PROVE  /\ r.id # 0 /\ r.id < born'
               /\ IF kind = "list" THEN r.member = r.id /\ -Forever < r.value ELSE r.value \in Nat
    <3>1. r.id # 0 /\ r.id < born'
      BY <1>1, <1>2, <2>2 DEF Descends
    <3>2. CASE kind = "list"
      BY <3>1, <3>2, <2>2 DEF Descends, Table
    <3>3. CASE kind # "list"
      BY <3>1, <3>3, <2>2
    <3> QED  BY <3>2, <3>3
  <2> QED  BY <1>6, <2>1, <2>2
<1>9. Table'
  BY <1>2, <1>4, <1>5, <1>7, <1>8 DEF Table
<1> QED  BY <1>1, <1>6, <1>9 DEF Evolves

\* Some rows are removed, and nothing else happens to the table.
LEMMA RowsRemoved ==
    ASSUME Table, kind' = kind, rows' \subseteq rows, born' = born
    PROVE  Evolves
<1>1. IsFiniteSet(rows')
  BY FS_Subset DEF Table
<1>2. Table'
  BY <1>1 DEF Table
<1>3. \A r \in rows : Descends(r, r)
  BY DEF Descends
<1> QED  BY <1>2, <1>3 DEF Evolves, Table

\* A scan is not disturbed by what happens to the rows meanwhile.
LEMMA ScannedKept ==
    ASSUME Table, Scanned, Evolves, UNCHANGED scan
    PROVE  Scanned'
<1>1. ASSUME NEW r \in rows', r.id \in scan.due, r.member # 0,
             (scan.over /\ scan.whole) \/ (CursorOf(r) <= scan.cursor)'
      PROVE  Got(r)'
  <2>1. r.id < born /\ r.id \in Nat
    BY <1>1 DEF Scanned, Evolves, Table, Rows
  <2>2. PICK x \in rows : Descends(r, x)
    BY <2>1 DEF Evolves, Table
  <2>3. (scan.over /\ scan.whole) \/ CursorOf(x) <= scan.cursor
    BY <1>1, <2>2 DEF CursorOf, Descends, Evolves
  <2>4. Got(x)
    BY <1>1, <2>2, <2>3 DEF Scanned, Descends
  <2> QED  BY <2>2, <2>4 DEF Got, Descends, Evolves
<1>2. \A i \in scan.due : i < born'
  <2>1. \A i \in scan.due : i < born /\ i \in Nat
    BY DEF Scanned
  <2> QED  BY <2>1 DEF Evolves, Table
<1> QED  BY <1>1, <1>2 DEF Scanned

\* What pops have returned stays gone.
LEMMA PoppedStay ==
    ASSUME Table, Returned, Evolves, UNCHANGED popped
    PROVE  popped' \subseteq 1..(born' - 1) /\ \A r \in rows' : r.id \notin popped'
<1>1. born \in Nat /\ born' \in Nat /\ born <= born' /\ \A r \in rows' : r.id \in Nat
  BY DEF Evolves, Table, Rows
<1>2. popped \subseteq 1..(born' - 1)
  <2>1. \A a, b \in Nat : a <= b => 1..(a - 1) \subseteq 1..(b - 1)
    OBVIOUS
  <2>2. 1..(born - 1) \subseteq 1..(born' - 1)
    BY <1>1, <2>1
  <2> QED  BY <2>2 DEF Returned
<1>3. \A r \in rows' : r.id \notin popped
  <2> SUFFICES ASSUME NEW r \in rows', r.id \in popped  PROVE FALSE
    OBVIOUS
  <2>1. r.id < born
    BY <1>1 DEF Returned
  <2>2. PICK x \in rows : Descends(r, x)
    BY <1>1, <2>1 DEF Evolves
  <2> QED  BY <2>2 DEF Descends, Returned
<1> QED  BY <1>2, <1>3

\* What was returned before stays right when the ids of new rows are new.
LEMMA ReturnedStays ==
    ASSUME Table, Returned, Evolves, UNCHANGED popped, given' \subseteq given,
           \A g \in given', r \in rows' : g.id = r.id => g.value <= r.value
    PROVE  Returned'
<1>1. born \in Nat /\ born' \in Nat /\ born <= born'
  BY DEF Evolves, Table
<1>2. popped' \subseteq 1..(born' - 1) /\ \A r \in rows' : r.id \notin popped'
  BY PoppedStay
<1>4. given' \subseteq [id : Nat, value : Nat] /\ \A g \in given' : g.id < born'
  <2>1. \A g \in given' : g \in [id : Nat, value : Nat] /\ g.id < born /\ g.id \in Nat
    BY DEF Returned
  <2> QED  BY <1>1, <2>1
<1> QED  BY <1>2, <1>4 DEF Returned

LEMMA ReturnedKept ==
    ASSUME Table, Returned, Evolves, UNCHANGED <<popped, given>>,
           \A r \in rows', x \in rows : r.id = x.id => x.value <= r.value
    PROVE  Returned'
<1>1. ASSUME NEW g \in given, NEW r \in rows', g.id = r.id  PROVE g.value <= r.value
  <2>1. g.id < born /\ g.value \in Nat
    BY DEF Returned
  <2>2. born \in Nat /\ r.id \in Nat
    BY DEF Evolves, Table, Rows
  <2>3. PICK x \in rows : Descends(r, x)
    BY <1>1, <2>1, <2>2 DEF Evolves
  <2>4. x.value <= r.value /\ g.value <= x.value
    BY <1>1, <2>3 DEF Descends, Returned
  <2>5. x.value \in Int /\ r.value \in Int
    BY <2>3, RowsTyped DEF Evolves, Table, Rows
  <2> QED  BY <2>1, <2>4, <2>5
<1> QED  BY <1>1, ReturnedStays

LEMMA NoCallOk == NoCall \in Calls /\ CallOk(NoCall)
<1>1. KeySeq[1] \in Keys /\ <<>> \in Seq(Keys)
  BY CollectionAssumption DEF Keys
<1>2. NoCall \in Calls
  BY <1>1 DEF NoCall, Calls
<1> QED  BY <1>2, CollectionAssumption DEF NoCall, CallOk

LEMMA CallsKept ==
    ASSUME CallsOk, UNCHANGED <<kind, clock>>, NEW c \in Clients, NEW d, CallOk(d),
           call' = [call EXCEPT ![c] = d]
    PROVE  CallsOk'
<1>1. d \in Calls /\ CallOk(d)'
  BY DEF CallOk, Members, Alive
<1>2. \A b \in Clients : call'[b] = IF b = c THEN d ELSE call[b]
  BY DEF CallsOk
<1>3. ASSUME NEW b \in Clients, b # c  PROVE CallOk(call[b])'
  <2>1. CallOk(call[b]) /\ call'[b] = call[b]
    BY <1>2, <1>3 DEF CallsOk
  <2> QED  BY <2>1 DEF CallOk, Members, Alive
<1>4. CallOk(call[c])'
  <2>1. call'[c] = d
    BY <1>2
  <2> QED  BY <1>1, <2>1 DEF CallOk, Members, Alive
<1>5. call' \in [Clients -> Calls]
  BY <1>1 DEF CallsOk
<1> QED  BY <1>3, <1>4, <1>5 DEF CallsOk

\* A statement starts, or a call goes on, and the table stays as it is.
LEMMA Sends ==
    ASSUME CollectionInv, NEW c \in Clients, NEW d, CallOk(d),
           call' = [call EXCEPT ![c] = d], calls' = calls \/ (calls < MaxCalls[kind] /\ calls' = calls + 1),
           UNCHANGED <<kind, clock, rows, born, scan, popped, given>>
    PROVE  CollectionInv'
<1>1. CallsOk'
  BY CallsKept DEF CollectionInv
<1>2. Steady'
  BY CollectionAssumption DEF CollectionInv, Steady
<1>3. Table'
  BY DEF CollectionInv, Table
<1>4. Returned' /\ Scanned'
  BY DEF CollectionInv, Returned, Scanned, Got, CursorOf
<1> QED  BY <1>1, <1>2, <1>3, <1>4 DEF CollectionInv

\* It ends.
LEMMA Ends ==
    ASSUME CollectionInv, NEW c \in Clients, Return(c), Evolves, Returned',
           UNCHANGED <<kind, clock, calls, scan>>
    PROVE  CollectionInv'
<1>1. CallsOk'
  BY NoCallOk, CallsKept DEF CollectionInv, Return
<1>2. Steady'
  BY DEF CollectionInv, Steady
<1>3. Scanned'
  BY ScannedKept DEF CollectionInv
<1> QED  BY <1>1, <1>2, <1>3 DEF CollectionInv, Evolves

-----------------------------------------------------------------------------
(* The calls.                                                              *)

LEMMA Sent ==
    ASSUME CollectionInv, NEW c \in Clients, NEW k \in Keys, NEW new, Send(c, k, new),
           CallOk([new EXCEPT !.key = k, !.step = "sent"])
    PROVE  CollectionInv'
<1>1. PICK d : d = [new EXCEPT !.key = k, !.step = "sent"]
  OBVIOUS
<1>2. /\ CallOk(d) /\ call' = [call EXCEPT ![c] = d] /\ calls < MaxCalls[kind] /\ calls' = calls + 1
      /\ UNCHANGED <<kind, clock, rows, born, scan, popped, given>>
  BY <1>1 DEF Send
<1> QED  BY <1>2, Sends

LEMMA UntilTyped ==
    ASSUME Steady, NEW ttl \in Nat
    PROVE  Until(clock, ttl) \in Nat
  BY CollectionAssumption DEF Until, Steady

LEMMA SeenRows == ASSUME Table  PROVE \A k : Of(k) \subseteq Rows /\ Visible(k) \subseteq Rows
  BY DEF Table, Of, Visible

LEMMA Constants ==
    /\ kind \in Kinds => Members \subseteq Nat /\ IsFiniteSet(Members)
    /\ Numbers \subseteq Nat \ {0} /\ Counts \subseteq Nat \ {0} /\ Ttls \subseteq Nat /\ Timeouts \subseteq Nat
    /\ Forever \in Nat /\ MaxTime \in Nat /\ \A K \in Kinds : KeysOf[K] \subseteq Keys
    /\ KeySeq \in Seq(Keys) /\ KeySeq # <<>> /\ KeySeq[1] \in Keys /\ Tail(KeySeq) \in Seq(Keys)
<1>1. KeySeq \in Seq(Keys) /\ KeySeq # <<>>
  BY CollectionAssumption
<1>2. KeySeq[1] \in Keys /\ Tail(KeySeq) \in Seq(Keys)
  BY <1>1
<1>3. kind \in Kinds => Members \subseteq Nat /\ IsFiniteSet(Members)
  BY CollectionAssumption DEF Members
<1>4. \A K \in Kinds : KeysOf[K] \subseteq Keys
  BY CollectionAssumption
<1> QED  BY <1>1, <1>2, <1>3, <1>4, CollectionAssumption

LEMMA CallPutKeeps == ASSUME CollectionInv, NEW c \in Clients, NEW k \in Keys, CallPut(c, k)  PROVE CollectionInv'
<1> USE DEF CollectionInv
<1>1. PICK M \in SUBSET Members \ {{}}, v \in Numbers :
        SendInsert(c, k, [NoCall EXCEPT !.op = "put", !.members = M, !.number = v])
  BY DEF CallPut
<1>2. PICK new : /\ new = [[NoCall EXCEPT !.op = "put", !.members = M, !.number = v]
                                    EXCEPT !.at = clock, !.inherit = Inherited(k)]
                 /\ Send(c, k, new)
  BY <1>1 DEF SendInsert
<1>3. kind \in {"hash", "set", "sorted"} /\ Inherited(k) \in Nat /\ clock \in Nat /\ clock <= MaxTime
  BY InheritedTyped, Constants DEF CallPut, Steady
<1>4. PICK d : d = [new EXCEPT !.key = k, !.step = "sent"]
  OBVIOUS
<1>5. d = [op |-> "put", key |-> k, members |-> M, number |-> v, desc |-> FALSE, at |-> clock,
           inherit |-> Inherited(k), saw |-> {}, rest |-> <<>>, until |-> 0, step |-> "sent"]
  BY <1>2, <1>4 DEF NoCall
<1>6. d \in Calls
  BY <1>3, <1>5, Constants DEF Calls, Ops, Kinds
<1>7. CallOk(d)
  BY <1>3, <1>5, <1>6, Constants DEF CallOk
<1> QED  BY <1>2, <1>4, <1>7, Sent

LEMMA CallIncrKeeps == ASSUME CollectionInv, NEW c \in Clients, NEW k \in Keys, CallIncr(c, k)  PROVE CollectionInv'
<1> USE DEF CollectionInv
<1>1. PICK m \in Members, v \in Numbers, ttl \in Nat :
        SendInsert(c, k, [NoCall EXCEPT !.op = "incr", !.members = {m}, !.number = v, !.until = Until(clock, ttl)])
  BY Constants DEF CallIncr
<1>2. PICK new : /\ new = [[NoCall EXCEPT !.op = "incr", !.members = {m}, !.number = v, !.until = Until(clock, ttl)]
                                    EXCEPT !.at = clock, !.inherit = Inherited(k)]
                 /\ Send(c, k, new)
  BY <1>1 DEF SendInsert
<1>3. /\ kind \in {"hash", "sorted", "counter"} /\ Inherited(k) \in Nat /\ clock \in Nat /\ clock <= MaxTime
      /\ Until(clock, ttl) \in Nat
  BY InheritedTyped, UntilTyped, Constants DEF CallIncr, Steady
<1>4. PICK d : d = [new EXCEPT !.key = k, !.step = "sent"]
  OBVIOUS
<1>5. d = [op |-> "incr", key |-> k, members |-> {m}, number |-> v, desc |-> FALSE, at |-> clock,
           inherit |-> Inherited(k), saw |-> {}, rest |-> <<>>, until |-> Until(clock, ttl), step |-> "sent"]
  BY <1>2, <1>4 DEF NoCall
<1>6. d \in Calls
  BY <1>3, <1>5, Constants DEF Calls, Ops, Steady
<1>7. CallOk(d)
  BY <1>3, <1>5, <1>6, Constants DEF CallOk
<1> QED  BY <1>2, <1>4, <1>7, Sent

LEMMA CallSetKeeps == ASSUME CollectionInv, NEW c \in Clients, NEW k \in Keys, CallSet(c, k)  PROVE CollectionInv'
<1> USE DEF CollectionInv
<1>1. PICK v \in Numbers, ttl \in Nat :
        SendInsert(c, k, [NoCall EXCEPT !.op = "set", !.members = {1}, !.number = v, !.until = Until(clock, ttl)])
  BY Constants DEF CallSet
<1>2. PICK new : /\ new = [[NoCall EXCEPT !.op = "set", !.members = {1}, !.number = v, !.until = Until(clock, ttl)]
                                    EXCEPT !.at = clock, !.inherit = Inherited(k)]
                 /\ Send(c, k, new)
  BY <1>1 DEF SendInsert
<1>3. /\ kind = "counter" /\ Inherited(k) \in Nat /\ clock \in Nat /\ clock <= MaxTime
      /\ Until(clock, ttl) \in Nat
  BY InheritedTyped, UntilTyped, Constants DEF CallSet, Steady
<1>4. PICK d : d = [new EXCEPT !.key = k, !.step = "sent"]
  OBVIOUS
<1>5. d = [op |-> "set", key |-> k, members |-> {1}, number |-> v, desc |-> FALSE, at |-> clock,
           inherit |-> Inherited(k), saw |-> {}, rest |-> <<>>, until |-> Until(clock, ttl), step |-> "sent"]
  BY <1>2, <1>4 DEF NoCall
<1>6. d \in Calls
  BY <1>3, <1>5, Constants DEF Calls, Ops
<1>7. CallOk(d)
  <2>1. Members = {1}
    BY <1>3, CollectionAssumption DEF Members
  <2> QED  BY <1>3, <1>5, <1>6, <2>1, Constants DEF CallOk
<1> QED  BY <1>2, <1>4, <1>7, Sent

LEMMA CallPushKeeps == ASSUME CollectionInv, NEW c \in Clients, NEW k \in Keys, CallPush(c, k)  PROVE CollectionInv'
<1> USE DEF CollectionInv
<1>1. PICK n \in Counts, left \in BOOLEAN :
        SendInsert(c, k, [NoCall EXCEPT !.op = "push", !.number = n, !.desc = left])
  BY DEF CallPush
<1>2. PICK new : /\ new = [[NoCall EXCEPT !.op = "push", !.number = n, !.desc = left]
                                    EXCEPT !.at = clock, !.inherit = Inherited(k)]
                 /\ Send(c, k, new)
  BY <1>1 DEF SendInsert
<1>3. kind = "list" /\ Inherited(k) \in Nat /\ clock \in Nat /\ clock <= MaxTime
  BY InheritedTyped, Constants DEF CallPush, Steady
<1>4. PICK d : d = [new EXCEPT !.key = k, !.step = "sent"]
  OBVIOUS
<1>5. d = [op |-> "push", key |-> k, members |-> {}, number |-> n, desc |-> left, at |-> clock,
           inherit |-> Inherited(k), saw |-> {}, rest |-> <<>>, until |-> 0, step |-> "sent"]
  BY <1>2, <1>4 DEF NoCall
<1>6. d \in Calls
  BY <1>3, <1>5, Constants DEF Calls, Ops
<1>7. CallOk(d)
  BY <1>3, <1>5, <1>6 DEF CallOk
<1> QED  BY <1>2, <1>4, <1>7, Sent

LEMMA CallMoveKeeps == ASSUME CollectionInv, NEW c \in Clients, NEW k \in Keys, CallMove(c, k)  PROVE CollectionInv'
<1> USE DEF CollectionInv
<1>1. PICK m \in Members, to \in KeysOf[kind] \ {k} :
        SendInsert(c, to, [NoCall EXCEPT !.op = "move", !.members = {m}, !.saw = {r \in Visible(k) : r.member = m}])
  BY DEF CallMove
<1>2. PICK new : /\ new = [[NoCall EXCEPT !.op = "move", !.members = {m},
                                           !.saw = {r \in Visible(k) : r.member = m}]
                                    EXCEPT !.at = clock, !.inherit = Inherited(to)]
                 /\ Send(c, to, new)
  BY <1>1 DEF SendInsert
<1>3. /\ kind = "set" /\ to \in Keys /\ Inherited(to) \in Nat /\ clock \in Nat /\ clock <= MaxTime
      /\ {r \in Visible(k) : r.member = m} \subseteq Rows
  BY InheritedTyped, Constants, SeenRows DEF CallMove, Steady
<1>4. PICK d : d = [new EXCEPT !.key = to, !.step = "sent"]
  OBVIOUS
<1>5. d = [op |-> "move", key |-> to, members |-> {m}, number |-> 0, desc |-> FALSE, at |-> clock,
           inherit |-> Inherited(to), saw |-> {r \in Visible(k) : r.member = m}, rest |-> <<>>,
           until |-> 0, step |-> "sent"]
  BY <1>2, <1>4 DEF NoCall
<1>6. d \in Calls
  BY <1>3, <1>5, Constants DEF Calls, Ops, Steady
<1>7. CallOk(d)
  BY <1>3, <1>5, <1>6 DEF CallOk
<1> QED  BY <1>2, <1>3, <1>4, <1>7, Sent
\* The calls whose statement only picks rows.
LEMMA PicksKeep ==
    ASSUME CollectionInv, NEW c \in Clients, NEW k \in Keys, NEW new \in Calls, Send(c, k, new),
           new.op \in {"remove", "clear", "pop", "blockingPop", "expire", "persist", "sweep"},
           new.at = 0, new.op = "sweep" => \A r \in new.saw : ~ Alive(r, clock)
    PROVE  CollectionInv'
<1>1. PICK d : d = [new EXCEPT !.key = k, !.step = "sent"]
  OBVIOUS
<1>2. d \in Calls /\ d.op = new.op /\ d.at = 0 /\ d.saw = new.saw /\ d.step = "sent"
  BY <1>1 DEF Calls
<1>3. CallOk(d)
  BY <1>2, Constants DEF CallOk
<1> QED  BY <1>1, <1>3, Sent

LEMMA CallRemoveKeeps == ASSUME CollectionInv, NEW c \in Clients, NEW k \in Keys, CallRemove(c, k)  PROVE CollectionInv'
<1>1. PICK M \in SUBSET Members :
        Send(c, k, [NoCall EXCEPT !.op = "remove", !.members = M, !.saw = {r \in Of(k) : r.member \in M}])
  BY DEF CallRemove
<1>2. PICK S : S = {r \in Of(k) : r.member \in M}
  OBVIOUS
<1>3. PICK new : new = [NoCall EXCEPT !.op = "remove", !.members = M, !.saw = S]
  OBVIOUS
<1>4. S \subseteq Rows /\ M \in SUBSET Nat
  BY <1>2, SeenRows, Constants DEF CollectionInv, Steady
<1>5. new \in Calls /\ new.op = "remove" /\ new.at = 0
  BY <1>3, <1>4, NoCallOk DEF Calls, Ops, NoCall
<1> QED  BY <1>1, <1>2, <1>3, <1>5, PicksKeep

LEMMA CallClearKeeps == ASSUME CollectionInv, NEW c \in Clients, NEW k \in Keys, CallClear(c, k)  PROVE CollectionInv'
<1>1. PICK S : S = Of(k)
  OBVIOUS
<1>2. PICK new : new = [NoCall EXCEPT !.op = "clear", !.saw = S]
  OBVIOUS
<1>3. new \in Calls /\ new.op = "clear" /\ new.at = 0
  BY <1>1, <1>2, NoCallOk, SeenRows DEF Calls, Ops, NoCall, CollectionInv
<1> QED  BY <1>1, <1>2, <1>3, PicksKeep DEF CallClear

LEMMA CallPopKeeps == ASSUME CollectionInv, NEW c \in Clients, NEW k \in Keys, CallPop(c, k)  PROVE CollectionInv'
<1>0. PICK n \in Counts, desc \in BOOLEAN : \E P \in Picks(k, n, desc) :
        Send(c, k, [NoCall EXCEPT !.op = "pop", !.desc = desc, !.saw = P])
  <2>1. (IF kind = "set" THEN {FALSE} ELSE BOOLEAN) \subseteq BOOLEAN
    OBVIOUS
  <2> QED  BY <2>1 DEF CallPop
<1>1. PICK P \in Picks(k, n, desc) : Send(c, k, [NoCall EXCEPT !.op = "pop", !.desc = desc, !.saw = P])
  BY <1>0
<1>2. P \subseteq Rows
  BY <1>1, PickedRows, Constants DEF CollectionInv, Table
<1>3. PICK new : new = [NoCall EXCEPT !.op = "pop", !.desc = desc, !.saw = P]
  OBVIOUS
<1>4. new \in Calls /\ new.op = "pop" /\ new.at = 0
  BY <1>2, <1>3, NoCallOk DEF Calls, Ops, NoCall
<1> QED  BY <1>1, <1>3, <1>4, PicksKeep

LEMMA CallBlockingPopKeeps == ASSUME CollectionInv, NEW c \in Clients, CallBlockingPop(c)  PROVE CollectionInv'
<1>0. PICK desc \in BOOLEAN, timeout \in Timeouts : \E P \in Picks(KeySeq[1], 1, desc) :
        Send(c, KeySeq[1], [NoCall EXCEPT !.op = "blockingPop", !.desc = desc, !.saw = P,
                                          !.rest = Tail(KeysToTry), !.until = Until(clock, timeout)])
  BY DEF CallBlockingPop
<1>1. PICK P \in Picks(KeySeq[1], 1, desc) :
        Send(c, KeySeq[1], [NoCall EXCEPT !.op = "blockingPop", !.desc = desc, !.saw = P,
                                          !.rest = Tail(KeysToTry), !.until = Until(clock, timeout)])
  BY <1>0
<1>2. P \subseteq Rows /\ Until(clock, timeout) \in Nat /\ KeySeq[1] \in Keys /\ Tail(KeysToTry) \in Seq(Keys)
  BY <1>1, PickedRows, UntilTyped, Constants DEF CollectionInv, Table, KeysToTry
<1>3. PICK q, u : q = Tail(KeysToTry) /\ u = Until(clock, timeout)
  OBVIOUS
<1>4. PICK new : new = [NoCall EXCEPT !.op = "blockingPop", !.desc = desc, !.saw = P, !.rest = q, !.until = u]
  OBVIOUS
<1>5. new \in Calls /\ new.op = "blockingPop" /\ new.at = 0
  BY <1>2, <1>3, <1>4, NoCallOk DEF Calls, Ops, NoCall
<1> QED  BY <1>1, <1>2, <1>3, <1>4, <1>5, PicksKeep

LEMMA CallExpireKeeps ==
    ASSUME CollectionInv, NEW c \in Clients, NEW k \in Keys, CallExpire(c, k) \/ CallPersist(c, k)
    PROVE  CollectionInv'
<1>1. PICK op \in {"expire", "persist"}, u \in Nat :
        Send(c, k, [NoCall EXCEPT !.op = op, !.saw = Of(k), !.until = u])
  BY UntilTyped, Constants DEF CallExpire, CallPersist, CollectionInv
<1>2. PICK S : S = Of(k)
  OBVIOUS
<1>3. PICK new : new = [NoCall EXCEPT !.op = op, !.saw = S, !.until = u]
  OBVIOUS
<1>4. new \in Calls /\ new.op \in {"expire", "persist"} /\ new.at = 0
  BY <1>2, <1>3, NoCallOk, SeenRows DEF Calls, Ops, NoCall, CollectionInv
<1> QED  BY <1>1, <1>2, <1>3, <1>4, PicksKeep

LEMMA CallSweepKeeps == ASSUME CollectionInv, NEW c \in Clients, CallSweep(c)  PROVE CollectionInv'
<1>1. PICK S \in SUBSET {r \in rows : ~ Alive(r, clock)} :
        Send(c, KeySeq[1], [NoCall EXCEPT !.op = "sweep", !.saw = S])
  BY DEF CallSweep
<1>2. S \subseteq Rows /\ \A r \in S : ~ Alive(r, clock)
  BY DEF CollectionInv, Table
<1>3. PICK new : new = [NoCall EXCEPT !.op = "sweep", !.saw = S]
  OBVIOUS
<1>4. new \in Calls /\ new.op = "sweep" /\ new.at = 0 /\ new.saw = S
  BY <1>2, <1>3, NoCallOk DEF Calls, Ops, NoCall
<1> QED  BY <1>1, <1>2, <1>3, <1>4, PicksKeep, Constants

LEMMA PollKeeps == ASSUME CollectionInv, NEW c \in Clients, Poll(c)  PROVE CollectionInv'
<1> USE DEF CollectionInv
<1>1. PICK k, q : k = Head(call[c].rest) /\ q = Tail(call[c].rest)
  OBVIOUS
<1>2. CallOk(call[c]) /\ call[c] \in Calls /\ call[c].step = "waiting" /\ call[c].rest # <<>>
  BY DEF CallsOk, CallOk, Poll
<1>3. k \in Keys /\ q \in Seq(Keys) /\ call[c].desc \in BOOLEAN
  <2>1. call[c].rest \in Seq(Keys) /\ call[c].desc \in BOOLEAN
    BY <1>2 DEF Calls
  <2> QED  BY <1>1, <1>2, <2>1
<1>4. PICK P \in Picks(k, 1, call[c].desc) :
        call' = [call EXCEPT ![c].step = "sent", ![c].key = k, ![c].rest = q, ![c].saw = P]
  <2>1. PICK P \in Picks(k, 1, call[c].desc) :
          call' = [call EXCEPT ![c].step = "sent", ![c].key = k, ![c].rest = Tail(@), ![c].saw = P]
    BY <1>1 DEF Poll
  <2> QED  BY <1>1, <2>1 DEF CallsOk
<1>5. P \subseteq Rows
  BY <1>3, <1>4, PickedRows DEF Table
<1>6. PICK d : d = [call[c] EXCEPT !.step = "sent", !.key = k, !.rest = q, !.saw = P]
  OBVIOUS
<1>7. call' = [call EXCEPT ![c] = d]
  BY <1>4, <1>6 DEF CallsOk
<1>8. /\ d \in Calls /\ d.op = call[c].op /\ d.at = call[c].at /\ d.members = call[c].members
      /\ d.number = call[c].number /\ d.step = "sent"
  BY <1>2, <1>3, <1>5, <1>6 DEF Calls
<1>9. CallOk(d)
  BY <1>2, <1>8 DEF CallOk
<1> QED  BY <1>7, <1>9, Sends DEF Poll

LEMMA FailKeeps == ASSUME CollectionInv, NEW c \in Clients, Fail(c)  PROVE CollectionInv'
  BY NoCallOk, Sends DEF Fail, Return

LEMMA TickKeeps == ASSUME CollectionInv, Tick  PROVE CollectionInv'
<1> USE DEF CollectionInv
<1>1. clock \in Nat /\ clock' = clock + 1 /\ clock < MaxTime
      /\ UNCHANGED <<kind, calls, rows, born, call, scan, popped, given>>
  BY Constants DEF Tick, Steady
<1>2. ASSUME NEW c \in Clients  PROVE CallOk(call[c])'
  <2>1. CallOk(call[c])
    BY DEF CallsOk
  <2>2. ASSUME NEW r \in call[c].saw, ~ Alive(r, clock)  PROVE ~ Alive(r, clock')
    <3>1. r.expires \in Nat
      BY <2>1 DEF CallOk, Calls, Rows
    <3> QED  BY <1>1, <2>2, <3>1 DEF Alive
  <2> QED  BY <1>1, <2>1, <2>2 DEF CallOk, Members
<1>3. Steady'
  BY <1>1, Constants DEF Steady
<1> QED  BY <1>1, <1>2, <1>3 DEF CallsOk, Table, Returned, Scanned, Got, CursorOf

-----------------------------------------------------------------------------
(* The statements.                                                         *)

LEMMA ExistingRows ==
    ASSUME Table, NEW c \in Clients
    PROVE  /\ Existing(c) \subseteq rows
           /\ \A r \in rows : r \in Existing(c) <=> r.key = call[c].key /\ r.member \in call[c].members
  BY DEF Existing, Conflicts, Of, Table

\* The new rows of an upsert are numbered one after the other.
LEMMA Numbered ==
    ASSUME NEW M, M \subseteq Nat, IsFiniteSet(M)
    PROVE  LET Nth(m) == Cardinality({x \in M : x < m}) IN
           /\ \A m \in M : Nth(m) \in Nat /\ Nth(m) < Cardinality(M)
           /\ \A l, m \in M : Nth(l) = Nth(m) => l = m
<1> DEFINE B(m) == {x \in M : x < m}
<1>1. \A m \in M : B(m) \subseteq M /\ IsFiniteSet(B(m)) /\ Cardinality(B(m)) \in Nat /\ m \notin B(m)
  <2> TAKE m \in M
  <2>1. B(m) \in SUBSET M
    OBVIOUS
  <2>2. IsFiniteSet(B(m))
    BY <2>1, FS_Subset
  <2>3. m \notin B(m)
    OBVIOUS
  <2> QED  BY <2>1, <2>2, <2>3, FS_CardinalityType
<1>2. \A m \in M : Cardinality(B(m)) < Cardinality(M)
  <2> TAKE m \in M
  <2>1. Cardinality(B(m)) <= Cardinality(M) /\ (Cardinality(M) = Cardinality(B(m)) => M = B(m))
    BY <1>1, FS_Subset
  <2>2. Cardinality(M) # Cardinality(B(m))
    BY <1>1, <2>1
  <2>3. Cardinality(M) \in Nat /\ Cardinality(B(m)) \in Nat
    BY <1>1, FS_CardinalityType
  <2> QED  BY <2>1, <2>2, <2>3
<1>3. ASSUME NEW l \in M, NEW m \in M, l < m  PROVE Cardinality(B(l)) # Cardinality(B(m))
  <2>1. B(l) \in SUBSET B(m) /\ l \in B(m) /\ l \notin B(l)
    <3>1. \A x \in M : x \in Nat
      OBVIOUS
    <3>2. \A x \in M : x < l => x < m
      BY <1>3, <3>1
    <3>3. l \in B(m)
      BY <1>3
    <3>4. l \notin B(l)
      BY <3>1
    <3>5. B(l) \subseteq B(m)
      BY <3>2
    <3> QED  BY <3>3, <3>4, <3>5
  <2>2. Cardinality(B(m)) = Cardinality(B(l)) => B(m) = B(l)
    BY <1>1, <2>1, FS_Subset
  <2> QED  BY <2>1, <2>2
<1>4. \A l, m \in M : Cardinality(B(l)) = Cardinality(B(m)) => l = m
  <2> SUFFICES ASSUME NEW l \in M, NEW m \in M, Cardinality(B(l)) = Cardinality(B(m))  PROVE l = m
    OBVIOUS
  <2>1. ~(l < m) /\ ~(m < l)
    BY <1>3
  <2> QED  BY <2>1
<1> QED  BY <1>1, <1>2, <1>4

LEMMA Upserted ==
    ASSUME Table, NEW c \in Clients, kind \in Kinds, kind' = kind, kind # "list", call[c].key \in Keys,
           call[c].members \subseteq Members, NEW v \in Nat, NEW e \in Nat,
           NEW g \in [Existing(c) -> Rows],
           \A x \in Existing(c) : Descends(g[x], x) /\ g[x].value \in Nat,
           Upsert(c, v, e, {g[x] : x \in Existing(c)})
    PROVE  /\ Evolves
           /\ \A r \in rows' : \/ r \in rows \ Existing(c)
                               \/ \E x \in Existing(c) : r = g[x]
                               \/ born <= r.id /\ r.value = v
<1> DEFINE M == call[c].members \ {r.member : r \in Existing(c)}
           f == [x \in rows |-> IF x \in Existing(c) THEN g[x] ELSE x]
<1> DEFINE Nth(m) == Cardinality({x \in M : x < m})
           Row(m) == [id |-> born + Nth(m), key |-> call[c].key, member |-> m, value |-> v, expires |-> e]
<1>1. M \subseteq Nat /\ IsFiniteSet(M) /\ Cardinality(M) \in Nat
  <2>1. M \in SUBSET Members
    OBVIOUS
  <2>2. IsFiniteSet(M)
    BY <2>1, Constants, FS_Subset
  <2> QED  BY <2>1, <2>2, Constants, FS_CardinalityType
<1>2. /\ \A m \in M : Nth(m) \in Nat /\ Nth(m) < Cardinality(M)
      /\ \A l, m \in M : Nth(l) = Nth(m) => l = m
  <2> HIDE DEF M
  <2> QED  BY <1>1, Numbered
<1>3. born \in Nat /\ born' = born + Cardinality(M)
  BY DEF Upsert, Table
<1>4. PICK h : h = [m \in M |-> Row(m)]
  OBVIOUS
<1> DEFINE N == {h[m] : m \in M}
<1>5. rows' = (rows \ Existing(c)) \cup {g[x] : x \in Existing(c)} \cup N
  <2>1. rows' = (rows \ Existing(c)) \cup {g[x] : x \in Existing(c)} \cup {Row(m) : m \in M}
    BY DEF Upsert
  <2>2. N = {Row(m) : m \in M}
    BY <1>4
  <2> QED  BY <2>1, <2>2
<1>6. rows' = {f[x] : x \in rows} \cup N
  <2>1. {f[x] : x \in rows} = (rows \ Existing(c)) \cup {g[x] : x \in Existing(c)}
    BY ExistingRows
  <2> QED  BY <1>5, <2>1
<1>7. ASSUME NEW m \in M
      PROVE  /\ h[m] \in Rows /\ h[m].id = born + Nth(m) /\ h[m].key = call[c].key /\ h[m].member = m
             /\ h[m].value = v
             /\ born <= h[m].id /\ h[m].id < born'
  <2>1. h[m] = Row(m)
    BY <1>4
  <2>2. Nth(m) \in Nat /\ Nth(m) < Cardinality(M) /\ m \in Nat
    BY <1>1, <1>2
  <2> HIDE DEF Nth, M
  <2>3. born + Nth(m) \in Nat /\ born <= born + Nth(m) /\ born + Nth(m) < born'
    BY <1>1, <1>3, <2>2
  <2> QED  BY <2>1, <2>2, <2>3 DEF Rows
<1> HIDE DEF Row, M
<1>8. IsFiniteSet(N) /\ N \subseteq Rows
  <2>1. h = [m \in M |-> h[m]]
    BY <1>4
  <2> HIDE DEF Nth
  <2> QED  BY <1>1, <1>7, <2>1, FiniteImage
<1>9. f \in [rows -> Rows] /\ \A x \in rows : Descends(f[x], x) /\ (kind # "list" => f[x].value \in Nat)
  BY ExistingRows DEF Table, Descends
<1>10. \A r \in N : /\ born <= r.id /\ r.id < born' /\ r.value = v
                    /\ IF kind = "list" THEN r.member = r.id /\ -Forever < r.value ELSE r.value \in Nat
  <2> SUFFICES ASSUME NEW m \in M
               PROVE  /\ born <= h[m].id /\ h[m].id < born' /\ h[m].value = v
                      /\ h[m].value \in Nat
    OBVIOUS
  <2> QED  BY <1>7
<1>11. \A r, x \in N : r.id = x.id \/ r.member = x.member => r = x
  <2> SUFFICES ASSUME NEW l \in M, NEW m \in M, h[l].id = h[m].id \/ h[l].member = h[m].member
               PROVE  h[l] = h[m]
    OBVIOUS
  <2>1. CASE h[l].member = h[m].member
    <3>1. l = m
      BY <1>7, <2>1
    <3> QED  BY <3>1
  <2>2. CASE h[l].id = h[m].id
    <3>1. born + Nth(l) = born + Nth(m) /\ Nth(l) \in Nat /\ Nth(m) \in Nat
      BY <1>2, <1>7, <2>2
    <3> HIDE DEF Nth
    <3>2. Nth(l) = Nth(m)
      BY <1>3, <3>1
    <3> QED  BY <1>2, <3>2
  <2> QED  BY <2>1, <2>2
<1>12. \A r \in N, x \in rows : ~(r.key = x.key /\ r.member = x.member)
  <2> SUFFICES ASSUME NEW m \in M, NEW x \in rows, h[m].key = x.key, h[m].member = x.member  PROVE FALSE
    OBVIOUS
  <2>0. x.key = call[c].key /\ x.member = m
    BY <1>7
  <2>1. m \in call[c].members /\ m \notin {r.member : r \in Existing(c)}
    BY DEF M
  <2> QED  BY <2>0, <2>1, ExistingRows
<1>13. Evolves
  <2>1. born' \in Nat /\ born <= born'
    BY <1>1, <1>3
  <2> HIDE DEF N, f
  <2> QED  BY <1>6, <1>8, <1>9, <1>10, <1>11, <1>12, <2>1, RowsKept
<1>14. \A r \in rows' : \/ r \in rows \ Existing(c)
                        \/ \E x \in Existing(c) : r = g[x]
                        \/ born <= r.id /\ r.value = v
  <2> TAKE r \in rows'
  <2>1. r \in rows \ Existing(c) \/ (\E x \in Existing(c) : r = g[x]) \/ r \in N
    BY <1>5
  <2> HIDE DEF N
  <2> QED  BY <1>10, <2>1
<1> QED  BY <1>13, <1>14

LEMMA CallTyped ==
    ASSUME CallsOk, NEW c \in Clients
    PROVE  /\ CallOk(call[c]) /\ call[c] \in Calls /\ call[c].key \in Keys /\ call[c].members \in SUBSET Nat
           /\ call[c].number \in Int /\ call[c].at \in Nat /\ call[c].inherit \in Nat /\ call[c].until \in Nat
           /\ call[c].saw \subseteq Rows
<1>1. CallOk(call[c]) /\ call[c] \in Calls
  BY DEF CallsOk
<1> QED  BY <1>1 DEF Calls

\* A value that is set anew leaves no increment behind that gave more.
LEMMA SetAnew ==
    ASSUME Table, Returned, Evolves, NEW c \in Clients, UNCHANGED popped, given' = Since(c),
           \A r \in rows' : \/ r \in rows \ Existing(c)
                            \/ \E x \in Existing(c) : r.id = x.id
                            \/ born <= r.id
    PROVE  Returned'
<1>1. ASSUME NEW g \in given', NEW r \in rows', g.id = r.id  PROVE g.value <= r.value
  <2>1. g \in given /\ \A x \in Existing(c) : g.id # x.id
    BY DEF Since
  <2>2. g.id \in Nat /\ g.id < born
    BY <2>1 DEF Returned
  <2>3. r \in rows
    BY <1>1, <2>1, <2>2 DEF Table
  <2> QED  BY <1>1, <2>1, <2>3 DEF Returned
<1>2. given' \subseteq given
  BY DEF Since
<1> QED  BY <1>1, <1>2, ReturnedStays

LEMMA PutKeeps == ASSUME CollectionInv, NEW c \in Clients, Put(c)  PROVE CollectionInv'
<1> USE DEF CollectionInv
<1>1. PICK v : v = IF kind = "set" THEN 0 ELSE call[c].number
  OBVIOUS
<1>2. /\ call[c].op = "put" /\ Return(c) /\ given' = Since(c)
      /\ UNCHANGED <<kind, clock, calls, scan, popped>>
      /\ Upsert(c, v, call[c].inherit, {[r EXCEPT !.value = v] : r \in Existing(c)})
  BY <1>1 DEF Put, At
<1>3. kind # "list" /\ call[c].members \subseteq Members /\ v \in Nat
  BY <1>1, <1>2, CallTyped DEF CallOk
<1>4. PICK e : e = call[c].inherit
  OBVIOUS
<1>5. PICK g : g = [r \in Existing(c) |-> [r EXCEPT !.value = v]]
  OBVIOUS
<1>6. Existing(c) \subseteq rows /\ \A r \in Existing(c) : r \in Rows /\ g[r] = [r EXCEPT !.value = v]
  BY <1>5, ExistingRows, RowsTyped
<1>7. g \in [Existing(c) -> Rows] /\ \A r \in Existing(c) : Descends(g[r], r) /\ g[r].value \in Nat
  <2>1. \A r \in Rows : /\ [r EXCEPT !.value = v] \in Rows /\ [r EXCEPT !.value = v].value = v
                        /\ [r EXCEPT !.value = v].id = r.id /\ [r EXCEPT !.value = v].key = r.key
                        /\ [r EXCEPT !.value = v].member = r.member
    BY <1>3 DEF Rows
  <2> QED  BY <1>3, <1>5, <1>6, <2>1 DEF Descends
<1>8. Upsert(c, v, e, {g[r] : r \in Existing(c)})
  <2>1. {[r EXCEPT !.value = v] : r \in Existing(c)} = {g[r] : r \in Existing(c)}
    BY <1>6
  <2> QED  BY <1>2, <1>4, <2>1
<1>9. /\ Evolves
      /\ \A r \in rows' : \/ r \in rows \ Existing(c)
                          \/ \E x \in Existing(c) : r = g[x]
                          \/ born <= r.id /\ r.value = v
  BY <1>2, <1>3, <1>4, <1>7, <1>8, CallTyped, Upserted DEF Steady
<1>10. Returned'
  BY <1>2, <1>7, <1>9, SetAnew DEF Descends
<1> QED  BY <1>2, <1>9, <1>10, Ends

LEMMA SetKeeps == ASSUME CollectionInv, NEW c \in Clients, Set(c)  PROVE CollectionInv'
<1> USE DEF CollectionInv
<1>1. PICK v, e : v = call[c].number /\ e = call[c].until
  OBVIOUS
<1>2. /\ call[c].op = "set" /\ Return(c) /\ given' = Since(c)
      /\ UNCHANGED <<kind, clock, calls, scan, popped>>
      /\ Upsert(c, v, e, {[r EXCEPT !.value = v, !.expires = e] : r \in Existing(c)})
  BY <1>1 DEF Set, At
<1>3. kind # "list" /\ call[c].members \subseteq Members /\ v \in Nat /\ e \in Nat
  BY <1>1, <1>2, CallTyped DEF CallOk
<1>4. PICK g : g = [r \in Existing(c) |-> [r EXCEPT !.value = v, !.expires = e]]
  OBVIOUS
<1>5. Existing(c) \subseteq rows /\ \A r \in Existing(c) : r \in Rows /\ g[r] = [r EXCEPT !.value = v, !.expires = e]
  BY <1>4, ExistingRows, RowsTyped
<1>6. g \in [Existing(c) -> Rows] /\ \A r \in Existing(c) : Descends(g[r], r) /\ g[r].value \in Nat
  <2>1. ASSUME NEW r \in Existing(c)  PROVE g[r] \in Rows /\ Descends(g[r], r) /\ g[r].value = v
    <3>1. /\ r \in Rows
          /\ g[r] = [id |-> r.id, key |-> r.key, member |-> r.member, value |-> v, expires |-> e]
      BY <1>5 DEF Rows
    <3> QED  BY <1>3, <3>1 DEF Rows, Descends
  <2> QED  BY <1>3, <1>4, <2>1
<1>7. Upsert(c, v, e, {g[r] : r \in Existing(c)})
  <2>1. {[r EXCEPT !.value = v, !.expires = e] : r \in Existing(c)} = {g[r] : r \in Existing(c)}
    BY <1>5
  <2> QED  BY <1>2, <2>1
<1>8. /\ Evolves
      /\ \A r \in rows' : \/ r \in rows \ Existing(c)
                          \/ \E x \in Existing(c) : r = g[x]
                          \/ born <= r.id /\ r.value = v
  <2>1. kind' = kind /\ kind \in Kinds /\ call[c].key \in Keys /\ Table
    BY <1>2, CallTyped DEF Steady
  <2>2. /\ g \in [Existing(c) -> Rows]
        /\ \A x \in Existing(c) : Descends(g[x], x) /\ g[x].value \in Nat
    BY <1>6
  <2> QED  BY <1>3, <1>7, <2>1, <2>2, Upserted
<1>9. Returned'
  <2>1. \A x \in Existing(c) : g[x].id = x.id
    BY <1>6 DEF Descends
  <2>2. \A r \in rows' : \/ r \in rows \ Existing(c)
                         \/ \E x \in Existing(c) : r.id = x.id
                         \/ born <= r.id
    BY <1>8, <2>1
  <2> QED  BY <1>2, <1>8, <2>2, SetAnew
<1> QED  BY <1>2, <1>8, <1>9, Ends

\* What an increment returns is more than what those before it have.
IncrAdds(c) ==
    \A r \in rows', g \in given :
        /\ g.id = r.id /\ r \notin rows \ Existing(c)
        /\ kind = "counter" => \E x \in rows : x.id = r.id /\ Alive(x, call[c].at)
        => g.value < r.value

LEMMA IncrUpserts ==
    ASSUME CollectionInv, NEW c \in Clients, Incr(c)
    PROVE  /\ Evolves /\ IncrAdds(c)
           /\ \A r \in rows' : \/ r \in rows \ Existing(c)
                               \/ \E x \in Existing(c) : r.id = x.id
                               \/ born <= r.id
<1> USE DEF CollectionInv
<1>1. PICK v, e : v = call[c].number /\ e = IF kind = "counter" THEN call[c].until ELSE call[c].inherit
  OBVIOUS
<1>2. /\ call[c].op = "incr" /\ kind' = kind
      /\ Upsert(c, v, e, {Increment(c, r) : r \in Existing(c)})
  BY <1>1 DEF Incr, At
<1>3. kind # "list" /\ call[c].members \subseteq Members /\ v \in Nat /\ 0 < v /\ e \in Nat /\ call[c].key \in Keys
  <2>1. kind # "list" /\ call[c].members \subseteq Members /\ v \in Nat \ {0} /\ e \in Nat
    BY <1>1, <1>2, CallTyped DEF CallOk
  <2> QED  BY <2>1, CallTyped
<1>4. PICK g : g = [r \in Existing(c) |-> Increment(c, r)]
  OBVIOUS
<1>5. \A r \in Existing(c) : r \in rows /\ r \in Rows /\ r.value \in Nat /\ g[r] = Increment(c, r)
  BY <1>3, <1>4, ExistingRows, RowsTyped DEF Table
<1>6. ASSUME NEW r \in Existing(c)
      PROVE  /\ g[r] \in Rows /\ Descends(g[r], r) /\ g[r].value \in Nat
             /\ kind # "counter" \/ Alive(r, call[c].at) => r.value < g[r].value
  <2>1. PICK w, t : w = Incremented(c, r) /\ t = IF call[c].until = Forever THEN r.expires ELSE call[c].until
    OBVIOUS
  <2>2. g[r] = [id |-> r.id, key |-> r.key, member |-> r.member, value |-> w, expires |-> t]
    <3>1. g[r] = [r EXCEPT !.value = w, !.expires = t]
      BY <1>5, <2>1 DEF Increment
    <3> QED  BY <1>5, <3>1 DEF Rows
  <2>3. r.expires \in Nat /\ call[c].until \in Nat /\ t \in Nat
    BY <1>5, <2>1, CallTyped DEF Rows
  <2>4. /\ w = v \/ w = r.value + v
        /\ kind # "counter" \/ Alive(r, call[c].at) => w = r.value + v
    BY <1>1, <2>1 DEF Incremented
  <2>5. w \in Nat /\ (w = r.value + v => r.value < w)
    BY <1>3, <1>5, <2>4
  <2>6. g[r] \in Rows /\ g[r].value = w
    BY <1>5, <2>2, <2>3, <2>5 DEF Rows
  <2>7. Descends(g[r], r)
    BY <1>3, <2>2 DEF Descends
  <2> QED  BY <2>4, <2>5, <2>6, <2>7
<1>7. Upsert(c, v, e, {g[x] : x \in Existing(c)})
  <2>1. {Increment(c, r) : r \in Existing(c)} = {g[x] : x \in Existing(c)}
    BY <1>5
  <2> QED  BY <1>2, <2>1
<1>8. /\ Evolves
      /\ \A r \in rows' : \/ r \in rows \ Existing(c)
                          \/ \E x \in Existing(c) : r = g[x]
                          \/ born <= r.id /\ r.value = v
  <2>1. g \in [Existing(c) -> Rows] /\ \A x \in Existing(c) : Descends(g[x], x) /\ g[x].value \in Nat
    BY <1>4, <1>6
  <2> QED  BY <1>2, <1>3, <1>7, <2>1, Upserted DEF Steady
<1>9. \A x \in Existing(c) : g[x].id = x.id
  BY <1>6 DEF Descends
<1>10. ASSUME NEW r \in rows', NEW h \in given, h.id = r.id, r \notin rows \ Existing(c),
              kind = "counter" => \E x \in rows : x.id = r.id /\ Alive(x, call[c].at)
       PROVE  h.value < r.value
  <2>1. h.id < born /\ h.id \in Nat /\ h.value \in Nat
    BY DEF Returned
  <2>2. PICK x \in Existing(c) : r = g[x]
    BY <1>8, <1>10, <2>1 DEF Table
  <2>3. x \in rows /\ r.id = x.id /\ h.value <= x.value
    BY <1>5, <1>9, <1>10, <2>2 DEF Returned
  <2>4. kind # "counter" \/ Alive(x, call[c].at)
    BY <1>10, <2>3 DEF Table
  <2>5. x.value < r.value /\ x.value \in Nat /\ r.value \in Nat
    BY <1>5, <1>6, <2>2, <2>4
  <2> QED  BY <2>1, <2>3, <2>5
<1>11. IncrAdds(c)
  BY <1>10 DEF IncrAdds
<1>12. \A r \in rows' : \/ r \in rows \ Existing(c)
                        \/ \E x \in Existing(c) : r.id = x.id
                        \/ born <= r.id
  BY <1>8, <1>9
<1> QED  BY <1>8, <1>11, <1>12

LEMMA IncrKeeps == ASSUME CollectionInv, NEW c \in Clients, Incr(c)  PROVE CollectionInv'
<1> USE DEF CollectionInv
<1>1. Return(c) /\ UNCHANGED <<kind, clock, calls, scan, popped>> /\ call[c].op = "incr"
  BY DEF Incr, At
<1>2. Evolves /\ IncrAdds(c)
  BY IncrUpserts
<1>3. PICK old, new : /\ given' = old \cup new
                      /\ old = IF kind = "counter" /\ \A r \in Existing(c) : ~ Alive(r, call[c].at)
                               THEN Since(c) ELSE given
                      /\ new = {[id |-> r.id, value |-> r.value] : r \in {x \in rows' : IsTarget(c, x)}}
  BY DEF Incr
<1>4. /\ Table' /\ kind # "list" /\ kind' = kind /\ born \in Nat /\ born' \in Nat /\ born <= born'
      /\ \A r \in rows' : r.id \in Nat /\ r.id < born' /\ r.value \in Nat
  <2>1. kind # "list" /\ Table' /\ kind' = kind /\ born <= born'
    BY <1>1, <1>2, CallTyped DEF CallOk, Evolves
  <2> QED  BY <2>1 DEF Table, Rows
<1>5. ASSUME NEW g \in given, NEW r \in rows', g.id = r.id, g \in old  PROVE g.value <= r.value
  <2>1. g.value \in Nat /\ g.id < born
    BY DEF Returned
  <2>2. CASE r \in rows \ Existing(c)
    BY <1>5, <2>2 DEF Returned
  <2>3. CASE r \notin rows \ Existing(c)
    <3>1. PICK x \in Existing(c) : x.id = r.id
      BY <1>4, <1>5, <2>1, <2>3, IncrUpserts
    <3>2. kind = "counter" => Alive(x, call[c].at)
      <4>1. kind = "counter" => \E y \in Existing(c) : Alive(y, call[c].at)
        BY <1>3, <1>5, <3>1 DEF Since
      <4>2. \A y \in Existing(c) : y = x
        <5>1. PICK m : call[c].members = {m}
          BY <1>1, CallTyped DEF CallOk
        <5> QED  BY <3>1, <5>1, ExistingRows DEF Table
      <4> QED  BY <4>1, <4>2
    <3>3. g.value < r.value
      BY <1>2, <1>5, <2>3, <3>1, <3>2, ExistingRows DEF IncrAdds
    <3> QED  BY <1>4, <2>1, <3>3
  <2> QED  BY <2>2, <2>3
<1>6. old \subseteq given
  BY <1>3 DEF Since
<1>7. \A g \in new : \E r \in rows' : g.id = r.id /\ g.value = r.value /\ g \in [id : Nat, value : Nat]
  BY <1>3, <1>4
<1>8. ASSUME NEW g \in given', NEW r \in rows', g.id = r.id  PROVE g.value <= r.value
  <2>1. CASE g \in old
    BY <1>5, <1>6, <1>8, <2>1
  <2>2. CASE g \in new
    <3>1. PICK x \in rows' : g.id = x.id /\ g.value = x.value
      BY <1>7, <2>2
    <3>2. x = r
      BY <1>4, <1>8, <3>1 DEF Table
    <3> QED  BY <1>4, <3>1, <3>2
  <2> QED  BY <1>3, <2>1, <2>2
<1>9. given' \subseteq [id : Nat, value : Nat] /\ \A g \in given' : g.id < born'
  <2>1. ASSUME NEW g \in given'  PROVE g \in [id : Nat, value : Nat] /\ g.id < born'
    <3>1. CASE g \in old
      <4>1. g \in [id : Nat, value : Nat] /\ g.id < born /\ g.id \in Nat
        BY <1>6, <3>1 DEF Returned
      <4> QED  BY <1>4, <4>1
    <3>2. CASE g \in new
      BY <1>4, <1>7, <3>2
    <3> QED  BY <1>3, <3>1, <3>2
  <2> QED  BY <2>1
<1>10. popped' \subseteq 1..(born' - 1) /\ \A r \in rows' : r.id \notin popped'
  BY <1>1, <1>2, PoppedStay
<1>11. Returned'
  BY <1>8, <1>9, <1>10 DEF Returned
<1> QED  BY <1>1, <1>2, <1>11, Ends

\* New rows beside those that stay, which are not changed.
LEMMA RowsAdded ==
    ASSUME Table, kind' = kind,
           NEW K \in SUBSET rows, NEW N \in SUBSET Rows, IsFiniteSet(N), rows' = K \cup N,
           born' \in Nat, born <= born',
           \A r \in N : /\ born <= r.id /\ r.id < born'
                        /\ IF kind = "list" THEN r.member = r.id /\ -Forever < r.value ELSE r.value \in Nat,
           \A r, x \in N : r.id = x.id \/ r.member = x.member => r = x,
           \A r \in N, x \in K : ~(r.key = x.key /\ r.member = x.member)
    PROVE  /\ Evolves
           /\ \A r \in rows', x \in rows : r.id = x.id => x.value <= r.value
<1>1. PICK f : f = [x \in K |-> x]
  OBVIOUS
<1>2. K \subseteq Rows /\ \A x \in K : f[x] = x /\ x \in rows
  BY <1>1 DEF Table
<1>3. f \in [K -> Rows] /\ {f[x] : x \in K} = K
  BY <1>1, <1>2
<1>4. \A x \in K : Descends(f[x], x) /\ (kind # "list" => f[x].value \in Nat)
  BY <1>2 DEF Descends, Table
<1>5. Evolves
  BY <1>3, <1>4, RowsKept
<1>6. ASSUME NEW r \in rows', NEW x \in rows, r.id = x.id  PROVE x.value <= r.value
  <2>1. x.id < born /\ x.id \in Nat /\ born \in Nat /\ x.value \in Int
    BY RowsTyped DEF Table
  <2>2. r \in rows
    BY <1>6, <2>1
  <2>3. r = x
    BY <1>6, <2>2 DEF Table
  <2> QED  BY <2>1, <2>3
<1> QED  BY <1>5, <1>6

LEMMA PushKeeps == ASSUME CollectionInv, NEW c \in Clients, Push(c)  PROVE CollectionInv'
<1> USE DEF CollectionInv
<1>1. PICK n, base, e, k, desc :
        /\ n = call[c].number /\ base = call[c].at /\ e = call[c].inherit /\ k = call[c].key /\ desc = call[c].desc
  OBVIOUS
<1> DEFINE Position(index) == IF desc THEN -(base + n - index) ELSE base + index
           Row(m) == [id |-> m, key |-> k, member |-> m, value |-> Position(m - born), expires |-> e]
<1>2. /\ call[c].op = "push" /\ Return(c) /\ UNCHANGED <<kind, clock, calls, scan, popped, given>>
      /\ born' = born + n
      /\ rows' = rows \cup {Row(m) : m \in born..(born + n - 1)}
  BY <1>1 DEF Push, At
<1>3. /\ kind = "list" /\ n \in Nat \ {0} /\ base \in Nat /\ e \in Nat /\ k \in Keys
      /\ base + n < Forever
  <2>1. kind = "list" /\ n \in Counts /\ base \in Nat /\ base <= MaxTime /\ e \in Nat /\ k \in Keys
    BY <1>1, <1>2, CallTyped DEF CallOk
  <2>2. n \in Nat \ {0} /\ MaxTime + n < Forever /\ MaxTime \in Nat /\ Forever \in Nat
    BY <2>1, CollectionAssumption
  <2> QED  BY <2>1, <2>2
<1>4. born \in Nat \ {0} /\ born' \in Nat /\ born <= born' /\ Forever \in Nat
  BY <1>2, <1>3, Constants DEF Table
<1>5. PICK h : h = [m \in born..(born + n - 1) |-> Row(m)]
  OBVIOUS
<1>6. PICK N : N = {h[m] : m \in born..(born + n - 1)}
  OBVIOUS
<1>7. rows' = rows \cup N
  BY <1>2, <1>5, <1>6
<1>8. ASSUME NEW m \in born..(born + n - 1)
      PROVE  /\ h[m] \in Rows /\ h[m].id = m /\ h[m].member = m /\ m \in Nat /\ born <= m /\ m < born' /\ m # 0
             /\ -Forever < h[m].value
  <2>1. m \in Nat /\ born <= m /\ m < born' /\ m # 0 /\ m - born \in Nat
    BY <1>2, <1>3, <1>4
  <2>2. PICK p : p = Position(m - born)
    OBVIOUS
  <2>3. p \in Int /\ -Forever < p
    <3>1. PICK i \in Nat : i = m - born
      BY <2>1
    <3>2. p = -(base + n - i) \/ p = base + i
      BY <2>2, <3>1
    <3> HIDE DEF Position
    <3> QED  BY <1>3, <1>4, <3>2
  <2>4. h[m] = [id |-> m, key |-> k, member |-> m, value |-> p, expires |-> e]
    BY <1>5, <2>2
  <2> HIDE DEF Row, Position
  <2> QED  BY <1>3, <2>1, <2>3, <2>4 DEF Rows
<1> HIDE DEF Row, Position
<1>9. N \subseteq Rows /\ IsFiniteSet(N)
  <2>1. IsFiniteSet(born..(born + n - 1))
    BY <1>3, <1>4, FS_Interval
  <2>2. h = [m \in born..(born + n - 1) |-> h[m]]
    BY <1>5
  <2>3. IsFiniteSet({h[m] : m \in born..(born + n - 1)})
    BY <2>1, <2>2, FiniteImage
  <2> QED  BY <1>6, <1>8, <2>3
<1>10. \A r \in N : /\ born <= r.id /\ r.id < born'
                    /\ IF kind = "list" THEN r.member = r.id /\ -Forever < r.value ELSE r.value \in Nat
  BY <1>3, <1>6, <1>8
<1>11. \A r, x \in N : r.id = x.id \/ r.member = x.member => r = x
  BY <1>6, <1>8
<1>12. \A r \in N, x \in rows : ~(r.key = x.key /\ r.member = x.member)
  <2> SUFFICES ASSUME NEW m \in born..(born + n - 1), NEW x \in rows, h[m].member = x.member  PROVE FALSE
    BY <1>6
  <2>1. x.member = x.id /\ x.id < born /\ x.id \in Nat
    BY <1>3, RowsTyped DEF Table
  <2> QED  BY <1>4, <1>8, <2>1
<1>13. Evolves /\ \A r \in rows', x \in rows : r.id = x.id => x.value <= r.value
  BY <1>2, <1>4, <1>7, <1>9, <1>10, <1>11, <1>12, RowsAdded
<1>14. Returned'
  BY <1>2, <1>13, ReturnedKept
<1> QED  BY <1>2, <1>13, <1>14, Ends

LEMMA MoveKeeps == ASSUME CollectionInv, NEW c \in Clients, Move(c)  PROVE CollectionInv'
<1> USE DEF CollectionInv
<1>1. PICK k, e, t : k = call[c].key /\ e = call[c].inherit /\ t = call[c].at
  OBVIOUS
<1>2. PICK moved, N :
        /\ moved = {r \in StillThere(c) : Alive(r, t)}
        /\ N = IF moved = {} \/ Existing(c) # {} THEN {}
               ELSE {[id |-> born, key |-> k, member |-> m, value |-> 0, expires |-> e] : m \in call[c].members}
        /\ call[c].op = "move" /\ rows' = (rows \ moved) \cup N /\ born' = born + Cardinality(N)
        /\ Return(c) /\ UNCHANGED <<kind, clock, calls, scan, popped, given>>
  BY <1>1 DEF Move, At
<1>3. PICK m \in Members : kind = "set" /\ call[c].members = {m}
  BY <1>2, CallTyped DEF CallOk
<1>4. k \in Keys /\ e \in Nat /\ m \in Nat /\ born \in Nat
  BY <1>1, <1>3, CallTyped, Constants DEF Table, Kinds
<1>5. CASE N = {}
  <2>0. Cardinality(N) = 0
    BY <1>5, FS_EmptySet
  <2>1. born' = born /\ rows' \subseteq rows
    BY <1>2, <1>4, <1>5, <2>0
  <2>2. Evolves
    BY <1>2, <2>1, RowsRemoved
  <2>3. \A r \in rows', x \in rows : r.id = x.id => x.value <= r.value
    BY <2>1, RowsTyped DEF Table
  <2>4. Returned'
    BY <1>2, <2>2, <2>3, ReturnedKept
  <2> QED  BY <1>2, <2>2, <2>4, Ends
<1>6. CASE N # {}
  <2>1. PICK w : w = [id |-> born, key |-> k, member |-> m, value |-> 0, expires |-> e]
    OBVIOUS
  <2>2. N = {w} /\ Existing(c) = {}
    BY <1>2, <1>3, <1>6, <2>1
  <2>3. IsFiniteSet(N) /\ Cardinality(N) = 1 /\ w \in Rows
    <3>1. IsFiniteSet(N) /\ Cardinality(N) = 1
      BY <2>2, FS_Singleton
    <3>2. w \in Rows
      BY <1>4, <2>1 DEF Rows
    <3> QED  BY <3>1, <3>2
  <2>4. born' = born + 1
    BY <1>2, <2>3
  <2>5. \A x \in rows : ~(k = x.key /\ m = x.member)
    BY <1>1, <1>3, <2>2, ExistingRows
  <2>6. /\ \A r \in N : /\ born <= r.id /\ r.id < born'
                        /\ IF kind = "list" THEN r.member = r.id /\ -Forever < r.value ELSE r.value \in Nat
        /\ \A r, x \in N : r.id = x.id \/ r.member = x.member => r = x
        /\ \A r \in N, x \in rows \ moved : ~(r.key = x.key /\ r.member = x.member)
    BY <1>3, <1>4, <2>1, <2>2, <2>4, <2>5
  <2>7. /\ rows \ moved \in SUBSET rows /\ N \in SUBSET Rows /\ rows' = (rows \ moved) \cup N
        /\ born' \in Nat /\ born <= born' /\ kind' = kind
    BY <1>2, <1>4, <2>2, <2>3, <2>4
  <2>8. Evolves /\ \A r \in rows', x \in rows : r.id = x.id => x.value <= r.value
    BY <2>3, <2>6, <2>7, RowsAdded
  <2>9. Returned'
    BY <1>2, <2>8, ReturnedKept
  <2> QED  BY <1>2, <2>8, <2>9, Ends
<1> QED  BY <1>5, <1>6

\* A statement that only deletes.
LEMMA Deletes ==
    ASSUME CollectionInv, NEW c \in Clients, Return(c), rows' \subseteq rows,
           UNCHANGED <<kind, clock, calls, born, scan, popped, given>>
    PROVE  CollectionInv'
<1> USE DEF CollectionInv
<1>1. Evolves
  BY RowsRemoved
<1>2. \A r \in rows', x \in rows : r.id = x.id => x.value <= r.value
  BY RowsTyped DEF Table
<1>3. Returned'
  BY <1>1, <1>2, ReturnedKept
<1> QED  BY <1>1, <1>3, Ends

LEMMA RemoveKeeps == ASSUME CollectionInv, NEW c \in Clients, Remove(c)  PROVE CollectionInv'
<1>1. rows' \subseteq rows
  BY DEF Remove
<1> QED  BY <1>1, Deletes DEF Remove

LEMMA LostReplyKeeps == ASSUME CollectionInv, NEW c \in Clients, LostReply(c)  PROVE CollectionInv'
<1>1. rows' \subseteq rows
  BY DEF LostReply
<1> QED  BY <1>1, Deletes DEF LostReply

LEMMA SweepKeeps == ASSUME CollectionInv, NEW c \in Clients, Sweep(c)  PROVE CollectionInv'
<1>1. rows' \subseteq rows
  BY DEF Sweep
<1> QED  BY <1>1, Deletes DEF Sweep

\* What a pop returns was there, and is there no more.
LEMMA Taken ==
    ASSUME CollectionInv, NEW c \in Clients, Take(c)
    PROVE  Evolves /\ Returned'
<1> USE DEF CollectionInv
<1>1. /\ rows' = rows \ StillThere(c) /\ popped' = popped \cup {r.id : r \in StillThere(c)}
      /\ UNCHANGED <<kind, clock, calls, born, scan, given>>
  BY DEF Take, Deleted
<1>2. StillThere(c) \subseteq rows
  BY DEF StillThere
<1>3. Evolves
  BY <1>1, RowsRemoved
<1>4. \A r \in rows : r.id \in 1..(born - 1)
  BY RowsTyped DEF Table
<1>5. popped' \subseteq 1..(born' - 1)
  BY <1>1, <1>2, <1>4 DEF Returned
<1>6. ASSUME NEW r \in rows', r.id \in popped'  PROVE FALSE
  <2>1. r \in rows /\ r \notin StillThere(c) /\ r.id \notin popped
    BY <1>1 DEF Returned
  <2>2. PICK x \in StillThere(c) : x.id = r.id
    BY <1>1, <1>6, <2>1
  <2> QED  BY <1>2, <2>1, <2>2 DEF Table
<1> QED  BY <1>1, <1>3, <1>5, <1>6 DEF Returned

LEMMA PopKeeps == ASSUME CollectionInv, NEW c \in Clients, Pop(c)  PROVE CollectionInv'
  BY Taken, Ends DEF Pop, Take

LEMMA BlockingPopKeeps == ASSUME CollectionInv, NEW c \in Clients, BlockingPop(c)  PROVE CollectionInv'
<1> USE DEF CollectionInv
<1>1. Take(c) /\ call[c].op = "blockingPop" /\ Evolves /\ Returned'
  BY Taken DEF BlockingPop, At
<1>2. UNCHANGED <<kind, clock, calls, scan>>
  BY <1>1 DEF Take
<1>3. CASE Return(c)
  BY <1>1, <1>2, <1>3, Ends
<1>4. CASE ~ Return(c)
  <2>1. PICK q : q = IF call[c].rest = <<>> THEN KeysToTry ELSE call[c].rest
    OBVIOUS
  <2>2. PICK d : d = [call[c] EXCEPT !.step = "waiting", !.saw = {}, !.rest = q]
    OBVIOUS
  <2>3. call' = [call EXCEPT ![c] = d]
    <3>1. call' = [call EXCEPT ![c].step = "waiting", ![c].saw = {},
                               ![c].rest = IF @ = <<>> THEN KeysToTry ELSE @]
      BY <1>4 DEF BlockingPop
    <3> QED  BY <2>1, <2>2, <3>1 DEF CallsOk
  <2>4. q \in Seq(Keys) /\ q # <<>>
    <3>1. call[c].rest \in Seq(Keys)
      BY CallTyped DEF Calls
    <3> QED  BY <2>1, <3>1, Constants DEF KeysToTry
  <2>5. /\ d \in Calls /\ d.op = "blockingPop" /\ d.at = call[c].at /\ d.step = "waiting" /\ d.rest = q
    BY <1>1, <2>2, <2>4, CallTyped DEF Calls
  <2>6. CallOk(d)
    BY <2>4, <2>5, CallTyped DEF CallOk
  <2>7. CallsOk'
    BY <1>2, <2>3, <2>6, CallsKept
  <2>8. Steady' /\ Scanned'
    BY <1>1, <1>2, ScannedKept DEF Steady
  <2> QED  BY <1>1, <2>7, <2>8 DEF Evolves
<1> QED  BY <1>3, <1>4

LEMMA ExpireKeeps == ASSUME CollectionInv, NEW c \in Clients, Expire(c)  PROVE CollectionInv'
<1> USE DEF CollectionInv
<1>1. PICK u : u = call[c].until
  OBVIOUS
<1>2. /\ rows' = (rows \ StillThere(c)) \cup {[r EXCEPT !.expires = u] : r \in StillThere(c)}
      /\ Return(c) /\ UNCHANGED <<kind, clock, calls, born, scan, popped, given>>
  BY <1>1 DEF Expire
<1>3. u \in Nat /\ StillThere(c) \subseteq rows /\ born \in Nat
  BY <1>1, CallTyped DEF StillThere, Table
<1>4. PICK f : f = [x \in rows |-> IF x \in StillThere(c) THEN [x EXCEPT !.expires = u] ELSE x]
  OBVIOUS
<1>5. ASSUME NEW x \in rows
      PROVE  f[x] \in Rows /\ f[x].value = x.value /\ f[x].id = x.id /\ f[x].key = x.key /\ f[x].member = x.member
  <2>1. x \in Rows
    BY RowsTyped
  <2>2. CASE x \in StillThere(c)
    <3>1. f[x] = [x EXCEPT !.expires = u]
      BY <1>4, <2>2
    <3> QED  BY <1>3, <2>1, <3>1 DEF Rows
  <2>3. CASE x \notin StillThere(c)
    BY <1>4, <2>1, <2>3
  <2> QED  BY <2>2, <2>3
<1>6. rows' = {f[x] : x \in rows} \cup {}
  <2>1. {f[x] : x \in rows} = (rows \ StillThere(c)) \cup {[r EXCEPT !.expires = u] : r \in StillThere(c)}
    BY <1>3, <1>4
  <2> QED  BY <1>2, <2>1
<1>7. f \in [rows -> Rows]
  BY <1>4, <1>5
<1>8. \A x \in rows : Descends(f[x], x) /\ (kind # "list" => f[x].value \in Nat)
  BY <1>5 DEF Descends, Table
<1>9. Evolves
  <2>1. IsFiniteSet({}) /\ {} \in SUBSET Rows /\ born' = born /\ born' \in Nat /\ born <= born'
    BY <1>2, <1>3, FS_EmptySet
  <2> QED  BY <1>2, <1>6, <1>7, <1>8, <2>1, RowsKept
<1>10. ASSUME NEW r \in rows', NEW x \in rows, r.id = x.id  PROVE x.value <= r.value
  <2>1. PICK y \in rows : r = f[y]
    BY <1>6
  <2>2. y = x
    BY <1>5, <1>10, <2>1 DEF Table
  <2> QED  BY <1>5, <2>1, <2>2, RowsTyped
<1>11. Returned'
  BY <1>2, <1>9, <1>10, ReturnedKept
<1> QED  BY <1>2, <1>9, <1>11, Ends

-----------------------------------------------------------------------------
(* The scans.                                                              *)

LEMMA Cursors ==
    ASSUME Table, NEW r \in rows
    PROVE  /\ CursorOf(r) \in Int /\ FirstCursor \in Int
           /\ r.member # 0 => FirstCursor < CursorOf(r)
<1>1. r.member \in Nat /\ r.value \in Int /\ Forever \in Nat
  BY RowsTyped, Constants
<1>2. CASE kind = "list"
  BY <1>1, <1>2 DEF Table, CursorOf, FirstCursor
<1>3. CASE kind # "list"
  BY <1>1, <1>3 DEF CursorOf, FirstCursor
<1> QED  BY <1>2, <1>3

LEMMA Limits == ASSUME NEW count \in Int  PROVE Limit(count) \in Nat
  BY DEF Limit

\* A page is what comes first after the cursor, and all there is when it is
\* not full, except for an hscan whose count is not whole.
LEMMA PageOfScan ==
    ASSUME Table, NEW k, NEW cursor, NEW count \in Int,
           NEW page, page = FirstOf(After(k, cursor), Limit(count), ScanOrder)
    PROVE  /\ page \subseteq After(k, cursor) /\ After(k, cursor) \subseteq rows /\ IsFiniteSet(page)
           /\ ~ Full(page, count) /\ (kind = "hash" => Whole(count)) => page = After(k, cursor)
           /\ \A p \in page, r \in After(k, cursor) \ page : Precedes(ScanOrder, p, r)
<1> DEFINE R == After(k, cursor)
<1>1. R \in SUBSET Of(k) /\ R \subseteq rows /\ IsFiniteSet(R)
  <2>1. R \in SUBSET Of(k) /\ R \in SUBSET rows
    BY DEF After, Visible, Of
  <2> QED  BY <2>1, FS_Subset DEF Table
<1>2. PICK n \in Nat : n = Limit(count)
  BY Limits
<1>3. PICK order \in {"asc", "desc", "member"} : order = ScanOrder
  BY DEF ScanOrder
<1> HIDE DEF R
<1>4. /\ page \subseteq R /\ IsFiniteSet(page)
      /\ Cardinality(page) = IF n < Cardinality(R) THEN n ELSE Cardinality(R)
      /\ \A p \in page, r \in R \ page : Precedes(ScanOrder, p, r)
  <2>1. page = FirstOf(R, n, order)
    BY <1>2, <1>3 DEF R
  <2>2. LET P == FirstOf(R, n, order) IN
        /\ P \subseteq R /\ IsFiniteSet(P)
        /\ Cardinality(P) = IF n < Cardinality(R) THEN n ELSE Cardinality(R)
        /\ \A p \in P, r \in R \ P : Precedes(order, p, r)
    BY <1>1, FirstOfRows
  <2> QED  BY <1>3, <2>1, <2>2
<1>5. Cardinality(page) # n => page = R
  BY <1>1, <1>4, FS_Subset
<1>6. ASSUME ~ Full(page, count), kind = "hash" => Whole(count)  PROVE Cardinality(page) # n
  <2>1. CASE kind = "hash"
    <3>1. count = 2 * n
      BY <1>2, <1>6, <2>1 DEF Whole
    <3> QED  BY <1>6, <2>1, <3>1 DEF Full
  <2>2. CASE kind # "hash"
    BY <1>2, <1>6, <2>2 DEF Full
  <2> QED  BY <2>1, <2>2
<1> QED  BY <1>1, <1>4, <1>5, <1>6 DEF R

LEMMA ScanPageKeeps == ASSUME CollectionInv, NEW k, ScanPage(k)  PROVE CollectionInv'
<1> USE DEF CollectionInv
<1>0. PICK count \in Pages :
        LET cursor == IF scan.on THEN scan.cursor ELSE FirstCursor
            page == FirstOf(After(k, cursor), Limit(count), ScanOrder)
            full == Full(page, count)
        IN  /\ ~ scan.over
            /\ full => page # {}
            /\ IF scan.on THEN scan.key = k /\ UNCHANGED calls
                          ELSE calls < MaxCalls[kind] /\ calls' = calls + 1
            /\ scan' = [on |-> TRUE, over |-> ~ full, whole |-> kind = "hash" => Whole(count), key |-> k,
                        cursor |-> IF full THEN Max({CursorOf(r) : r \in page}) ELSE cursor,
                        due |-> IF scan.on THEN scan.due \cap {r.id : r \in Visible(k)}
                                           ELSE {r.id : r \in Visible(k)},
                        got |-> scan.got \cup {[id |-> r.id, cursor |-> CursorOf(r)] : r \in page}]
            /\ UNCHANGED <<kind, clock, rows, born, call, popped, given>>
  BY DEF ScanPage
<1>1. PICK cursor, page :
        /\ cursor = (IF scan.on THEN scan.cursor ELSE FirstCursor)
        /\ page = FirstOf(After(k, cursor), Limit(count), ScanOrder)
  OBVIOUS
<1>2. PICK full, whole, last, due, got :
        /\ full = Full(page, count)
        /\ whole = (kind = "hash" => Whole(count))
        /\ last = IF full THEN Max({CursorOf(r) : r \in page}) ELSE cursor
        /\ due = IF scan.on THEN scan.due \cap {r.id : r \in Visible(k)} ELSE {r.id : r \in Visible(k)}
        /\ got = scan.got \cup {[id |-> r.id, cursor |-> CursorOf(r)] : r \in page}
  OBVIOUS
<1>3. /\ scan' = [on |-> TRUE, over |-> ~ full, whole |-> whole, key |-> k, cursor |-> last, due |-> due, got |-> got]
      /\ full => page # {}
      /\ ~ scan.over /\ (calls' = calls \/ (calls < MaxCalls[kind] /\ calls' = calls + 1))
      /\ UNCHANGED <<kind, clock, rows, born, call, popped, given>>
  BY <1>0, <1>1, <1>2
<1>4. /\ page \subseteq After(k, cursor) /\ After(k, cursor) \subseteq rows /\ IsFiniteSet(page)
      /\ ~ full /\ whole => page = After(k, cursor)
      /\ \A p \in page, r \in After(k, cursor) \ page : Precedes(ScanOrder, p, r)
  <2>1. count \in Int
    BY CollectionAssumption
  <2> QED  BY <1>1, <1>2, <2>1, PageOfScan
<1>5. Visible(k) \subseteq rows /\ \A r \in rows : CursorOf(r) \in Int /\ r.id \in Nat /\ r.id < born
  BY Cursors, RowsTyped DEF Visible, Of, Table
<1>6. cursor \in Int
  <2>1. FirstCursor \in Int
    BY Constants DEF FirstCursor
  <2> QED  BY <1>1, <2>1 DEF Scanned
<1>7. full => last \in Int /\ (\E p \in page : last = CursorOf(p)) /\ \A p \in page : CursorOf(p) <= last
  <2> SUFFICES ASSUME full  PROVE last \in Int /\ (\E p \in page : last = CursorOf(p)) /\ \A p \in page : CursorOf(p) <= last
    OBVIOUS
  <2>1. PICK f : f = [p \in page |-> CursorOf(p)]
    OBVIOUS
  <2>2. PICK E : E = {CursorOf(r) : r \in page}
    OBVIOUS
  <2>3. E = {f[p] : p \in page} /\ f = [p \in page |-> f[p]]
    BY <2>1, <2>2
  <2>4. IsFiniteSet(E)
    BY <1>4, <2>3, FiniteImage
  <2>5. E \subseteq Int
    BY <1>4, <1>5, <2>2
  <2>6. page # {}
    BY <1>3
  <2>7. E # {}
    BY <2>2, <2>6
  <2>8. Max(E) \in E /\ \A x \in E : x <= Max(E)
    BY <2>4, <2>5, <2>7, MaxOf
  <2>9. last = Max(E)
    BY <1>2, <2>2
  <2> QED  BY <2>2, <2>5, <2>8, <2>9
<1>8. due \subseteq {r.id : r \in Visible(k)} /\ (scan.on => due \subseteq scan.due)
  BY <1>2
<1>9. ASSUME NEW r \in rows, r.id \in due, r.member # 0, CursorOf(r) <= cursor  PROVE Got(r)
  <2>1. scan.on
    <3>1. ~ scan.on => FirstCursor < CursorOf(r) /\ cursor = FirstCursor
      BY <1>1, <1>9, Cursors
    <3> QED  BY <1>5, <1>6, <1>9, <3>1
  <2> QED  BY <1>1, <1>8, <1>9, <2>1 DEF Scanned
<1>10. ASSUME NEW r \in rows, r.id \in due, r.member # 0, (~ full /\ whole) \/ CursorOf(r) <= last
       PROVE  \E g \in got : g.id = r.id \/ (kind = "list" /\ g.cursor = r.value)
  <2>1. CASE CursorOf(r) <= cursor
    <3>1. Got(r)
      BY <1>9, <1>10, <2>1
    <3> QED  BY <1>2, <3>1 DEF Got
  <2>2. CASE r \in page
    <3>1. [id |-> r.id, cursor |-> CursorOf(r)] \in got
      BY <1>2, <2>2
    <3> QED  BY <3>1
  <2>3. CASE cursor < CursorOf(r) /\ r \notin page
    <3>1. r \in Visible(k)
      <4>1. PICK x \in Visible(k) : x.id = r.id
        BY <1>8, <1>10
      <4> QED  BY <1>5, <4>1 DEF Table
    <3>2. r \in After(k, cursor) \ page
      BY <2>3, <3>1 DEF After
    <3>3. full
      <4>1. ~ full => last = cursor
        BY <1>2
      <4>2. page # After(k, cursor)
        BY <3>2
      <4> QED  BY <1>4, <1>5, <1>6, <1>10, <2>3, <4>1, <4>2
    <3>4. PICK p \in page : last = CursorOf(p)
      BY <1>7, <3>3
    <3>5. Precedes(ScanOrder, p, r)
      BY <1>4, <3>2
    <3>6. CursorOf(r) <= CursorOf(p) /\ p \in rows
      BY <1>4, <1>10, <3>3, <3>4
    <3>7. p.member \in Nat /\ r.member \in Nat /\ p.value \in Int /\ r.value \in Int
      BY <3>6, RowsTyped
    <3>8. kind = "list"
      <4> SUFFICES ASSUME kind # "list"  PROVE FALSE
        OBVIOUS
      <4>1. p.member < r.member
        BY <3>5 DEF ScanOrder, Precedes
      <4>2. r.member <= p.member
        BY <3>6 DEF CursorOf
      <4> QED  BY <3>7, <4>1, <4>2
    <3>9. p.value = r.value /\ CursorOf(p) = p.value
      <4>1. Before(p, r)
        BY <3>5, <3>8 DEF ScanOrder, Precedes
      <4>2. CursorOf(p) = p.value /\ CursorOf(r) = r.value
        BY <3>8 DEF CursorOf
      <4> QED  BY <3>6, <3>7, <4>1, <4>2 DEF Before
    <3>10. PICK g : g = [id |-> p.id, cursor |-> CursorOf(p)]
      OBVIOUS
    <3>11. g \in got /\ g.cursor = r.value
      BY <1>2, <3>9, <3>10
    <3> QED  BY <3>8, <3>11
  <2> QED  BY <1>5, <1>6, <2>1, <2>2, <2>3
<1>11. Scanned'
  <2>1. last \in Int
    BY <1>2, <1>6, <1>7
  <2>2. due \subseteq Nat /\ \A i \in due : i < born
    BY <1>5, <1>8
  <2>3. scan'.cursor = last /\ scan'.due = due /\ scan'.got = got /\ (scan'.over <=> ~ full)
        /\ (scan'.whole <=> whole)
    BY <1>3
  <2>4. \A r \in rows : CursorOf(r)' = CursorOf(r)
    BY <1>3 DEF CursorOf
  <2> QED  BY <1>3, <1>10, <2>1, <2>2, <2>3, <2>4 DEF Scanned, Got
<1>12. Steady'
  BY <1>3, CollectionAssumption DEF Steady
<1>13. Table' /\ Returned'
  BY <1>3 DEF Table, Returned
<1>14. CallsOk'
  BY <1>3 DEF CallsOk, CallOk, Members, Alive
<1> QED  BY <1>11, <1>12, <1>13, <1>14

-----------------------------------------------------------------------------
(* The theorems.                                                           *)

LEMMA InitInv == Init => CollectionInv
<1> SUFFICES ASSUME Init  PROVE CollectionInv
  OBVIOUS
<1>1. kind \in Kinds /\ clock = 0 /\ calls = 0 /\ MaxTime \in Nat /\ MaxCalls[kind] \in Nat
  BY CollectionAssumption DEF Init
<1>2. Steady
  BY <1>1 DEF Steady
<1>3. Table
  BY FS_EmptySet DEF Init, Table
<1>4. CallsOk
  BY NoCallOk DEF Init, CallsOk
<1>5. Returned /\ Scanned
  BY DEF Init, Returned, Scanned
<1> QED  BY <1>2, <1>3, <1>4, <1>5 DEF CollectionInv

LEMMA StepKeeps == CollectionInv /\ [Next]_vars => CollectionInv'
<1> SUFFICES ASSUME CollectionInv, [Next]_vars  PROVE CollectionInv'
  OBVIOUS
<1>1. KeysOf[kind] \subseteq Keys
  BY Constants DEF CollectionInv, Steady
<1>2. ASSUME NEW c \in Clients, NEW k \in KeysOf[kind],
             \/ CallPut(c, k) \/ CallIncr(c, k) \/ CallSet(c, k) \/ CallPush(c, k)
             \/ CallRemove(c, k) \/ CallClear(c, k) \/ CallMove(c, k) \/ CallPop(c, k)
             \/ CallExpire(c, k) \/ CallPersist(c, k)
      PROVE  CollectionInv'
  BY <1>1, <1>2, CallPutKeeps, CallIncrKeeps, CallSetKeeps, CallPushKeeps, CallRemoveKeeps, CallClearKeeps,
     CallMoveKeeps, CallPopKeeps, CallExpireKeeps
<1>3. ASSUME NEW c \in Clients, CallBlockingPop(c) \/ CallSweep(c) \/ Fail(c) \/ LostReply(c) \/ Poll(c)  PROVE CollectionInv'
  BY <1>3, CallBlockingPopKeeps, CallSweepKeeps, FailKeeps, LostReplyKeeps, PollKeeps
<1>4. ASSUME NEW c \in Clients, Execute(c)  PROVE CollectionInv'
  BY <1>4, PutKeeps, IncrKeeps, SetKeeps, PushKeeps, RemoveKeeps, MoveKeeps, PopKeeps, BlockingPopKeeps,
     ExpireKeeps, SweepKeeps DEF Execute
<1>5. CASE UNCHANGED vars
  BY <1>5 DEF vars, CollectionInv, Steady, Table, CallsOk, CallOk, Members, Alive, Returned, Scanned, Got, CursorOf
<1> QED  BY <1>2, <1>3, <1>4, <1>5, ScanPageKeeps, TickKeeps DEF Next

\* The tables, the calls under way, what has been returned, and the scan are
\* always as CollectionInv says (hash.ts, set.ts, sorted-set.ts, list.ts,
\* counter.ts).
THEOREM CollectionInvariant == Spec => []CollectionInv
<1>1. Init => CollectionInv
  BY InitInv
<1>2. CollectionInv /\ [Next]_vars => CollectionInv'
  BY StepKeeps
<1> QED  BY <1>1, <1>2, PTL DEF Spec

\* The state is well typed, and every table keeps its primary key: one row
\* for a key and a member, whatever statements race to insert it (ON
\* CONFLICT of hset, sadd, zadd, smove, incr).
THEOREM TypeCorrect == Spec => []TypeOK
<1>1. CollectionInv => TypeOK
  <2> SUFFICES ASSUME CollectionInv  PROVE TypeOK
    OBVIOUS
  <2>1. popped \subseteq 1..born
    <3>1. \A b \in Nat : 1..(b - 1) \subseteq 1..b
      OBVIOUS
    <3>2. 1..(born - 1) \subseteq 1..born
      BY <3>1 DEF CollectionInv, Table
    <3> QED  BY <3>2 DEF CollectionInv, Returned
  <2> QED  BY <2>1 DEF CollectionInv, Steady, Table, CallsOk, Returned, TypeOK
<1> QED  BY <1>1, CollectionInvariant, PTL

\* No pop returns a row that another has returned, and what it returns was
\* still in the table (pop, spop, zpopmin, zpopmax, blockingPop).
THEOREM PoppedAtMostOnce == Spec => PoppedOnce
<1>1. CollectionInv => \A c \in Clients : Pop(c) \/ BlockingPop(c) =>
                          \A r \in Deleted(c) : r.id \notin popped /\ r \in rows
  BY DEF CollectionInv, Returned, Deleted, StillThere
<1> QED  BY <1>1, CollectionInvariant, PTL DEF PoppedOnce

\* A sweep deletes only rows that have expired, though others extend the life
\* of rows it has picked (cleanupExpired).
THEOREM SweepsExpired == Spec => SweptExpired
<1>1. CollectionInv => \A c \in Clients : Sweep(c) => \A r \in rows \ rows' : ~ Alive(r, clock)
  <2> SUFFICES ASSUME CollectionInv, NEW c \in Clients, Sweep(c), NEW r \in rows \ rows'  PROVE ~ Alive(r, clock)
    OBVIOUS
  <2>1. r \in call[c].saw /\ call[c].op = "sweep"
    BY DEF Sweep, Swept, At
  <2> QED  BY <2>1, CallTyped DEF CollectionInv, CallOk
<1> QED  BY <1>1, CollectionInvariant, PTL DEF SweptExpired

\* Every increment returns more than those before it, until the value is set
\* anew or removed, or its counter has expired (incr, hincrby, zincrby).
THEOREM NoIncrementLost == Spec => NoneLost
<1> DEFINE Adds(c) == \A r \in rows', g \in given :
                         /\ IsTarget(c, r) /\ g.id = r.id
                         /\ (kind = "counter" => \E x \in rows : x.id = r.id /\ Alive(x, call[c].at))
                         => g.value < r.value
<1>1. CollectionInv => \A c \in Clients : Incr(c) => Adds(c)
  <2> SUFFICES ASSUME CollectionInv, NEW c \in Clients, Incr(c)  PROVE Adds(c)
    OBVIOUS
  <2>1. IncrAdds(c)
    BY IncrUpserts
  <2>2. \A r \in rows' : IsTarget(c, r) => r \notin rows \ Existing(c)
    BY ExistingRows DEF IsTarget, CollectionInv
  <2> QED  BY <2>1, <2>2 DEF IncrAdds
<1> QED  BY <1>1, CollectionInvariant, PTL DEF NoneLost

\* A scan that is over has returned everything that was there all the time,
\* whatever was inserted, updated or removed meanwhile; except for the empty
\* field or member, for what an hscan leaves out whose count is no whole number
\* of at least 1, and in a list for what has the position of an element that
\* the scan has returned (hscan, sscan, zscan, lscan).
THEOREM ScansComplete == Spec => []ScanComplete
<1>1. CollectionInv => ScanComplete
  BY DEF CollectionInv, Scanned, Got, ScanComplete
<1> QED  BY <1>1, CollectionInvariant, PTL
=============================================================================
