------------------------- MODULE OutboxStreamProofs -------------------------
(***************************************************************************)
(* What holds of PgOutboxStream for any consumers, messages, limits, delays *)
(* and visibility timeout: claims exclude each other, nothing is processed *)
(* or trimmed undelivered, and what is processed is never claimed again.   *)
(***************************************************************************)
EXTENDS OutboxStream, TLAPS

\* Passed counts down to zero and keeps the order of times.
LEMMA PassedType ==
    ASSUME NEW s \in Nat \cup {Unlocked}, NEW t \in Nat \cup {Unlocked}
    PROVE  /\ Passed(t) \in Nat \cup {Unlocked} /\ Passed(t) <= t
           /\ t \in Nat => Passed(t) \in Nat
           /\ s <= t => Passed(s) <= Passed(t)
  BY DEF Passed, Unlocked

\* What Claim and a late failure of it write.
LEMMA LockedType ==
    ASSUME TypeOK, NEW c \in Consumers
    PROVE  /\ Locked(c) \in [Messages -> Rows]
           /\ \A i \in Messages :
                /\ Locked(c)[i].state = row[i].state
                /\ i \notin batch[c] => Locked(c)[i] = row[i]
                /\ i \in batch[c] => Locked(c)[i].locked = left[c]
<1>1. left[c] \in Nat
  BY TimeAssumption DEF TypeOK
<1>2. ASSUME NEW i \in Messages
      PROVE  /\ Locked(c)[i] \in Rows /\ Locked(c)[i].state = row[i].state
             /\ i \notin batch[c] => Locked(c)[i] = row[i]
             /\ i \in batch[c] => Locked(c)[i].locked = left[c]
  <2>1. row[i] \in Rows
    BY DEF TypeOK
  <2>2. Locked(c)[i] = IF i \in batch[c] THEN [row[i] EXCEPT !.locked = left[c]] ELSE row[i]
    BY DEF Locked
  <2> QED  BY <1>1, <2>1, <2>2 DEF Rows
<1> QED  BY <1>2 DEF Locked

\* What Ack writes.
LEMMA AcknowledgedType ==
    ASSUME TypeOK, NEW i \in Messages
    PROVE  /\ Acknowledged(i) \in [Messages -> Rows]
           /\ \A j \in Messages : j # i => Acknowledged(i)[j] = row[j]
           /\ Acknowledged(i)[i].state \in {row[i].state, "processed"}
           /\ Acknowledged(i)[i].state # "ready"
           /\ Acknowledged(i)[i].state = "processed" => row[i].state \in {"ready", "processed"}
<1>1. row \in [Messages -> Rows]
  BY DEF TypeOK
<1>2. row[i] \in Rows /\ Unlocked \notin Nat
  BY <1>1 DEF Unlocked
<1>3. Acknowledged(i) \in [Messages -> Rows]
  BY <1>1, <1>2 DEF Acknowledged, Rows
<1>4. \A j \in Messages : j # i => Acknowledged(i)[j] = row[j]
  BY <1>1 DEF Acknowledged
<1>5. /\ Acknowledged(i)[i].state \in {row[i].state, "processed"}
      /\ Acknowledged(i)[i].state # "ready"
      /\ Acknowledged(i)[i].state = "processed" => row[i].state \in {"ready", "processed"}
  BY <1>1, <1>2 DEF Acknowledged, Rows
<1> QED  BY <1>3, <1>4, <1>5

\* The messages a claim picks are claimable and nobody's.
LEMMA PickedClaimable ==
    ASSUME NEW n, NEW i \in First(n, {j \in Messages : Claimable(j) /\ ~RowLocked(j)})
    PROVE  i \in Messages /\ Claimable(i) /\ ~RowLocked(i)
  BY DEF First

\* Every reachable state of the table and of the consumers is well typed.
THEOREM TypeCorrect == Spec => []TypeOK
<1>1. Init => TypeOK
  BY LimitAssumption, TimeAssumption DEF Init, TypeOK, NoRow, Rows, Unlocked
<1>2. TypeOK /\ [Next]_vars => TypeOK'
  <2> SUFFICES ASSUME TypeOK, [Next]_vars  PROVE TypeOK'
    OBVIOUS
  <2> USE LimitAssumption, TimeAssumption
  <2>1. ASSUME NEW i \in Messages, NEW delay \in Delays, Append(i, delay)  PROVE TypeOK'
    BY <2>1 DEF Append, TypeOK, Rows, Unlocked
  <2>2. ASSUME NEW i \in Messages, Commit(i)  PROVE TypeOK'
    BY <2>2 DEF Commit, TypeOK, Rows
  <2>3. ASSUME NEW c \in Consumers, NEW n \in Limits, Pick(c, n)  PROVE TypeOK'
    <3> First(n, {i \in Messages : Claimable(i) /\ ~RowLocked(i)}) \in SUBSET Messages
      BY DEF First
    <3> QED  BY <2>3 DEF Pick, TypeOK
  <2>4. ASSUME NEW c \in Consumers, Claim(c)  PROVE TypeOK'
    BY <2>4, LockedType DEF Claim, TypeOK
  <2>5. ASSUME NEW c \in Consumers, NEW i \in Messages, Deliver(c, i)  PROVE TypeOK'
    BY <2>5 DEF Deliver, TypeOK
  <2>6. ASSUME NEW c \in Consumers, Ack(c)  PROVE TypeOK'
    <3> handled[c] \in Messages
      BY <2>6 DEF Ack, TypeOK
    <3> row' \in [Messages -> Rows]
      BY <2>6, AcknowledgedType DEF Ack
    <3> QED  BY <2>6 DEF Ack, TypeOK
  <2>7. ASSUME NEW c \in Consumers, Abandon(c)  PROVE TypeOK'
    <3>1. row' \in [Messages -> Rows]
      <4>1. row \in [Messages -> Rows] /\ Locked(c) \in [Messages -> Rows]
        BY LockedType DEF TypeOK
      <4> QED  BY <2>7, <4>1 DEF Abandon
    <3>2. faults' \in 0..MaxFaults
      <4>1. faults \in 0..MaxFaults
        BY DEF TypeOK
      <4> QED  BY <2>7, <4>1 DEF Abandon
    <3>3. pc' \in [Consumers -> {"idle", "picking", "working"}] /\ UNCHANGED delivered
      BY <2>7 DEF Abandon, TypeOK
    <3>5. left' \in [Consumers -> 0..Visibility]
      <4>1. 0 \in 0..Visibility /\ left \in [Consumers -> 0..Visibility]
        BY DEF TypeOK
      <4> QED  BY <2>7, <4>1 DEF Abandon
    <3>4. batch' \in [Consumers -> SUBSET Messages] /\ handled' \in [Consumers -> Messages \cup {0}]
      BY <2>7 DEF Abandon, TypeOK
    <3> QED  BY <3>1, <3>2, <3>3, <3>4, <3>5 DEF TypeOK
  <2>8. ASSUME NEW K \in SUBSET Messages, Trim(K)  PROVE TypeOK'
    BY <2>8 DEF Trim, TypeOK, NoRow, Rows, Unlocked
  <2>9. ASSUME Tick  PROVE TypeOK'
    <3>1. \A c \in Consumers : Passed(left[c]) \in 0..Visibility
      BY PassedType DEF TypeOK
    <3>2. \A i \in Messages : /\ Passed(row[i].available) \in Nat
                              /\ Passed(row[i].locked) \in Nat \cup {Unlocked}
      BY ZenonT(30), PassedType DEF TypeOK, Rows
    <3>3. row' \in [Messages -> Rows]
      <4>1. \A i \in Messages : [row[i] EXCEPT !.available = Passed(@), !.locked = Passed(@)] \in Rows
        BY <3>2 DEF TypeOK, Rows
      <4> QED  BY <2>9, <4>1 DEF Tick
    <3> QED  BY <2>9, <3>1, <3>3 DEF Tick, TypeOK
  <2>10. ASSUME UNCHANGED vars  PROVE TypeOK'
    BY <2>10 DEF vars, TypeOK
  <2> QED
    BY <2>1, <2>2, <2>3, <2>4, <2>5, <2>6, <2>7, <2>8, <2>9, <2>10 DEF Next, Work
<1> QED  BY <1>1, <1>2, PTL DEF Spec

\* A step that adds no message to a batch, revives no claim, and takes no row
\* that is in a batch back, keeps the claims.
Quiet ==
    /\ \A c \in Consumers :
         /\ batch'[c] \subseteq batch[c] /\ left'[c] <= left[c]
         /\ batch'[c] # {} => pc'[c] = pc[c]
         /\ pc'[c] = "idle" => batch'[c] = {}
    /\ \A c \in Consumers, i \in Messages :
         i \in batch'[c] =>
            /\ row'[i].state \in {row[i].state, "processed", "trimmed"}
            /\ row'[i].state = "ready" /\ pc[c] = "working" /\ row[i].locked >= left[c] /\ left'[c] > 0
                   => row'[i].locked >= left'[c]

LEMMA QuietStep ==
    ASSUME TypeOK, TypeOK', Exclusive, LoopOk, ClaimsKept, PickedAlone, Quiet
    PROVE  Exclusive' /\ ClaimsKept' /\ PickedAlone'
<1>1. \A c \in Consumers : left[c] \in Nat /\ left'[c] \in Nat
  BY TimeAssumption DEF TypeOK
<1>2. \A c \in Consumers : batch'[c] \subseteq batch[c] /\ batch[c] \subseteq Messages
  BY DEF Quiet, TypeOK
<1>3. Exclusive'
  BY <1>1, <1>2 DEF Quiet, Exclusive
<1>4. PickedAlone'
  BY <1>1, <1>2 DEF Quiet, PickedAlone
<1>5. ClaimsKept'
  <2> SUFFICES ASSUME NEW c \in Consumers, NEW i \in Messages,
                      pc'[c] = "working", left'[c] > 0, i \in batch'[c], row'[i].state = "ready"
               PROVE  row'[i].locked >= left'[c]
    BY DEF ClaimsKept
  <2>1. i \in batch[c] /\ pc[c] = "working" /\ left[c] > 0
    BY <1>1, <1>2 DEF Quiet
  <2>2. row[i].state = "ready"
    BY <2>1 DEF Quiet, LoopOk
  <2> QED  BY <2>1, <2>2 DEF Quiet, ClaimsKept
<1> QED  BY <1>3, <1>4, <1>5

\* A claim that commits, returned or not, writes rows that nobody else holds
\* by a claim that has not expired.
LEMMA CommitKeepsClaims ==
    ASSUME TypeOK, LoopOk, ClaimsKept, PickedAlone,
           NEW c \in Consumers, pc[c] = "picking", NEW d \in Consumers, d # c,
           NEW i \in batch[d], pc[d] = "working", left[d] > 0, row[i].state = "ready"
    PROVE  Locked(c)[i].state = row[i].state /\ Locked(c)[i].locked >= left[d]
<1>1. i \in Messages
  BY DEF TypeOK
<1>2. i \notin batch[c]
  BY DEF PickedAlone
<1> QED  BY <1>1, <1>2, LockedType DEF ClaimsKept

\* ClaimInv holds in every reachable state.
THEOREM ClaimInvariant == Spec => []ClaimInv
<1>1. Init => ClaimInv
  BY DEF Init, ClaimInv, Exclusive, NotLost, LoopOk, ClaimsKept, PickedAlone, NoRow
<1>2. TypeOK /\ TypeOK' /\ ClaimInv /\ [Next]_vars => ClaimInv'
  <2> SUFFICES ASSUME TypeOK, TypeOK', ClaimInv, [Next]_vars  PROVE ClaimInv'
    OBVIOUS
  <2> USE DEF ClaimInv
  <2>0. \A c \in Consumers : batch[c] \subseteq Messages /\ left[c] \in Nat
    BY TimeAssumption DEF TypeOK
  <2>1. ASSUME NEW i \in Messages, NEW delay \in Delays, Append(i, delay)  PROVE ClaimInv'
    <3>1. row'[i].state = "appending" /\ \A j \in Messages : j # i => row'[j] = row[j]
      BY <2>1 DEF Append, TypeOK
    <3>2. \A c \in Consumers : i \notin batch[c]
      BY <2>1 DEF Append, LoopOk
    <3>3. UNCHANGED <<pc, batch, left, handled, delivered>>
      BY <2>1 DEF Append
    <3>4. Quiet
      BY <2>0, <3>1, <3>2, <3>3 DEF Quiet, LoopOk
    <3>5. LoopOk' /\ NotLost'
      BY <2>0, <3>1, <3>2, <3>3 DEF LoopOk, NotLost
    <3> QED  BY <3>4, <3>5, QuietStep
  <2>2. ASSUME NEW i \in Messages, Commit(i)  PROVE ClaimInv'
    <3>1. /\ row'[i].state \in {"ready", "aborted"}
          /\ \A j \in Messages : j # i => row'[j] = row[j]
      BY <2>2 DEF Commit, TypeOK, Rows
    <3>2. \A c \in Consumers : i \notin batch[c]
      BY <2>2 DEF Commit, LoopOk
    <3>3. UNCHANGED <<pc, batch, left, handled, delivered>>
      BY <2>2 DEF Commit
    <3>4. Quiet
      BY <2>0, <3>1, <3>2, <3>3 DEF Quiet, LoopOk
    <3>5. LoopOk' /\ NotLost'
      BY <2>0, <3>1, <3>2, <3>3 DEF LoopOk, NotLost
    <3> QED  BY <3>4, <3>5, QuietStep
  <2>3. ASSUME NEW c \in Consumers, NEW n \in Limits, Pick(c, n)  PROVE ClaimInv'
    <3> DEFINE picked == First(n, {i \in Messages : Claimable(i) /\ ~RowLocked(i)})
    <3>1. /\ pc[c] = "idle" /\ pc'[c] = "picking" /\ batch'[c] = picked
          /\ \A d \in Consumers : d # c => pc'[d] = pc[d] /\ batch'[d] = batch[d] /\ left'[d] = left[d]
          /\ UNCHANGED <<row, handled, delivered>>
      BY <2>3 DEF Pick, TypeOK
    <3>2. \A i \in picked : /\ i \in Messages /\ row[i].state = "ready" /\ row[i].locked <= 0
                             /\ \A d \in Consumers : pc[d] = "picking" => i \notin batch[d]
      BY PickedClaimable DEF Claimable, RowLocked
    <3>3. \A d \in Consumers : left[d] > 0 => batch[d] \cap picked = {}
      <4> SUFFICES ASSUME NEW d \in Consumers, left[d] > 0, NEW i \in picked, i \in batch[d]
                   PROVE  FALSE
        OBVIOUS
      <4>1. pc[d] = "working"
        BY <3>2 DEF LoopOk, TypeOK
      <4>2. row[i].locked >= left[d] /\ row[i].locked \in Nat \cup {Unlocked}
        BY <3>2, <4>1 DEF ClaimsKept, TypeOK, Rows
      <4> QED  BY <2>0, <3>2, <4>2 DEF Unlocked
    <3> HIDE DEF picked
    <3>4. Exclusive'
      BY <3>1, <3>3 DEF Exclusive
    <3>5. NotLost'
      BY <3>1 DEF NotLost
    <3>6. LoopOk'
      BY <3>1, <3>2 DEF LoopOk
    <3>7. ClaimsKept'
      BY <3>1 DEF ClaimsKept
    <3>8. PickedAlone'
      <4> SUFFICES ASSUME NEW e \in Consumers, NEW d \in Consumers, e # d,
                          pc'[e] = "picking", left'[d] > 0
                   PROVE  batch'[e] \cap batch'[d] = {}
        BY DEF PickedAlone
      <4>1. CASE e = c
        BY <3>1, <3>3, <4>1
      <4>2. CASE d = c
        BY <3>1, <3>2, <4>2
      <4>3. CASE e # c /\ d # c
        BY <3>1, <4>3 DEF PickedAlone
      <4> QED  BY <4>1, <4>2, <4>3
    <3> QED  BY <3>4, <3>5, <3>6, <3>7, <3>8
  <2>4. ASSUME NEW c \in Consumers, Claim(c)  PROVE ClaimInv'
    <3>1. /\ pc[c] = "picking" /\ row' = Locked(c) /\ pc'[c] = "working"
          /\ \A d \in Consumers : d # c => pc'[d] = pc[d]
          /\ UNCHANGED <<batch, left, handled, delivered>>
      BY <2>4 DEF Claim, TypeOK
    <3>2. \A i \in Messages : row'[i].state = row[i].state
      BY <3>1, LockedType
    <3>3. Exclusive'
      BY <3>1 DEF Exclusive
    <3>4. NotLost' /\ LoopOk'
      BY <2>0, <3>1, <3>2 DEF NotLost, LoopOk
    <3>5. PickedAlone'
      BY <3>1 DEF PickedAlone
    <3>6. ClaimsKept'
      <4> SUFFICES ASSUME NEW d \in Consumers, NEW i \in Messages, pc'[d] = "working",
                          left'[d] > 0, i \in batch'[d], row'[i].state = "ready"
                   PROVE  row'[i].locked >= left'[d]
        BY DEF ClaimsKept
      <4>1. CASE d = c
        BY <2>0, <3>1, <4>1, LockedType
      <4>2. CASE d # c
        BY <3>1, <3>2, <4>2, CommitKeepsClaims
      <4> QED  BY <4>1, <4>2
    <3> QED  BY <3>3, <3>4, <3>5, <3>6
  <2>5. ASSUME NEW c \in Consumers, NEW i \in Messages, Deliver(c, i)  PROVE ClaimInv'
    <3>1. /\ i \in batch[c] /\ pc[c] = "working" /\ handled'[c] = i
          /\ delivered' = delivered \cup {i}
          /\ \A d \in Consumers : d # c => handled'[d] = handled[d]
          /\ UNCHANGED <<row, pc, batch, left>>
      BY <2>5 DEF Deliver, TypeOK
    <3>2. Quiet
      BY <2>0, <3>1 DEF Quiet, LoopOk
    <3>3. NotLost' /\ LoopOk'
      BY <3>1 DEF NotLost, LoopOk
    <3> QED  BY <3>2, <3>3, QuietStep
  <2>6. ASSUME NEW c \in Consumers, Ack(c)  PROVE ClaimInv'
    <3> DEFINE i == handled[c]
    <3>1. /\ i \in Messages /\ i \in delivered /\ pc[c] = "working" /\ row' = Acknowledged(i)
          /\ handled'[c] = 0 /\ batch'[c] = batch[c] \ {i}
          /\ pc'[c] = IF batch[c] \ {i} = {} THEN "idle" ELSE "working"
          /\ left'[c] \in {0, left[c]}
          /\ \A d \in Consumers : d # c => /\ pc'[d] = pc[d] /\ batch'[d] = batch[d]
                                          /\ left'[d] = left[d] /\ handled'[d] = handled[d]
          /\ UNCHANGED delivered
      BY <2>6 DEF Ack, TypeOK, LoopOk
    <3>2. \A j \in Messages : j # i => row'[j] = row[j]
      BY <3>1, AcknowledgedType
    <3>3. row'[i].state \in {row[i].state, "processed"} /\ row'[i].state # "ready"
      BY <3>1, AcknowledgedType
    <3> HIDE DEF i
    <3>4. Quiet
      BY <2>0, <3>1, <3>2, <3>3 DEF Quiet, LoopOk
    <3>5. NotLost'
      BY <3>1, <3>2, <3>3 DEF NotLost
    <3>6. LoopOk'
      BY <2>0, <3>1, <3>2, <3>3 DEF LoopOk
    <3> QED  BY <3>4, <3>5, <3>6, QuietStep
  <2>7. ASSUME NEW c \in Consumers, Abandon(c)  PROVE ClaimInv'
    <3>1. /\ pc'[c] = "idle" /\ batch'[c] = {} /\ left'[c] = 0 /\ handled'[c] = 0
          /\ \A d \in Consumers : d # c => /\ pc'[d] = pc[d] /\ batch'[d] = batch[d]
                                          /\ left'[d] = left[d] /\ handled'[d] = handled[d]
          /\ UNCHANGED delivered
      BY <2>7 DEF Abandon, TypeOK
    <3>2. row' = row \/ (pc[c] = "picking" /\ row' = Locked(c))
      BY <2>7 DEF Abandon
    <3>3. \A i \in Messages : row'[i].state = row[i].state
      BY <3>2, LockedType
    <3>4. Exclusive' /\ PickedAlone'
      BY <3>1 DEF Exclusive, PickedAlone
    <3>5. NotLost' /\ LoopOk'
      BY <2>0, <3>1, <3>3 DEF NotLost, LoopOk
    <3>6. ClaimsKept'
      <4> SUFFICES ASSUME NEW d \in Consumers, NEW i \in Messages, pc'[d] = "working",
                          left'[d] > 0, i \in batch'[d], row'[i].state = "ready"
                   PROVE  row'[i].locked >= left'[d]
        BY DEF ClaimsKept
      <4>1. /\ d # c /\ pc[d] = "working" /\ left[d] > 0 /\ i \in batch[d]
            /\ left'[d] = left[d] /\ row[i].state = "ready"
        BY <3>1, <3>3
      <4>2. CASE row' = row
        BY <4>1, <4>2 DEF ClaimsKept
      <4>3. CASE pc[c] = "picking" /\ row' = Locked(c)
        BY <4>1, <4>3, CommitKeepsClaims
      <4> QED  BY <3>2, <4>2, <4>3
    <3> QED  BY <3>4, <3>5, <3>6
  <2>8. ASSUME NEW K \in SUBSET Messages, Trim(K)  PROVE ClaimInv'
    <3>1. UNCHANGED <<pc, batch, left, handled, delivered>>
      BY <2>8 DEF Trim
    <3>2. \A i \in Messages : \/ row'[i] = row[i]
                              \/ row[i].state = "processed" /\ row'[i].state = "trimmed"
      BY <2>8 DEF Trim, Trimmable, NoRow
    <3>3. Quiet
      BY <2>0, <3>1, <3>2 DEF Quiet, LoopOk
    <3>4. NotLost' /\ LoopOk'
      BY <2>0, <3>1, <3>2 DEF NotLost, LoopOk
    <3> QED  BY <3>3, <3>4, QuietStep
  <2>9. ASSUME Tick  PROVE ClaimInv'
    <3>1. /\ \A c \in Consumers : left'[c] = Passed(left[c])
          /\ \A i \in Messages : /\ row'[i].state = row[i].state
                                 /\ row'[i].locked = Passed(row[i].locked)
          /\ UNCHANGED <<pc, batch, handled, delivered>>
      <4>1. \A i \in Messages : row[i] \in Rows
        BY DEF TypeOK
      <4>2. \A i \in Messages :
              row'[i] = [row[i] EXCEPT !.available = Passed(@), !.locked = Passed(@)]
        BY <2>9 DEF Tick
      <4>3. \A i \in Messages : row'[i].state = row[i].state /\ row'[i].locked = Passed(row[i].locked)
        BY <4>1, <4>2 DEF Rows
      <4> QED  BY <2>9, <4>3 DEF Tick
    <3>2. \A i \in Messages : row[i].locked \in Nat \cup {Unlocked}
      BY DEF TypeOK, Rows
    <3>3. Quiet
      <4>1. \A c \in Consumers : left'[c] <= left[c]
        BY <2>0, <3>1, PassedType
      <4>2. \A c \in Consumers, i \in Messages :
              row[i].locked >= left[c] => row'[i].locked >= left'[c]
        <5> TAKE c \in Consumers, i \in Messages
        <5>1. left[c] <= row[i].locked => Passed(left[c]) <= Passed(row[i].locked)
          BY <2>0, <3>2, PassedType
        <5>2. Passed(left[c]) \in Nat /\ Passed(row[i].locked) \in Nat \cup {Unlocked}
          BY <2>0, <3>2, PassedType
        <5> QED  BY <2>0, <3>1, <3>2, <5>1, <5>2 DEF Unlocked
      <4> QED  BY <2>0, <3>1, <4>1, <4>2 DEF Quiet, LoopOk
    <3>4. NotLost' /\ LoopOk'
      BY <2>0, <3>1 DEF NotLost, LoopOk
    <3> QED  BY <3>3, <3>4, QuietStep
  <2>10. ASSUME UNCHANGED vars  PROVE ClaimInv'
    BY <2>10 DEF vars, Exclusive, NotLost, LoopOk, ClaimsKept, PickedAlone
  <2> QED
    BY <2>1, <2>2, <2>3, <2>4, <2>5, <2>6, <2>7, <2>8, <2>9, <2>10 DEF Next, Work
<1> QED  BY <1>1, <1>2, TypeCorrect, PTL DEF Spec

\* No two consumers hold a message by claims that have not expired: FOR UPDATE
\* SKIP LOCKED and locked_until together exclude it (claim).
THEOREM ExclusiveClaims == Spec => []Exclusive
  BY ClaimInvariant, PTL DEF ClaimInv

\* No message is marked processed, or trimmed, that no consumer has delivered,
\* whatever crashes and however late an acknowledgement is (ack, trim).
THEOREM AtLeastOnce == Spec => []NotLost
  BY ClaimInvariant, PTL DEF ClaimInv

\* What has been acknowledged is never claimed again (claim).
THEOREM ProcessedForGood == Spec => NeverAgain
<1>1. TypeOK /\ [Next]_vars =>
        [\A i \in Messages, c \in Consumers :
           row[i].state \in {"processed", "trimmed"} /\ i \notin batch[c] => i \notin batch'[c]]_vars
  <2> SUFFICES ASSUME TypeOK, Next, NEW i \in Messages, NEW c \in Consumers,
                      row[i].state \in {"processed", "trimmed"}, i \notin batch[c]
               PROVE  i \notin batch'[c]
    BY DEF vars
  <2>1. ASSUME NEW d \in Consumers, NEW n \in Limits, Pick(d, n)  PROVE i \notin batch'[c]
    <3> i \notin First(n, {j \in Messages : Claimable(j) /\ ~RowLocked(j)})
      BY PickedClaimable DEF Claimable
    <3> QED  BY <2>1 DEF Pick, TypeOK
  <2>2. ASSUME NEW d \in Consumers, Ack(d) \/ Abandon(d)  PROVE i \notin batch'[c]
    BY <2>2 DEF Ack, Abandon, TypeOK
  <2>3. ASSUME UNCHANGED batch  PROVE i \notin batch'[c]
    BY <2>3
  <2> QED
    BY <2>1, <2>2, <2>3 DEF Next, Work, Append, Commit, Claim, Deliver, Trim, Tick
<1> QED  BY <1>1, TypeCorrect, PTL DEF Spec, NeverAgain
=============================================================================
