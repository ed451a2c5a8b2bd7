--------------------------- MODULE RateLimitProofs ---------------------------
(***************************************************************************)
(* What holds of the rate limiters for any options, callers and bounds:    *)
(* type correctness, the limits of a fixed and of a sliding window, how    *)
(* long a block lasts, and what a token bucket admits.                     *)
(***************************************************************************)
EXTENDS RateLimit, FiniteSetTheorems, TLAPS

-----------------------------------------------------------------------------
(* The inductive invariant.                                                *)

\* No call has read a later instant than there is.
ClocksAgree == \A c \in Callers : call[c].now <= clock

\* A row lasts as long as its window.
RowsLast == \A s \in Times : rows[s] # NoRow => rows[s].expires >= s + Window

\* What is admitted in a fixed window is in its row, but for what reward took
\* off again; so the limit, which hit compares the row with, bounds it.
AdmittedCounted ==
    limiter = "fixed" => \A s \in Times : admitted[s] <= rows[s].count + rewarded[s]

\* The row of a block that is promised refuses, and is there long enough.
BlockHeld ==
    promised > clock => /\ rows[BLOCK_WINDOW_START].count > Limit
                        /\ rows[BLOCK_WINDOW_START].expires >= promised

\* Only a token bucket has a bucket, it admits nothing before it has one, and
\* what a statement finds there stays.
BucketOnly ==
    /\ bucket.seeded => limiter = "bucket"
    /\ limiter = "bucket" /\ ~bucket.seeded => admitted[0] = 0
    /\ limiter = "bucket" => \A c \in Callers : call[c].saw => bucket.seeded

RateInv == /\ TypeOK /\ ClocksAgree /\ RowsLast /\ AdmittedCounted /\ WithinLimit
           /\ BlockHeld /\ BucketOnly /\ Metered

-----------------------------------------------------------------------------
(* The arithmetic.                                                         *)

LEMMA FloorType ==
    ASSUME NEW t \in Nat, NEW unit \in Nat \ {0}
    PROVE  Floor(t, unit) \in Nat /\ Floor(t, unit) <= t
<1>1. t % unit \in Nat /\ t % unit <= t
  OBVIOUS
<1> QED  BY <1>1 DEF Floor

LEMMA GreatestType ==
    ASSUME NEW a \in Int, NEW b \in Int
    PROVE  /\ Greatest(a, b) \in {a, b} /\ Greatest(a, b) >= a /\ Greatest(a, b) >= b
  BY DEF Greatest

\* The window or bucket that a call counts in starts no later than now.
LEMMA StartOf ==
    ASSUME RateInv, NEW c \in Callers, NEW unit \in Nat \ {0}
    PROVE  /\ Floor(call[c].now, unit) \in Times /\ Floor(call[c].now, unit) <= clock
           /\ Floor(call[c].now, unit) # BLOCK_WINDOW_START
<1>1. call[c].now \in Nat /\ call[c].now <= clock /\ clock \in Nat /\ clock <= MaxTime
  BY OptionAssumption DEF RateInv, TypeOK, ClocksAgree, Calls, Times
<1> QED  BY <1>1, FloorType, OptionAssumption DEF Times, BLOCK_WINDOW_START

-----------------------------------------------------------------------------
(* Steps.                                                                  *)

LEMMA NoCallType == NoCall \in Calls
  BY OptionAssumption DEF NoCall, Calls, Ops, Times

\* A step that changes the record of a call, and nothing that is counted.
LEMMA CallStep ==
    ASSUME RateInv, NEW c \in Callers, NEW w \in Calls, call' = [call EXCEPT ![c] = w],
           w.now <= clock, limiter = "bucket" /\ w.saw => bucket.seeded, tried' \in [Times -> Nat], calls' \in 0..MaxCalls,
           UNCHANGED <<limiter, clock, rows, bucket, admitted, rewarded, promised, rewound>>
    PROVE  RateInv'
<1>1. /\ call' \in [Callers -> Calls] /\ \A d \in Callers : call'[d].now <= clock
      /\ limiter = "bucket" => \A d \in Callers : call'[d].saw => bucket.seeded
  BY DEF RateInv, TypeOK, ClocksAgree, BucketOnly
<1>2. TypeOK'
  BY <1>1 DEF RateInv, TypeOK
<1> QED
  BY <1>1, <1>2 DEF RateInv, ClocksAgree, RowsLast, AdmittedCounted, WithinLimit, BlockHeld, BucketOnly,
     Metered, Blocked, Active

LEMMA StartStep ==
    ASSUME RateInv, NEW c \in Callers, Call(c)
    PROVE  RateInv'
<1>1. PICK cost \in Costs, op \in {"hit", "reward", "consume"} : Start(c, op, cost)
  BY DEF Call
<1> DEFINE w == [NoCall EXCEPT !.op = op, !.now = clock, !.cost = cost, !.step = "first"]
<1>2. w \in Calls /\ w.now = clock /\ ~w.saw
  <2>1. cost \in Nat /\ clock \in Times
    BY OptionAssumption DEF RateInv, TypeOK
  <2> QED  BY <2>1, NoCallType DEF Calls, Ops, NoCall
<1>3. call' = [call EXCEPT ![c] = w] /\ calls' = calls + 1 /\ calls < MaxCalls
  BY <1>1 DEF Start
<1>4. tried' \in [Times -> Nat]
  <2>1. tried[clock] + cost \in Nat /\ clock \in Times
    BY OptionAssumption DEF RateInv, TypeOK
  <2> QED  BY <1>1, <2>1 DEF Start, RateInv, TypeOK
<1>5. calls' \in 0..MaxCalls /\ clock <= clock
  <2>1. calls \in 0..MaxCalls /\ clock \in Nat /\ MaxCalls \in Nat
    BY OptionAssumption DEF RateInv, TypeOK, Times
  <2> QED  BY <1>3, <2>1
<1>6. UNCHANGED <<limiter, clock, rows, bucket, admitted, rewarded, promised, rewound>>
  BY <1>1 DEF Start
<1> HIDE DEF w
<1> QED  BY <1>2, <1>3, <1>4, <1>5, <1>6, CallStep

\* The steps of a call that only read.
LEMMA ReadStep ==
    ASSUME RateInv, NEW c \in Callers, CheckBlock(c) \/ StartSliding(c) \/ StartConsume(c)
    PROVE  RateInv'
<1>1. call[c] \in Calls /\ call[c].now <= clock /\ UNCHANGED <<limiter, clock, calls, rows, bucket, ghosts>>
  BY DEF RateInv, TypeOK, ClocksAgree, CheckBlock, StartSliding, StartConsume
<1>2. NoCall.now <= clock
  BY OptionAssumption DEF NoCall, RateInv, TypeOK, Times
<1>3. \E w \in Calls : /\ call' = [call EXCEPT ![c] = w] /\ w.now <= clock
                       /\ limiter = "bucket" /\ w.saw => bucket.seeded
  <2>1. CASE CheckBlock(c)
    <3> DEFINE w == [call[c] EXCEPT !.step = "second"]
    <3>1. w \in Calls /\ w.now <= clock
      BY <1>1 DEF Calls
    <3>2. call' = [call EXCEPT ![c] = NoCall] \/ call' = [call EXCEPT ![c] = w]
      BY <2>1 DEF CheckBlock, Return
    <3>3. limiter = "fixed"
      BY <2>1 DEF CheckBlock, At
    <3> HIDE DEF w
    <3> QED  BY <1>2, <3>1, <3>2, <3>3, NoCallType
  <2>2. CASE StartSliding(c)
    <3> DEFINE saw == Allowed(Total([s \in Times |-> rows[s].count], Since(call[c].now)))
               w == [call[c] EXCEPT !.step = "second", !.saw = saw]
    <3>1. saw \in BOOLEAN
      BY DEF Allowed
    <3>2. call' = [call EXCEPT ![c] = w]
      BY <2>2 DEF StartSliding
    <3> HIDE DEF saw
    <3>3. w \in Calls /\ w.now <= clock
      BY <1>1, <3>1 DEF Calls
    <3>4. limiter = "sliding"
      BY <2>2 DEF StartSliding, At
    <3> HIDE DEF w
    <3> QED  BY <3>2, <3>3, <3>4
  <2>3. CASE StartConsume(c)
    <3> DEFINE w == [call[c] EXCEPT !.step = "second", !.saw = bucket.seeded]
    <3>1. bucket.seeded \in BOOLEAN
      BY DEF RateInv, TypeOK
    <3>2. w \in Calls /\ w.now <= clock /\ w.saw = bucket.seeded
      BY <1>1, <3>1 DEF Calls
    <3>3. call' = [call EXCEPT ![c] = w]
      BY <2>3 DEF StartConsume
    <3> HIDE DEF w
    <3> QED  BY <3>2, <3>3
  <2> QED  BY <2>1, <2>2, <2>3
<1>4. tried' \in [Times -> Nat] /\ calls' \in 0..MaxCalls
  BY <1>1 DEF RateInv, TypeOK, ghosts
<1> QED  BY <1>1, <1>3, <1>4, CallStep DEF ghosts

\* What becomes of the calls when one returns.
LEMMA Returned ==
    ASSUME RateInv, NEW c \in Callers, Return(c) \/ call' = call
    PROVE  /\ call' \in [Callers -> Calls]
           /\ \A d \in Callers : call'[d].now <= clock /\ (call'[d].saw => call[d].saw)
<1>1. NoCall.now <= clock /\ ~NoCall.saw
  BY OptionAssumption DEF NoCall, RateInv, TypeOK, Times
<1> QED  BY <1>1, NoCallType DEF RateInv, TypeOK, ClocksAgree, Return

\* A row in which a call has counted its cost.
LEMMA CountedRows ==
    ASSUME RateInv, NEW s \in Times, s <= clock, NEW cost \in Nat
    PROVE  /\ Counted(s, cost) \in [Starts -> Rows]
           /\ Counted(s, cost)[s].count = rows[s].count + cost
           /\ Counted(s, cost)[s].expires >= s + Window
           /\ \A t \in Starts \ {s} : Counted(s, cost)[t] = rows[t]
<1> DEFINE until == Greatest(rows[s].expires, clock + Window)
<1>1. s \in Starts /\ rows[s].count \in Nat /\ rows[s].expires \in Nat /\ clock \in Nat /\ Window \in Nat
  <2>1. s \in Starts /\ clock \in Nat /\ Window \in Nat
    BY OptionAssumption DEF RateInv, TypeOK, Times, Starts
  <2>2. rows[s] \in Rows
    BY <2>1 DEF RateInv, TypeOK
  <2> QED  BY <2>1, <2>2 DEF Rows
<1>2. until \in Nat /\ until >= clock + Window
  BY <1>1, GreatestType
<1>3. s + Window <= until
  BY <1>1, <1>2 DEF Times
<1>4. Counted(s, cost) = [rows EXCEPT ![s] = [count |-> rows[s].count + cost, expires |-> until]]
  BY <1>1 DEF Counted, RateInv, TypeOK
<1> HIDE DEF until
<1>5. [count |-> rows[s].count + cost, expires |-> until] \in Rows
  BY <1>1, <1>2 DEF Rows
<1> QED  BY <1>1, <1>3, <1>4, <1>5 DEF RateInv, TypeOK

\* hit of the fixed window: the row it compares with the limit counts all
\* that is admitted and not rewarded.
LEMMA HitFixedStep ==
    ASSUME RateInv, NEW c \in Callers, HitFixed(c)
    PROVE  RateInv'
<1> DEFINE s == Floor(call[c].now, Window)
           cost == call[c].cost
<1>1. /\ limiter = "fixed" /\ rows' = Counted(s, cost)
      /\ admitted' = IF Counted(s, cost)[s].count <= Limit THEN [admitted EXCEPT ![s] = @ + cost] ELSE admitted
      /\ UNCHANGED <<limiter, clock, calls, bucket, tried, rewarded, promised, rewound>>
  BY DEF HitFixed, At, Allowed
<1>2. s \in Times /\ s <= clock /\ s # BLOCK_WINDOW_START /\ cost \in Nat
  BY StartOf, OptionAssumption DEF RateInv, TypeOK, Calls
<1> HIDE DEF s, cost
<1>3. /\ rows' \in [Starts -> Rows] /\ rows'[s].count = rows[s].count + cost
      /\ rows'[s].expires >= s + Window
      /\ \A t \in Starts \ {s} : rows'[t] = rows[t]
  BY <1>1, <1>2, CountedRows
<1>4. call' \in [Callers -> Calls] /\ \A d \in Callers : call'[d].now <= clock
  BY Returned DEF HitFixed
<1>5. /\ admitted' \in [Starts -> Nat]
      /\ \A t \in Starts \ {s} : admitted'[t] = admitted[t]
      /\ admitted'[s] = IF rows'[s].count <= Limit THEN admitted[s] + cost ELSE admitted[s]
  BY <1>1, <1>2 DEF RateInv, TypeOK, Starts
<1>6. TypeOK'
  BY <1>1, <1>3, <1>4, <1>5 DEF RateInv, TypeOK
<1>7. \A t \in Times : /\ admitted'[t] <= rows'[t].count + rewarded[t]
                       /\ admitted'[t] <= Limit + rewarded[t]
  <2> TAKE t \in Times
  <2>1. t \in Starts /\ rows[t].count \in Nat /\ admitted[t] \in Nat /\ rewarded[t] \in Nat /\ Limit \in Nat
    BY OptionAssumption DEF RateInv, TypeOK, Rows, Starts
  <2>2. admitted[t] <= rows[t].count + rewarded[t] /\ admitted[t] <= Limit + rewarded[t]
    BY <1>1 DEF RateInv, AdmittedCounted, WithinLimit
  <2>3. CASE t = s
    BY <1>2, <1>3, <1>5, <2>1, <2>2, <2>3
  <2>4. CASE t # s
    BY <1>3, <1>5, <2>1, <2>2, <2>4
  <2> QED  BY <2>3, <2>4
<1>8. RowsLast'
  BY <1>2, <1>3 DEF RateInv, RowsLast, Starts
<1>9. BlockHeld'
  BY <1>1, <1>2, <1>3 DEF RateInv, BlockHeld, Starts
<1>10. BucketOnly' /\ Metered'
  BY <1>1 DEF RateInv, BucketOnly, Metered
<1> QED
  BY <1>1, <1>4, <1>6, <1>7, <1>8, <1>9, <1>10 DEF RateInv, ClocksAgree, AdmittedCounted, WithinLimit

\* hit of the sliding window.
LEMMA HitSlidingStep ==
    ASSUME RateInv, NEW c \in Callers, HitSliding(c)
    PROVE  RateInv'
<1> DEFINE s == Floor(call[c].now, Precision)
           cost == call[c].cost
<1>1. /\ limiter = "sliding" /\ rows' = Counted(s, cost)
      /\ admitted' \in {[admitted EXCEPT ![s] = @ + cost], admitted}
      /\ UNCHANGED <<limiter, clock, calls, bucket, tried, rewarded, promised, rewound>>
  BY DEF HitSliding, At
<1>2. s \in Times /\ s <= clock /\ s # BLOCK_WINDOW_START /\ cost \in Nat
  BY StartOf, OptionAssumption DEF RateInv, TypeOK, Calls
<1> HIDE DEF s, cost
<1>3. /\ rows' \in [Starts -> Rows] /\ rows'[s].expires >= s + Window
      /\ \A t \in Starts \ {s} : rows'[t] = rows[t]
  BY <1>1, <1>2, CountedRows
<1>4. call' \in [Callers -> Calls] /\ \A d \in Callers : call'[d].now <= clock
  BY Returned DEF HitSliding
<1>5. admitted' \in [Starts -> Nat]
  <2>1. s \in Starts /\ admitted[s] + cost \in Nat
    BY <1>2 DEF RateInv, TypeOK, Starts
  <2> QED  BY <1>1, <2>1 DEF RateInv, TypeOK
<1>6. TypeOK'
  BY <1>1, <1>3, <1>4, <1>5 DEF RateInv, TypeOK
<1>7. RowsLast' /\ BlockHeld'
  BY <1>1, <1>2, <1>3 DEF RateInv, RowsLast, BlockHeld, Starts
<1>8. BucketOnly' /\ Metered' /\ AdmittedCounted' /\ WithinLimit'
  BY <1>1 DEF RateInv, BucketOnly, Metered, AdmittedCounted, WithinLimit
<1> QED
  BY <1>1, <1>4, <1>6, <1>7, <1>8 DEF RateInv, ClocksAgree

\* decrementWindow of a row that is there.
LEMMA DecrementedRows ==
    ASSUME RateInv, NEW s \in Starts, NEW cost \in Nat, Active(s)
    PROVE  /\ Decremented(s, cost) \in [Starts -> Rows]
           /\ Decremented(s, cost)[s].count + cost >= rows[s].count
           /\ Decremented(s, cost)[s].expires = rows[s].expires
           /\ rows[s] # NoRow
           /\ \A t \in Starts \ {s} : Decremented(s, cost)[t] = rows[t]
<1> DEFINE count == Greatest(rows[s].count - cost, 0)
<1>1. rows[s] \in Rows /\ clock \in Nat
  BY OptionAssumption DEF RateInv, TypeOK, Times
<1>2. rows[s].count \in Nat /\ rows[s].expires \in Nat
  BY <1>1 DEF Rows
<1>3. count \in Nat /\ count + cost >= rows[s].count
  BY <1>2 DEF Greatest
<1>4. Decremented(s, cost) = [rows EXCEPT ![s] = [rows[s] EXCEPT !.count = count]]
  BY DEF Decremented, RateInv, TypeOK
<1> HIDE DEF count
<1>5. /\ [rows[s] EXCEPT !.count = count] \in Rows
      /\ [rows[s] EXCEPT !.count = count].count = count
      /\ [rows[s] EXCEPT !.count = count].expires = rows[s].expires
  BY <1>1, <1>3 DEF Rows
<1>6. rows[s] # NoRow
  BY <1>1, <1>2 DEF Active, NoRow
<1> QED  BY <1>3, <1>4, <1>5, <1>6 DEF RateInv, TypeOK

LEMMA RewardBlockStep ==
    ASSUME RateInv, NEW c \in Callers, RewardBlock(c)
    PROVE  RateInv'
<1> DEFINE s == BLOCK_WINDOW_START
<1>1. CASE Active(s)
  <2>1. /\ limiter = "fixed" /\ rows' = Decremented(s, call[c].cost)
        /\ promised' = IF rows'[s].count > Limit THEN promised ELSE 0
        /\ UNCHANGED <<limiter, clock, calls, bucket, tried, admitted, rewarded, rewound>>
    BY <1>1 DEF RewardBlock, At
  <2>2. s \in Starts /\ s \notin Times /\ call[c].cost \in Nat
    BY OptionAssumption DEF Starts, Times, BLOCK_WINDOW_START, RateInv, TypeOK, Calls
  <2>3. /\ rows' \in [Starts -> Rows] /\ rows'[s].expires = rows[s].expires
        /\ \A t \in Times : rows'[t] = rows[t]
    BY <1>1, <2>1, <2>2, DecrementedRows DEF Starts
  <2>4. call' \in [Callers -> Calls] /\ \A d \in Callers : call'[d].now <= clock
    BY <1>1, Returned DEF RewardBlock
  <2>5. promised' \in Nat
    BY <2>1 DEF RateInv, TypeOK
  <2>6. TypeOK'
    BY <2>1, <2>3, <2>4, <2>5 DEF RateInv, TypeOK
  <2>7. BlockHeld'
    <3>1. clock \in Nat
      BY OptionAssumption DEF RateInv, TypeOK, Times
    <3> QED  BY <2>1, <2>3, <3>1 DEF RateInv, BlockHeld
  <2>8. RowsLast' /\ AdmittedCounted' /\ WithinLimit' /\ BucketOnly' /\ Metered'
    BY <2>1, <2>3 DEF RateInv, RowsLast, AdmittedCounted, WithinLimit, BucketOnly, Metered
  <2> QED  BY <2>1, <2>4, <2>6, <2>7, <2>8 DEF RateInv, ClocksAgree
<1>2. CASE ~Active(s)
  <2> DEFINE w == [call[c] EXCEPT !.step = "second"]
  <2>1. call[c] \in Calls /\ call[c].now <= clock
    BY DEF RateInv, TypeOK, ClocksAgree
  <2>2. w \in Calls /\ w.now <= clock
    BY <2>1 DEF Calls
  <2>3. /\ limiter = "fixed" /\ call' = [call EXCEPT ![c] = w]
        /\ UNCHANGED <<limiter, clock, rows, bucket, admitted, rewarded, promised, rewound, tried, calls>>
    BY <1>2 DEF RewardBlock, At
  <2>4. tried' \in [Times -> Nat] /\ calls' \in 0..MaxCalls
    BY <2>3 DEF RateInv, TypeOK
  <2> HIDE DEF w
  <2> QED  BY <2>2, <2>3, <2>4, CallStep
<1> QED  BY <1>1, <1>2

LEMMA RewardWindowStep ==
    ASSUME RateInv, NEW c \in Callers, RewardWindow(c)
    PROVE  RateInv'
<1> DEFINE s == Floor(call[c].now, Window)
           cost == call[c].cost
<1>1. limiter = "fixed" /\ UNCHANGED <<limiter, clock, calls, bucket, tried, admitted, promised, rewound>>
  BY DEF RewardWindow, At
<1>2. s \in Times /\ s \in Starts /\ s # BLOCK_WINDOW_START /\ cost \in Nat
  BY StartOf, OptionAssumption DEF RateInv, TypeOK, Calls, Starts
<1>3. call' \in [Callers -> Calls] /\ \A d \in Callers : call'[d].now <= clock
  BY Returned DEF RewardWindow
<1>4. CASE Active(s)
  <2>1. rows' = Decremented(s, cost) /\ rewarded' = [rewarded EXCEPT ![s] = @ + cost]
    BY <1>4 DEF RewardWindow
  <2> HIDE DEF s, cost
  <2>2. /\ rows' \in [Starts -> Rows] /\ rows'[s].expires = rows[s].expires
        /\ rows'[s].count + cost >= rows[s].count /\ rows[s] # NoRow
        /\ \A t \in Starts \ {s} : rows'[t] = rows[t]
    BY <1>2, <1>4, <2>1, DecrementedRows
  <2>3. /\ rewarded' \in [Starts -> Nat] /\ rewarded'[s] = rewarded[s] + cost
        /\ \A t \in Starts \ {s} : rewarded'[t] = rewarded[t]
    BY <1>2, <2>1 DEF RateInv, TypeOK
  <2>4. TypeOK'
    BY <1>1, <1>3, <2>2, <2>3 DEF RateInv, TypeOK
  <2>5. RowsLast'
    BY <1>1, <1>2, <2>2 DEF RateInv, RowsLast, Starts
  <2>6. BlockHeld'
    BY <1>1, <1>2, <2>2 DEF RateInv, BlockHeld, Starts
  <2>7. limiter = "fixed" => \A t \in Times : /\ admitted[t] <= rows'[t].count + rewarded'[t]
                                              /\ admitted[t] <= Limit + rewarded'[t]
    <3> SUFFICES ASSUME limiter = "fixed", NEW t \in Times
                 PROVE  admitted[t] <= rows'[t].count + rewarded'[t] /\ admitted[t] <= Limit + rewarded'[t]
      OBVIOUS
    <3>1. t \in Starts /\ rows[t] \in Rows /\ rows'[t] \in Rows
      BY <2>2 DEF RateInv, TypeOK, Starts
    <3>2. /\ rows[t].count \in Nat /\ rows'[t].count \in Nat /\ admitted[t] \in Nat
          /\ rewarded[t] \in Nat /\ Limit \in Nat
      BY <3>1, OptionAssumption DEF Rows, RateInv, TypeOK
    <3>3. admitted[t] <= rows[t].count + rewarded[t] /\ admitted[t] <= Limit + rewarded[t]
      BY DEF RateInv, AdmittedCounted, WithinLimit
    <3>4. CASE t = s
      BY <1>2, <2>2, <2>3, <3>2, <3>3, <3>4
    <3>5. CASE t # s
      BY <2>2, <2>3, <3>1, <3>3, <3>5
    <3> QED  BY <3>4, <3>5
  <2>8. AdmittedCounted' /\ WithinLimit' /\ BucketOnly' /\ Metered'
    BY <1>1, <2>7 DEF RateInv, AdmittedCounted, WithinLimit, BucketOnly, Metered
  <2> QED  BY <1>1, <1>3, <2>4, <2>5, <2>6, <2>8 DEF RateInv, ClocksAgree
<1>5. CASE ~Active(s)
  <2>1. UNCHANGED <<rows, rewarded>>
    BY <1>5 DEF RewardWindow
  <2>2. TypeOK'
    BY <1>1, <1>3, <2>1 DEF RateInv, TypeOK
  <2> QED
    BY <1>1, <1>3, <2>1, <2>2 DEF RateInv, ClocksAgree, RowsLast, AdmittedCounted, WithinLimit, BlockHeld,
       BucketOnly, Metered
<1> QED  BY <1>4, <1>5

\* block: the row lasts at least as long as this call asks for, and no less
\* than before.
LEMMA BlockStep ==
    ASSUME RateInv, NEW b \in Blocks, Block(b)
    PROVE  RateInv'
<1> DEFINE s == BLOCK_WINDOW_START
           count == Greatest(rows[s].count, b.count)
           until == Greatest(rows[s].expires, clock + b.blockMs)
<1>1. /\ s \in Starts /\ s \notin Times /\ b.count \in Nat /\ b.blockMs \in Nat /\ clock \in Nat
      /\ Limit \in Nat /\ promised \in Nat
  BY OptionAssumption DEF Starts, Times, BLOCK_WINDOW_START, RateInv, TypeOK
<1>2. rows[s] \in Rows
  BY <1>1 DEF RateInv, TypeOK
<1>3. rows[s].count \in Nat /\ rows[s].expires \in Nat
  BY <1>2 DEF Rows
<1>4. /\ count \in Nat /\ count >= rows[s].count /\ count >= b.count
      /\ until \in Nat /\ until >= rows[s].expires /\ until >= clock + b.blockMs
  BY <1>1, <1>3 DEF Greatest
<1>5. /\ rows' = [rows EXCEPT ![s] = [count |-> count, expires |-> until]]
      /\ calls < MaxCalls /\ calls' = calls + 1
      /\ promised' = IF b.count > Limit THEN Greatest(promised, clock + b.blockMs) ELSE promised
      /\ UNCHANGED <<limiter, clock, call, bucket, tried, admitted, rewarded, rewound>>
  BY <1>1 DEF Block, BlockedUntil, RateInv, TypeOK
<1> HIDE DEF s, count, until
<1>6. /\ rows' \in [Starts -> Rows]
      /\ rows'[s].count = count /\ rows'[s].expires = until
      /\ \A t \in Times : rows'[t] = rows[t]
  <2>1. [count |-> count, expires |-> until] \in Rows
    BY <1>4 DEF Rows
  <2> QED  BY <1>1, <1>5, <2>1 DEF RateInv, TypeOK, Starts
<1>7. promised' \in Nat /\ calls' \in 0..MaxCalls
  <2>1. promised' \in Nat
    BY <1>1, <1>5 DEF Greatest
  <2>2. calls' \in 0..MaxCalls
    BY <1>5, OptionAssumption DEF RateInv, TypeOK
  <2> QED  BY <2>1, <2>2
<1>8. TypeOK'
  BY <1>5, <1>6, <1>7 DEF RateInv, TypeOK
<1>9. BlockHeld'
  <2>1. promised > clock => rows[s].count > Limit /\ rows[s].expires >= promised
    BY DEF RateInv, BlockHeld, s
  <2>2. promised' > clock => count > Limit /\ until >= promised'
    BY <1>1, <1>3, <1>4, <1>5, <2>1 DEF Greatest
  <2> QED  BY <1>5, <1>6, <2>2 DEF BlockHeld, s
<1> QED
  BY <1>5, <1>6, <1>8, <1>9 DEF RateInv, ClocksAgree, RowsLast, AdmittedCounted, WithinLimit, BucketOnly,
     Metered

LEMMA DeleteStep ==
    ASSUME RateInv, Delete
    PROVE  RateInv'
<1>1. /\ limiter = "fixed" /\ calls < MaxCalls /\ calls' = calls + 1 /\ promised' = 0
      /\ UNCHANGED <<limiter, clock, call, bucket, tried, rewound>>
  BY DEF Delete
<1>2. /\ rows' = [s \in Starts |-> NoRow]
      /\ admitted' = [s \in Starts |-> 0] /\ rewarded' = [s \in Starts |-> 0]
  BY DEF Delete, Without
<1>3. NoRow \in Rows /\ NoRow.count = 0
  BY DEF NoRow, Rows
<1>4. calls' \in 0..MaxCalls
  BY <1>1, OptionAssumption DEF RateInv, TypeOK
<1>5. TypeOK'
  <2>1. admitted' \in [Starts -> Nat] /\ rewarded' \in [Starts -> Nat] /\ promised' \in Nat
    BY <1>1, <1>2
  <2> QED  BY <1>1, <1>2, <1>3, <1>4, <2>1 DEF RateInv, TypeOK
<1>6. BlockHeld'
  BY <1>1, OptionAssumption DEF BlockHeld, RateInv, TypeOK, Times
<1>7. AdmittedCounted' /\ WithinLimit'
  BY <1>2, <1>3, OptionAssumption DEF AdmittedCounted, WithinLimit, Starts
<1> QED
  BY <1>1, <1>2, <1>5, <1>6, <1>7 DEF RateInv, ClocksAgree, RowsLast, BucketOnly, Metered, Starts

\* cleanupExpired: a window whose row is swept is over, and a block whose row
\* is swept has passed.
LEMMA CleanupStep ==
    ASSUME RateInv, NEW K \in SUBSET Starts, CleanupExpired(K)
    PROVE  RateInv'
<1>1. /\ limiter # "bucket" /\ \A s \in K : rows[s].expires <= clock /\ rows[s] # NoRow
      /\ UNCHANGED <<limiter, clock, calls, call, bucket, tried, promised, rewound>>
  BY DEF CleanupExpired, Swept
<1>2. /\ rows' = [s \in Starts |-> IF s \in K THEN NoRow ELSE rows[s]]
      /\ admitted' = [s \in Starts |-> IF s \in K \cap Over THEN 0 ELSE admitted[s]]
      /\ rewarded' = [s \in Starts |-> IF s \in K \cap Over THEN 0 ELSE rewarded[s]]
  BY DEF CleanupExpired, Without
<1>3. NoRow \in Rows /\ NoRow.count = 0
  BY DEF NoRow, Rows
<1>4. TypeOK'
  <2>1. admitted' \in [Starts -> Nat] /\ rewarded' \in [Starts -> Nat]
    BY <1>2 DEF RateInv, TypeOK
  <2>2. rows' \in [Starts -> Rows]
    BY <1>2, <1>3 DEF RateInv, TypeOK
  <2> QED  BY <1>1, <2>1, <2>2 DEF RateInv, TypeOK
<1>5. \A s \in Times : s \in K => s \in Over
  <2> SUFFICES ASSUME NEW s \in Times, s \in K  PROVE s + Window <= clock
    BY DEF Over
  <2>1. s \in Starts /\ rows[s] \in Rows
    BY DEF Starts, RateInv, TypeOK
  <2>2. rows[s].expires \in Nat /\ s \in Nat /\ clock \in Nat /\ Window \in Nat
    BY <2>1, OptionAssumption DEF Rows, RateInv, TypeOK, Times
  <2>3. rows[s].expires >= s + Window /\ rows[s].expires <= clock
    BY <1>1 DEF RateInv, RowsLast
  <2> QED  BY <2>2, <2>3
<1>6. AdmittedCounted' /\ WithinLimit'
  <2> SUFFICES ASSUME limiter = "fixed", NEW s \in Times
               PROVE  admitted'[s] <= rows'[s].count + rewarded'[s] /\ admitted'[s] <= Limit + rewarded'[s]
    BY <1>1 DEF AdmittedCounted, WithinLimit
  <2>1. CASE s \in K
    BY <1>2, <1>3, <1>5, <2>1, OptionAssumption DEF Starts
  <2>2. CASE s \notin K
    BY <1>2, <2>2 DEF RateInv, AdmittedCounted, WithinLimit, Starts
  <2> QED  BY <2>1, <2>2
<1>7. BlockHeld'
  <2> SUFFICES ASSUME promised > clock  PROVE BLOCK_WINDOW_START \notin K
    BY <1>1, <1>2 DEF RateInv, BlockHeld, Starts
  <2>1. rows[BLOCK_WINDOW_START] \in Rows
    BY DEF RateInv, TypeOK, Starts
  <2>2. rows[BLOCK_WINDOW_START].expires \in Nat /\ promised \in Nat /\ clock \in Nat
    BY <2>1, OptionAssumption DEF Rows, RateInv, TypeOK, Times
  <2>3. rows[BLOCK_WINDOW_START].expires >= promised
    BY DEF RateInv, BlockHeld
  <2> QED  BY <1>1, <2>2, <2>3
<1>8. BucketOnly' /\ Metered'
  BY <1>1 DEF RateInv, BucketOnly, Metered
<1> QED
  BY <1>1, <1>2, <1>4, <1>6, <1>7, <1>8 DEF RateInv, ClocksAgree, RowsLast, Starts

\* What the time since the last statement refills, and by how much a late one
\* turns last_refill_ms back, make up the instant.
LEMMA Refilled ==
    ASSUME NEW tokens \in Nat, NEW last \in Nat, NEW now \in Nat, NEW back \in Nat,
           NEW spent \in Nat, spent + tokens <= Limit + Refill * (last + back)
    PROVE  /\ Greatest(0, now - last) * Refill \in Nat
           /\ spent + tokens + Greatest(0, now - last) * Refill
                  <= Limit + Refill * (now + (back + Greatest(0, last - now)))
<1> DEFINE later == Greatest(0, now - last)
           earlier == Greatest(0, last - now)
<1>1. later \in Nat /\ earlier \in Nat /\ last + back + later = now + (back + earlier)
  BY DEF Greatest
<1> HIDE DEF later, earlier
<1>2. later * Refill = Refill * later /\ Refill * later \in Nat
  BY <1>1, OptionAssumption
<1>3. Refill * (last + back + later) = Refill * (last + back) + Refill * later
  BY <1>1, OptionAssumption
<1>4. Refill * (last + back) \in Nat /\ Limit \in Nat
  BY OptionAssumption
<1> DEFINE gained == Refill * later
           before == Refill * (last + back)
<1>5. gained \in Nat /\ before \in Nat /\ spent + tokens <= Limit + before
  BY <1>2, <1>4
<1>6. Refill * (now + (back + earlier)) = before + gained
  BY <1>1, <1>3
<1> HIDE DEF gained, before
<1>7. spent + tokens + gained <= Limit + (before + gained)
  BY <1>4, <1>5
<1> QED  BY <1>2, <1>6, <1>7 DEF gained, later, earlier

LEMMA ConsumeStep ==
    ASSUME RateInv, NEW c \in Callers, Consume(c)
    PROVE  RateInv'
<1> DEFINE now == call[c].now
           refilled == Greatest(0, now - bucket.last) * Refill
           available == Available(now)
           taken == IF available >= call[c].cost THEN call[c].cost ELSE 0
           back == Greatest(0, bucket.last - now)
<1>1. /\ limiter = "bucket"
      /\ UNCHANGED <<limiter, clock, calls, rows, tried, rewarded, promised>>
      /\ call' \in [Callers -> Calls]
      /\ \A d \in Callers : call'[d].now <= clock /\ (call'[d].saw => call[d].saw)
  BY Returned DEF Consume, At
<1>2. now \in Times /\ now \in Nat /\ call[c].cost \in Nat
  BY OptionAssumption DEF RateInv, TypeOK, Calls, Times
<1>3. /\ bucket.seeded \in BOOLEAN /\ bucket.tokens \in Nat /\ bucket.tokens <= Limit /\ Limit \in Nat
      /\ bucket.last \in Times /\ bucket.last \in Nat
      /\ admitted[0] \in Nat /\ rewound \in Nat
  <2>1. bucket.seeded \in BOOLEAN /\ bucket.tokens \in 0..Limit /\ bucket.last \in Times /\ Limit \in Nat
    BY OptionAssumption DEF RateInv, TypeOK
  <2>2. 0 \in Starts
    BY OptionAssumption DEF Starts, Times
  <2>3. admitted[0] \in Nat /\ rewound \in Nat
    BY <2>2 DEF RateInv, TypeOK
  <2> QED  BY <2>1, <2>3 DEF Times
<1>4. 0 \in Starts
  BY OptionAssumption DEF Starts, Times
<1>5. CASE bucket' = bucket /\ UNCHANGED <<admitted, rewound>>
  <2>1. TypeOK'
    BY <1>1, <1>5 DEF RateInv, TypeOK
  <2> QED
    BY <1>1, <1>5, <2>1 DEF RateInv, ClocksAgree, RowsLast, AdmittedCounted, WithinLimit, BlockHeld,
       BucketOnly, Metered
<1>6. CASE /\ ~bucket.seeded /\ bucket' = [seeded |-> TRUE, tokens |-> Limit, last |-> now]
           /\ UNCHANGED <<admitted, rewound>>
  <2>1. bucket' \in [seeded : BOOLEAN, tokens : 0..Limit, last : Times]
    BY <1>2, <1>3, <1>6
  <2>2. TypeOK'
    BY <1>1, <1>6, <2>1 DEF RateInv, TypeOK
  <2>3. admitted[0] = 0 /\ bucket'.tokens = Limit /\ bucket'.last = now
    BY <1>1, <1>6 DEF RateInv, BucketOnly
  <2>4. Refill * (now + rewound) \in Nat
    BY <1>2, <1>3, OptionAssumption
  <2>5. Metered'
    BY <1>3, <1>6, <2>3, <2>4 DEF Metered
  <2>6. BucketOnly'
    BY <1>1, <2>1, <1>6 DEF BucketOnly
  <2> QED
    BY <1>1, <1>6, <2>2, <2>5, <2>6 DEF RateInv, ClocksAgree, RowsLast, AdmittedCounted, WithinLimit, BlockHeld
<1>7. CASE /\ bucket.seeded /\ bucket' = [bucket EXCEPT !.tokens = available - taken, !.last = now]
           /\ admitted' = [admitted EXCEPT ![0] = @ + taken] /\ rewound' = rewound + back
  <2>1. admitted[0] + bucket.tokens <= Limit + Refill * (bucket.last + rewound)
    BY <1>7 DEF RateInv, Metered
  <2>2. refilled \in Nat
    BY <1>2, <1>3, <2>1, Refilled
  <2>3. admitted[0] + bucket.tokens + refilled <= Limit + Refill * (now + (rewound + back))
    BY <1>2, <1>3, <2>1, Refilled
  <2>4. back \in Nat
    BY <1>2, <1>3 DEF Greatest
  <2>5. available = Least(Limit, bucket.tokens + refilled)
    BY DEF Available
  <2> HIDE DEF available, refilled, back, now
  <2>6. available \in Nat /\ available <= Limit /\ available <= bucket.tokens + refilled
    BY <1>3, <2>2, <2>5 DEF Least
  <2>7. taken \in Nat /\ taken <= available
    BY <1>2, <2>6
  <2> HIDE DEF taken
  <2>8. available - taken \in 0..Limit
    BY <1>3, <2>6, <2>7
  <2>9. /\ bucket' \in [seeded : BOOLEAN, tokens : 0..Limit, last : Times]
        /\ bucket'.seeded /\ bucket'.tokens = available - taken /\ bucket'.last = now
    BY <1>2, <1>7, <2>8 DEF RateInv, TypeOK
  <2>10. /\ admitted' \in [Starts -> Nat] /\ admitted'[0] = admitted[0] + taken
         /\ rewound' \in Nat
    BY <1>3, <1>4, <1>7, <2>4, <2>7 DEF RateInv, TypeOK
  <2>11. TypeOK'
    BY <1>1, <2>9, <2>10 DEF RateInv, TypeOK
  <2>12. Metered'
    <3> DEFINE bound == Refill * (now + (rewound + back))
    <3>1. bound \in Int
      BY <1>2, <1>3, <2>4, OptionAssumption DEF now
    <3>2. admitted[0] + bucket.tokens + refilled <= Limit + bound
      BY <2>3
    <3> HIDE DEF bound
    <3>3. admitted'[0] + bucket'.tokens <= Limit + bound
      BY <1>3, <2>2, <2>6, <2>7, <2>9, <2>10, <3>1, <3>2
    <3> QED  BY <1>7, <2>9, <3>3 DEF Metered, bound
  <2>13. BucketOnly'
    BY <1>1, <2>9 DEF BucketOnly
  <2> QED
    BY <1>1, <2>11, <2>12, <2>13 DEF RateInv, ClocksAgree, RowsLast, AdmittedCounted, WithinLimit, BlockHeld
<1>8. call[c].saw => bucket.seeded
  BY <1>1 DEF RateInv, BucketOnly
<1> QED  BY <1>5, <1>6, <1>7, <1>8 DEF Consume

LEMMA TickStep ==
    ASSUME RateInv, Tick
    PROVE  RateInv'
<1>1. clock' = clock + 1 /\ clock < MaxTime
  BY DEF Tick
<1>2. UNCHANGED <<limiter, calls, call, rows, bucket, tried, admitted, rewarded, promised, rewound>>
  BY DEF Tick, ghosts
<1>3. clock' \in Times /\ clock \in Nat
  BY <1>1, OptionAssumption DEF RateInv, TypeOK, Times
<1>4. TypeOK'
  BY <1>2, <1>3 DEF RateInv, TypeOK
<1>5. ClocksAgree'
  <2>1. \A c \in Callers : call[c].now \in Nat
    BY DEF RateInv, TypeOK, Calls, Times
  <2> QED  BY <1>1, <1>2, <1>3, <2>1 DEF RateInv, ClocksAgree
<1>6. BlockHeld'
  BY <1>1, <1>2, <1>3 DEF RateInv, TypeOK, BlockHeld
<1> QED
  BY <1>2, <1>4, <1>5, <1>6 DEF RateInv, RowsLast, AdmittedCounted, WithinLimit, BucketOnly, Metered

LEMMA NextInv == RateInv /\ [Next]_vars => RateInv'
<1> SUFFICES ASSUME RateInv, [Next]_vars  PROVE RateInv'
  OBVIOUS
<1>1. ASSUME NEW c \in Callers,
             \/ Call(c) \/ CheckBlock(c) \/ HitFixed(c) \/ RewardBlock(c) \/ RewardWindow(c)
             \/ StartSliding(c) \/ HitSliding(c) \/ StartConsume(c) \/ Consume(c)
      PROVE  RateInv'
  BY <1>1, StartStep, ReadStep, HitFixedStep, RewardBlockStep, RewardWindowStep, HitSlidingStep, ConsumeStep
<1>2. ASSUME NEW b \in Blocks, Block(b)  PROVE RateInv'
  BY <1>2, BlockStep
<1>3. ASSUME NEW K \in SUBSET Starts, CleanupExpired(K)  PROVE RateInv'
  BY <1>3, CleanupStep
<1>4. CASE Delete \/ Tick
  BY <1>4, DeleteStep, TickStep
<1>5. CASE UNCHANGED vars
  BY <1>5 DEF vars, ghosts, RateInv, TypeOK, ClocksAgree, RowsLast, AdmittedCounted, WithinLimit, BlockHeld,
     BucketOnly, Metered
<1> QED  BY <1>1, <1>2, <1>3, <1>4, <1>5 DEF Next

LEMMA InitInv == Init => RateInv
<1> SUFFICES ASSUME Init  PROVE RateInv
  OBVIOUS
<1> USE DEF Init
<1>1. 0 \in Times /\ 0 \in Starts /\ 0 \in 0..MaxCalls /\ 0 \in 0..Limit
  BY OptionAssumption DEF Times, Starts
<1>2. NoRow \in Rows /\ NoRow.count = 0
  BY DEF NoRow, Rows
<1>3. NoCall.now = 0 /\ ~NoCall.saw
  BY DEF NoCall
<1>4. TypeOK
  BY <1>1, <1>2, NoCallType DEF TypeOK
<1>5. ClocksAgree /\ RowsLast /\ BlockHeld /\ BucketOnly /\ Metered
  BY <1>1, <1>3 DEF ClocksAgree, RowsLast, BlockHeld, BucketOnly, Metered, Starts
<1>6. AdmittedCounted /\ WithinLimit
  BY <1>1, <1>2, OptionAssumption DEF AdmittedCounted, WithinLimit, Starts
<1> QED  BY <1>4, <1>5, <1>6 DEF RateInv

-----------------------------------------------------------------------------
(* What follows.                                                           *)

\* However the statements interleave and however late they come, the
\* invariant holds.
THEOREM RateInvariant == Spec => []RateInv
<1> QED  BY InitInv, NextInv, PTL DEF Spec

\* Type correctness of the rows and calls (TypeOK), and that a token bucket
\* holds between nothing and its capacity.
THEOREM TypeCorrect == Spec => []TypeOK
<1>1. RateInv => TypeOK
  BY DEF RateInv
<1> QED  BY <1>1, RateInvariant, PTL

\* A fixed window admits no more than the limit and what reward gave back
\* (hit, reward, cleanupExpired).
THEOREM LimitKept == Spec => []WithinLimit
<1>1. RateInv => WithinLimit
  BY DEF RateInv
<1> QED  BY <1>1, RateInvariant, PTL

\* A block refuses until the latest instant that block() promised, whatever
\* shorter blocks, sweeps and hits come in between.
THEOREM BlocksLast == Spec => []BlockLasts
<1>1. RateInv => BlockLasts
  <2> SUFFICES ASSUME RateInv, promised > clock
               PROVE  Blocked /\ rows[BLOCK_WINDOW_START].expires >= promised
    BY DEF BlockLasts
  <2>1. rows[BLOCK_WINDOW_START] \in Rows
    BY DEF RateInv, TypeOK, Starts
  <2>2. rows[BLOCK_WINDOW_START].expires \in Nat /\ promised \in Nat /\ clock \in Nat
    BY <2>1, OptionAssumption DEF Rows, RateInv, TypeOK, Times
  <2> QED  BY <2>2 DEF RateInv, BlockHeld, Blocked, Active
<1> QED  BY <1>1, RateInvariant, PTL

\* What a token bucket admits is what it held and what time has refilled, and
\* no more than the refill of the time by which late statements have turned
\* last_refill_ms back (consume).
THEOREM BucketMetered == Spec => []Metered
<1>1. RateInv => Metered
  BY DEF RateInv
<1> QED  BY <1>1, RateInvariant, PTL

-----------------------------------------------------------------------------
(* Sums over finite sets.                                                  *)

\* The recursion that Total chooses the solution of.
AnyOf(s) == CHOOSE x \in s : TRUE
AddsUp(g, f, T) ==
    g = [s \in SUBSET T |-> IF s = {} THEN 0 ELSE f[AnyOf(s)] + g[s \ {AnyOf(s)}]]

\* A claim that fails for a subset of a finite set fails for one none of whose
\* proper subsets it fails for.
LEMMA SmallestOf ==
    ASSUME NEW T, IsFiniteSet(T), NEW B, B \subseteq SUBSET T, B # {}
    PROVE  \E b \in B : \A t \in B : t \subseteq b => t = b
<1> DEFINE W == StrictSubsetOrdering(T)
<1>1. IsWellFoundedOn(W, FiniteSubsetsOf(T))
  BY FS_StrictSubsetOrderingWellFounded
<1>2. B \subseteq FiniteSubsetsOf(T)
  BY FS_FiniteSubsetsOfFinite
<1>3. PICK b \in B : \A t \in B : ~(<<t, b>> \in W)
  <2> HIDE DEF W
  <2> QED  BY <1>1, <1>2, WFMin
<1>4. ASSUME NEW t \in B, t \subseteq b, t # b  PROVE FALSE
  BY <1>3, <1>4 DEF StrictSubsetOrdering
<1> QED  BY <1>4

LEMMA AddsUpAt ==
    ASSUME NEW f, NEW T, NEW g, AddsUp(g, f, T), NEW s \in SUBSET T
    PROVE  g[s] = IF s = {} THEN 0 ELSE f[AnyOf(s)] + g[s \ {AnyOf(s)}]
  BY DEF AddsUp

LEMMA AnyOfIn ==
    ASSUME NEW s, s # {}
    PROVE  AnyOf(s) \in s
  BY DEF AnyOf

\* Solutions agree where both are defined.
LEMMA AddsUpOnce ==
    ASSUME NEW f, NEW T, IsFiniteSet(T), NEW U \in SUBSET T, NEW g, NEW h,
           AddsUp(g, f, T), AddsUp(h, f, U), NEW r \in SUBSET U
    PROVE  g[r] = h[r]
<1> DEFINE B == {s \in SUBSET U : g[s] # h[s]}
<1>1. SUFFICES ASSUME B # {} PROVE FALSE
  OBVIOUS
<1>2. IsFiniteSet(U)
  BY FS_Subset
<1>3. PICK b \in B : \A t \in B : t \subseteq b => t = b
  <2>1. B \subseteq SUBSET U
    OBVIOUS
  <2> HIDE DEF B
  <2> QED  BY <1>1, <1>2, <2>1, SmallestOf
<1>4. b \in SUBSET T /\ b \in SUBSET U /\ b # {}
  <2>1. b \in SUBSET T /\ b \in SUBSET U /\ g[b] # h[b]
    OBVIOUS
  <2>2. CASE b = {}
    <3>1. g[b] = 0 /\ h[b] = 0
      BY <2>1, <2>2, AddsUpAt
    <3> QED  BY <2>1, <3>1
  <2> QED  BY <2>1, <2>2
<1> DEFINE t == b \ {AnyOf(b)}
<1>5. t \in SUBSET U /\ t \subseteq b /\ t # b
  BY <1>4, AnyOfIn
<1>6. g[t] = h[t]
  BY <1>3, <1>5
<1>7. g[b] = f[AnyOf(b)] + g[t] /\ h[b] = f[AnyOf(b)] + h[t]
  <2>1. g[b] = IF b = {} THEN 0 ELSE f[AnyOf(b)] + g[b \ {AnyOf(b)}]
    BY <1>4, AddsUpAt
  <2>2. h[b] = IF b = {} THEN 0 ELSE f[AnyOf(b)] + h[b \ {AnyOf(b)}]
    BY <1>4, AddsUpAt
  <2> QED  BY <1>4, <2>1, <2>2
<1> QED  BY <1>3, <1>6, <1>7

LEMMA AddsUpExists ==
    ASSUME NEW f, NEW T, IsFiniteSet(T)
    PROVE  \E g : AddsUp(g, f, T)
<1> DEFINE B == {s \in SUBSET T : ~\E g : AddsUp(g, f, s)}
<1>1. SUFFICES ASSUME B # {} PROVE FALSE
  OBVIOUS
<1>2. PICK b \in B : \A t \in B : t \subseteq b => t = b
  <2>1. B \subseteq SUBSET T
    OBVIOUS
  <2> HIDE DEF B
  <2> QED  BY <1>1, <2>1, SmallestOf
<1>3. IsFiniteSet(b)
  BY FS_Subset
<1> DEFINE h(t) == CHOOSE g : AddsUp(g, f, t)
           sum(t) == IF t = {} THEN 0 ELSE f[AnyOf(t)] + h(t \ {AnyOf(t)})[t \ {AnyOf(t)}]
           g == [t \in SUBSET b |-> sum(t)]
<1>4. ASSUME NEW t \in SUBSET b, t # b  PROVE AddsUp(h(t), f, t)
  BY <1>2, <1>4
<1>5. ASSUME NEW t \in SUBSET b, t # b  PROVE h(t)[t] = sum(t)
  <2>1. AddsUp(h(t), f, t)
    BY <1>4, <1>5
  <2>2. CASE t = {}
    <3> HIDE DEF h
    <3> QED  BY <2>1, <2>2, AddsUpAt
  <2>3. CASE t # {}
    <3> DEFINE r == t \ {AnyOf(t)}
    <3>1. r \in SUBSET t /\ r \in SUBSET b /\ r # b /\ IsFiniteSet(t)
      BY <1>3, <1>5, <2>3, AnyOfIn, FS_Subset
    <3>2. AddsUp(h(r), f, r)
      BY <1>4, <3>1
    <3> HIDE DEF h
    <3>3. h(t)[t] = f[AnyOf(t)] + h(t)[r]
      BY <2>1, <2>3, AddsUpAt
    <3>4. h(t)[r] = h(r)[r]
      BY <2>1, <3>1, <3>2, AddsUpOnce
    <3> QED  BY <2>3, <3>3, <3>4
  <2> QED  BY <2>2, <2>3
<1>6. AddsUp(g, f, b)
  <2>1. ASSUME NEW t \in SUBSET b, t # {}  PROVE h(t \ {AnyOf(t)})[t \ {AnyOf(t)}] = g[t \ {AnyOf(t)}]
    <3> DEFINE r == t \ {AnyOf(t)}
    <3>1. r \in SUBSET b /\ r # b
      BY <2>1, AnyOfIn
    <3>2. h(r)[r] = sum(r)
      BY <1>5, <3>1
    <3> HIDE DEF sum
    <3>3. g[r] = sum(r)
      BY <3>1
    <3> QED  BY <3>2, <3>3
  <2> HIDE DEF h
  <2>2. \A t \in SUBSET b : sum(t) = IF t = {} THEN 0 ELSE f[AnyOf(t)] + g[t \ {AnyOf(t)}]
    BY <2>1
  <2>3. g = [t \in SUBSET b |-> IF t = {} THEN 0 ELSE f[AnyOf(t)] + g[t \ {AnyOf(t)}]]
    <3> HIDE DEF sum
    <3> QED  BY <2>2
  <2> QED  BY <2>3 DEF AddsUp
<1> QED  BY <1>2, <1>6

LEMMA TotalOf ==
    ASSUME NEW f, NEW T, IsFiniteSet(T)
    PROVE  \E g : AddsUp(g, f, T) /\ Total(f, T) = g[T]
<1> DEFINE P == CHOOSE g : AddsUp(g, f, T)
<1>1. Total(f, T) = P[T]
  BY DEF Total, MapThenSumSet, MapThenFoldSet, AddsUp, AnyOf
<1>2. AddsUp(P, f, T)
  BY AddsUpExists
<1> QED  BY <1>1, <1>2

LEMMA TotalEmpty ==
    ASSUME NEW f
    PROVE  Total(f, {}) = 0
<1>1. PICK K : K = {}
  OBVIOUS
<1>2. IsFiniteSet(K) /\ K \in SUBSET K
  BY <1>1, FS_EmptySet
<1>3. PICK g : AddsUp(g, f, K) /\ Total(f, K) = g[K]
  BY <1>2, TotalOf
<1>4. g[K] = 0
  BY <1>1, <1>2, <1>3, AddsUpAt
<1> QED  BY <1>1, <1>3, <1>4

LEMMA TotalAny ==
    ASSUME NEW f, NEW T, IsFiniteSet(T), T # {}
    PROVE  Total(f, T) = f[AnyOf(T)] + Total(f, T \ {AnyOf(T)})
<1> DEFINE R == T \ {AnyOf(T)}
<1>1. R \in SUBSET T /\ T \in SUBSET T /\ R \in SUBSET R /\ IsFiniteSet(R)
  BY FS_Subset
<1>2. PICK g : AddsUp(g, f, T) /\ Total(f, T) = g[T]
  BY TotalOf
<1> HIDE DEF R
<1>3. PICK h : AddsUp(h, f, R) /\ Total(f, R) = h[R]
  BY <1>1, TotalOf
<1>4. g[R] = h[R]
  BY <1>1, <1>2, <1>3, AddsUpOnce
<1>5. g[T] = f[AnyOf(T)] + g[R]
  BY <1>1, <1>2, AddsUpAt DEF R
<1> QED  BY <1>2, <1>3, <1>4, <1>5 DEF R

LEMMA TotalType ==
    ASSUME NEW f, NEW T, IsFiniteSet(T), \A t \in T : f[t] \in Nat
    PROVE  Total(f, T) \in Nat
<1> DEFINE B == {s \in SUBSET T : Total(f, s) \notin Nat}
<1>1. SUFFICES ASSUME B # {} PROVE FALSE
  OBVIOUS
<1>2. PICK b \in B : \A t \in B : t \subseteq b => t = b
  <2>1. B \subseteq SUBSET T
    OBVIOUS
  <2> HIDE DEF B
  <2> QED  BY <1>1, <2>1, SmallestOf
<1>3. b # {} /\ IsFiniteSet(b) /\ b \in SUBSET T
  <2>1. 0 \in Nat
    OBVIOUS
  <2> QED  BY <2>1, TotalEmpty, FS_Subset
<1> DEFINE a == AnyOf(b)
<1>4. a \in b
  BY <1>3, AnyOfIn
<1>5. Total(f, b \ {a}) \in Nat
  BY <1>2, <1>3, <1>4
<1>6. Total(f, b) = f[a] + Total(f, b \ {a}) /\ f[a] \in Nat
  BY <1>3, <1>4, TotalAny
<1>7. Total(f, b) \in Nat
  BY <1>5, <1>6
<1> QED  BY <1>7

\* Any element can be taken out of a sum.
LEMMA TotalSplit ==
    ASSUME NEW f, NEW T, IsFiniteSet(T), \A t \in T : f[t] \in Nat, NEW y \in T
    PROVE  Total(f, T) = f[y] + Total(f, T \ {y})
<1> DEFINE B == {s \in SUBSET T : \E x \in s : Total(f, s) # f[x] + Total(f, s \ {x})}
<1>1. SUFFICES ASSUME B # {} PROVE FALSE
  OBVIOUS
<1>2. PICK b \in B : \A t \in B : t \subseteq b => t = b
  <2>1. B \subseteq SUBSET T
    OBVIOUS
  <2> HIDE DEF B
  <2> QED  BY <1>1, <2>1, SmallestOf
<1>3. PICK x \in b : Total(f, b) # f[x] + Total(f, b \ {x})
  OBVIOUS
<1>4. b # {} /\ IsFiniteSet(b) /\ b \in SUBSET T
  BY FS_Subset
<1> DEFINE a == AnyOf(b)
<1>5. a \in b /\ Total(f, b) = f[a] + Total(f, b \ {a})
  BY <1>4, AnyOfIn, TotalAny
<1>6. a # x
  BY <1>3, <1>5
<1> HIDE DEF a
<1>7. Total(f, b \ {a}) = f[x] + Total(f, (b \ {a}) \ {x})
  <2>1. b \ {a} \in SUBSET T /\ b \ {a} \subseteq b /\ b \ {a} # b /\ x \in b \ {a}
    BY <1>4, <1>5, <1>6
  <2> QED  BY <1>2, <2>1
<1>8. Total(f, b \ {x}) = f[a] + Total(f, (b \ {x}) \ {a})
  <2>1. b \ {x} \in SUBSET T /\ b \ {x} \subseteq b /\ b \ {x} # b /\ a \in b \ {x}
    BY <1>4, <1>5, <1>6
  <2> QED  BY <1>2, <2>1
<1> DEFINE C == (b \ {a}) \ {x}
<1>9. C = (b \ {x}) \ {a} /\ C \in SUBSET T /\ IsFiniteSet(C)
  <2>1. C \in SUBSET b /\ C = (b \ {x}) \ {a}
    OBVIOUS
  <2> QED  BY <1>4, <2>1, FS_Subset
<1> HIDE DEF C
<1>10. Total(f, C) \in Nat /\ f[a] \in Nat /\ f[x] \in Nat
  <2>1. \A t \in C : f[t] \in Nat
    BY <1>9
  <2> QED  BY <1>4, <1>5, <1>9, <2>1, TotalType
<1> QED  BY <1>3, <1>5, <1>7, <1>8, <1>9, <1>10 DEF C

LEMMA TotalLeq ==
    ASSUME NEW f, NEW g, NEW T, IsFiniteSet(T),
           \A t \in T : f[t] \in Nat /\ g[t] \in Nat /\ f[t] <= g[t]
    PROVE  Total(f, T) <= Total(g, T)
<1> DEFINE B == {s \in SUBSET T : ~(Total(f, s) <= Total(g, s))}
<1>1. SUFFICES ASSUME B # {} PROVE FALSE
  OBVIOUS
<1>2. PICK b \in B : \A t \in B : t \subseteq b => t = b
  <2>1. B \subseteq SUBSET T
    OBVIOUS
  <2> HIDE DEF B
  <2> QED  BY <1>1, <2>1, SmallestOf
<1>3. b # {} /\ IsFiniteSet(b) /\ b \in SUBSET T
  <2>1. 0 <= 0
    OBVIOUS
  <2> QED  BY <2>1, TotalEmpty, FS_Subset
<1> DEFINE a == AnyOf(b)
           r == b \ {a}
<1>4. a \in b /\ r \in SUBSET T /\ IsFiniteSet(r) /\ r \subseteq b /\ r # b
  BY <1>3, AnyOfIn, FS_Subset
<1>5. Total(f, r) <= Total(g, r)
  BY <1>2, <1>4
<1>6. Total(f, b) = f[a] + Total(f, r) /\ Total(g, b) = g[a] + Total(g, r)
  BY <1>3, TotalAny
<1>7. f[a] \in Nat /\ g[a] \in Nat /\ f[a] <= g[a]
  BY <1>3, <1>4
<1>8. Total(f, r) \in Nat /\ Total(g, r) \in Nat
  <2> HIDE DEF r
  <2> QED  BY <1>4, TotalType
<1>9. Total(f, b) <= Total(g, b)
  <2> HIDE DEF r, a
  <2> QED  BY <1>5, <1>6, <1>7, <1>8
<1> QED  BY <1>9

LEMMA TotalSame ==
    ASSUME NEW f, NEW g, NEW T, IsFiniteSet(T), \A t \in T : f[t] \in Nat /\ g[t] = f[t]
    PROVE  Total(g, T) = Total(f, T)
<1>1. Total(f, T) <= Total(g, T) /\ Total(g, T) <= Total(f, T)
  <2>1. \A t \in T : f[t] <= g[t] /\ g[t] <= f[t] /\ g[t] \in Nat
    OBVIOUS
  <2> QED  BY <2>1, TotalLeq
<1>2. Total(f, T) \in Nat /\ Total(g, T) \in Nat
  BY TotalType
<1> QED  BY <1>1, <1>2

\* What one term gains, the sum gains.
LEMMA TotalPlus ==
    ASSUME NEW f, NEW g, NEW T, IsFiniteSet(T), NEW y \in T, NEW d \in Int,
           \A t \in T : f[t] \in Nat /\ g[t] \in Nat,
           g[y] = f[y] + d, \A t \in T \ {y} : g[t] = f[t]
    PROVE  Total(g, T) = Total(f, T) + d
<1> DEFINE R == T \ {y}
<1>1. R \in SUBSET T /\ IsFiniteSet(R)
  BY FS_Subset
<1>2. Total(f, T) = f[y] + Total(f, R) /\ Total(g, T) = g[y] + Total(g, R)
  BY TotalSplit
<1>3. Total(g, R) = Total(f, R)
  <2>1. \A t \in R : f[t] \in Nat /\ g[t] = f[t]
    OBVIOUS
  <2> HIDE DEF R
  <2> QED  BY <1>1, <2>1, TotalSame
<1>4. Total(f, R) \in Nat /\ Total(g, R) \in Nat
  <2>1. \A t \in R : f[t] \in Nat /\ g[t] \in Nat
    OBVIOUS
  <2> HIDE DEF R
  <2> QED  BY <1>1, <2>1, TotalType
<1> HIDE DEF R
<1> QED  BY <1>2, <1>3, <1>4

LEMMA TotalPart ==
    ASSUME NEW f, NEW T, IsFiniteSet(T), \A t \in T : f[t] \in Nat, NEW S \in SUBSET T
    PROVE  Total(f, S) <= Total(f, T)
<1> DEFINE B == {s \in SUBSET T : S \subseteq s /\ ~(Total(f, S) <= Total(f, s))}
<1>1. SUFFICES ASSUME B # {} PROVE FALSE
  OBVIOUS
<1>2. PICK b \in B : \A t \in B : t \subseteq b => t = b
  <2>1. B \subseteq SUBSET T
    OBVIOUS
  <2> HIDE DEF B
  <2> QED  BY <1>1, <2>1, SmallestOf
<1>3. IsFiniteSet(b) /\ b \in SUBSET T /\ S \subseteq b /\ IsFiniteSet(S)
  BY FS_Subset
<1>4. Total(f, S) \in Nat
  BY <1>3, TotalType
<1>5. PICK y \in b : y \notin S
  BY <1>4
<1> DEFINE r == b \ {y}
<1>6. Total(f, S) <= Total(f, r)
  <2>1. r \in SUBSET T /\ S \subseteq r /\ r \subseteq b /\ r # b
    BY <1>3, <1>5
  <2> QED  BY <1>2, <2>1
<1>7. Total(f, b) = f[y] + Total(f, r) /\ f[y] \in Nat
  BY <1>3, <1>5, TotalSplit
<1>8. Total(f, r) \in Nat
  <2>1. IsFiniteSet(r) /\ \A t \in r : f[t] \in Nat
    BY <1>3, FS_Subset
  <2> HIDE DEF r
  <2> QED  BY <2>1, TotalType
<1>9. Total(f, S) <= Total(f, b)
  <2> HIDE DEF r
  <2> QED  BY <1>4, <1>6, <1>7, <1>8
<1> QED  BY <1>9

LEMMA TotalZero ==
    ASSUME NEW f, NEW T, IsFiniteSet(T), \A t \in T : f[t] = 0
    PROVE  Total(f, T) = 0
<1> DEFINE B == {s \in SUBSET T : Total(f, s) # 0}
<1>1. SUFFICES ASSUME B # {} PROVE FALSE
  OBVIOUS
<1>2. PICK b \in B : \A t \in B : t \subseteq b => t = b
  <2>1. B \subseteq SUBSET T
    OBVIOUS
  <2> HIDE DEF B
  <2> QED  BY <1>1, <2>1, SmallestOf
<1>3. b # {} /\ IsFiniteSet(b)
  BY TotalEmpty, FS_Subset
<1> DEFINE a == AnyOf(b)
<1>4. a \in b
  BY <1>3, AnyOfIn
<1>5. Total(f, b \ {a}) = 0
  BY <1>2, <1>4
<1>6. Total(f, b) = f[a] + Total(f, b \ {a}) /\ f[a] = 0
  BY <1>3, <1>4, TotalAny
<1> QED  BY <1>5, <1>6

-----------------------------------------------------------------------------
(* The sliding window.                                                     *)

LEMMA Options ==
    /\ Window \in Nat \ {0} /\ Precision \in Nat \ {0} /\ Limit \in Nat /\ MaxTime \in Nat
    /\ Costs \subseteq Nat /\ Costs # {} /\ IsFiniteSet(Costs) /\ IsFiniteSet(Callers)
  BY OptionAssumption

\* The greatest cost; FiniteSetsExt defines Max by CHOOSE.
LEMMA MaxCost == Max(Costs) \in Nat /\ \A x \in Costs : x <= Max(Costs)
<1> DEFINE Above(x) == {y \in Costs : y > x}
           B == {Above(x) : x \in Costs}
<1>1. B \subseteq SUBSET Costs /\ B # {}
  BY Options
<1>2. PICK b \in B : \A t \in B : t \subseteq b => t = b
  <2>1. PICK K : K = Costs /\ IsFiniteSet(K)
    BY Options
  <2> HIDE DEF B
  <2> QED  BY <1>1, <2>1, SmallestOf
<1>3. PICK m \in Costs : b = Above(m)
  BY <1>2
<1>4. ASSUME NEW x \in Costs, x > m  PROVE FALSE
  <2>1. x \in Nat /\ m \in Nat
    BY Options
  <2>2. Above(x) \subseteq Above(m)
    <3>1. ASSUME NEW y \in Costs, y > x  PROVE y > m
      <4>1. y \in Nat
        BY Options
      <4> QED  BY <1>4, <2>1, <3>1, <4>1
    <3> QED  BY <3>1
  <2>3. x \in Above(m) /\ x \notin Above(x)
    BY <1>4, <2>1
  <2> QED  BY <1>2, <1>3, <2>2, <2>3
<1>5. \A x \in Costs : m >= x
  BY <1>4, Options
<1>6. Max(Costs) \in Costs /\ \A y \in Costs : Max(Costs) >= y
  <2>1. \E x \in Costs : \A y \in Costs : x >= y
    BY <1>5
  <2> QED  BY <2>1 DEF Max
<1> QED  BY <1>6, Options

\* What each row counts, and what the hits in flight will add to the rows of
\* the Window before now.
Counts == [s \in Times |-> rows[s].count]
Owed(now) == [c \in Callers |-> IF call[c].op = "hit" /\ call[c].now > now - Window
                                THEN call[c].cost ELSE 0]

\* The hits that have been let pass and are not counted yet.
Passed == {c \in Callers : At(c, "sliding", "hit", "second") /\ call[c].saw}

InFlight == \A c \in Callers : call[c].op = "hit" => call[c].cost \in Costs /\ call[c].step # "done"

\* What is admitted is counted.
Recorded == \A s \in Times : admitted[s] <= rows[s].count

\* There is room for the hits that have been let pass.
RoomLeft ==
    Total(admitted, LastWindow(clock)) + Max(Costs) * Cardinality(Passed)
        <= Limit + Max(Costs) * Cardinality(Callers)

\* What the rows of any Window count was asked for in it.
AskedFor ==
    \A now \in Int : Total(Counts, Since(now)) + Total(Owed(now), Callers) <= Total(tried, Since(now))

RefusedRightly ==
    \A c \in Callers : At(c, "sliding", "hit", "second") /\ ~call[c].saw
        => Total(tried, LastWindow(call[c].now)) - call[c].cost > Limit

SlidingInv ==
    limiter = "sliding" => InFlight /\ Recorded /\ RoomLeft /\ AskedFor /\ RefusedRightly

LEMMA Windows ==
    /\ IsFiniteSet(Times) /\ Times \subseteq Nat
    /\ \A now \in Int : /\ Since(now) \in SUBSET Times /\ IsFiniteSet(Since(now))
                        /\ LastWindow(now) = Since(now)
<1>1. IsFiniteSet(Times) /\ Times \subseteq Nat
  BY FS_Interval, Options DEF Times
<1>2. ASSUME NEW now \in Int
      PROVE  /\ Since(now) \in SUBSET Times /\ IsFiniteSet(Since(now))
             /\ LastWindow(now) = Since(now)
  <2>1. \A s \in Times : s + Window > now <=> s > now - Window
    BY <1>1, Options
  <2>2. Since(now) \in SUBSET Times /\ LastWindow(now) = Since(now)
    BY <2>1 DEF Since, LastWindow
  <2> QED  BY <1>1, <2>2, FS_Subset
<1> QED  BY <1>1, <1>2

\* The values that are added up.
LEMMA Addends ==
    ASSUME TypeOK
    PROVE  /\ clock \in Nat
           /\ \A s \in Times : Counts[s] = rows[s].count /\ rows[s].count \in Nat /\ admitted[s] \in Nat /\ tried[s] \in Nat
           /\ \A c \in Callers : call[c].cost \in Nat /\ call[c].now \in Nat /\ call[c].now \in Times
           /\ \A now \in Int, c \in Callers : Owed(now)[c] \in Nat /\ Owed(now)[c] <= call[c].cost
<1>1. /\ clock \in Nat
      /\ \A s \in Times : Counts[s] = rows[s].count /\ rows[s].count \in Nat /\ admitted[s] \in Nat /\ tried[s] \in Nat
  BY Windows DEF TypeOK, Counts, Starts, Rows
<1>2. \A c \in Callers : call[c].cost \in Nat /\ call[c].now \in Nat /\ call[c].now \in Times
  BY Windows DEF TypeOK, Calls
<1>3. \A now \in Int, c \in Callers : Owed(now)[c] \in Nat /\ Owed(now)[c] <= call[c].cost
  BY <1>2 DEF Owed
<1> QED  BY <1>1, <1>2, <1>3

LEMMA PassedFinite ==
    /\ IsFiniteSet(Passed) /\ Cardinality(Passed) \in Nat /\ Cardinality(Callers) \in Nat
    /\ Cardinality(Passed) <= Cardinality(Callers)
<1>1. Passed \in SUBSET Callers
  BY DEF Passed
<1> HIDE DEF Passed
<1> QED  BY <1>1, FS_Subset, FS_CardinalityType, Options

LEMMA TickSliding ==
    ASSUME TypeOK, SlidingInv, limiter = "sliding", Tick
    PROVE  SlidingInv'
<1>1. clock \in Nat /\ clock' = clock + 1 /\ UNCHANGED <<limiter, call, rows, tried, admitted>>
  BY Addends DEF Tick, ghosts
<1>2. InFlight' /\ Recorded' /\ RefusedRightly' /\ AskedFor' /\ Passed' = Passed
  BY <1>1 DEF SlidingInv, InFlight, Recorded, RefusedRightly, AskedFor, Passed, At, Counts, Owed
<1>3. RoomLeft'
  <2> DEFINE S == LastWindow(clock)
             T == LastWindow(clock + 1)
  <2>1. T \in SUBSET S /\ IsFiniteSet(S) /\ IsFiniteSet(T) /\ S \in SUBSET Times
    <3>1. T \subseteq S
      <4>1. \A s \in Times : s + Window > clock + 1 => s + Window > clock
        BY <1>1, Windows, Options
      <4> QED  BY <4>1 DEF LastWindow
    <3>2. clock \in Int /\ clock + 1 \in Int
      BY <1>1
    <3> QED  BY <3>1, <3>2, Windows
  <2>2. \A s \in S : admitted[s] \in Nat
    BY <2>1, Addends
  <2>3. PICK f : f = admitted
    OBVIOUS
  <2>4. PICK P, Q : P = S /\ Q = T
    OBVIOUS
  <2> HIDE DEF S, T
  <2>5. Total(f, Q) <= Total(f, P)
    BY <2>1, <2>2, <2>3, <2>4, TotalPart
  <2>6. Total(f, Q) \in Nat /\ Total(f, P) \in Nat
    BY <2>1, <2>2, <2>3, <2>4, TotalType
  <2>7. Total(f, P) + Max(Costs) * Cardinality(Passed) <= Limit + Max(Costs) * Cardinality(Callers)
    BY <2>3, <2>4 DEF S, SlidingInv, RoomLeft
  <2>8. Total(f, Q) + Max(Costs) * Cardinality(Passed) <= Limit + Max(Costs) * Cardinality(Callers)
    <3>1. PICK m \in Nat, n \in Nat : m = Max(Costs) * Cardinality(Passed) /\ n = Max(Costs) * Cardinality(Callers)
      BY MaxCost, PassedFinite
    <3>2. Limit \in Nat
      BY Options
    <3> QED  BY <2>5, <2>6, <2>7, <3>1, <3>2
  <2> QED  BY <1>1, <1>2, <2>3, <2>4, <2>8 DEF RoomLeft, T
<1> QED  BY <1>2, <1>3 DEF SlidingInv


LEMMA CallSliding ==
    ASSUME TypeOK, SlidingInv, limiter = "sliding", NEW c \in Callers, NEW cost \in Costs,
           Start(c, "hit", cost)
    PROVE  SlidingInv'
<1> DEFINE w == [NoCall EXCEPT !.op = "hit", !.now = clock, !.cost = cost, !.step = "first"]
<1>1. /\ call' = [call EXCEPT ![c] = w] /\ tried' = [tried EXCEPT ![clock] = @ + cost]
      /\ UNCHANGED <<limiter, clock, rows, admitted>> /\ call[c].step = "done"
  BY DEF Start
<1>2. w.op = "hit" /\ w.now = clock /\ w.cost = cost /\ w.step = "first"
  BY DEF NoCall
<1>3. /\ call'[c] = w /\ \A d \in Callers \ {c} : call'[d] = call[d]
      /\ tried'[clock] = tried[clock] + cost /\ \A t \in Times \ {clock} : tried'[t] = tried[t]
      /\ clock \in Times /\ clock \in Nat /\ cost \in Nat
  BY <1>1, Options, Addends DEF TypeOK
<1> HIDE DEF w
<1>4. call[c].op # "hit"
  BY <1>1 DEF SlidingInv, InFlight
<1>5. InFlight' /\ Recorded'
  <2>1. ASSUME NEW d \in Callers, call'[d].op = "hit"
        PROVE  call'[d].cost \in Costs /\ call'[d].step # "done"
    <3>1. CASE d = c
      BY <1>2, <1>3, <3>1
    <3>2. CASE d # c
      BY <1>3, <2>1, <3>2 DEF SlidingInv, InFlight
    <3> QED  BY <3>1, <3>2
  <2> QED  BY <1>1, <2>1 DEF SlidingInv, InFlight, Recorded
<1>6. \A d \in Callers : At(d, "sliding", "hit", "second")' <=> At(d, "sliding", "hit", "second")
  <2>1. ~At(c, "sliding", "hit", "second") /\ ~At(c, "sliding", "hit", "second")'
    BY <1>2, <1>3, <1>4 DEF At
  <2>2. \A d \in Callers \ {c} : At(d, "sliding", "hit", "second")' <=> At(d, "sliding", "hit", "second")
    BY <1>1, <1>3 DEF At
  <2> QED  BY <2>1, <2>2
<1>7. \A d \in Callers : At(d, "sliding", "hit", "second") => d # c /\ call'[d] = call[d]
  BY <1>3, <1>4 DEF At
<1>8. RoomLeft'
  <2>1. Passed' = Passed
    BY <1>6, <1>7 DEF Passed
  <2> QED  BY <1>1, <2>1 DEF SlidingInv, RoomLeft, LastWindow
<1>9. \A t \in Times : tried[t] \in Nat /\ tried'[t] \in Nat /\ tried[t] <= tried'[t]
  <2>1. \A t \in Times : tried[t] \in Nat
    BY Addends
  <2>2. tried'[clock] \in Nat /\ tried[clock] <= tried'[clock]
    BY <1>3, <2>1
  <2>3. ASSUME NEW t \in Times, t # clock  PROVE tried'[t] \in Nat /\ tried[t] <= tried'[t]
    <3>1. tried'[t] = tried[t] /\ tried[t] \in Nat
      BY <1>3, <2>1, <2>3
    <3> QED  BY <3>1
  <2> QED  BY <2>1, <2>2, <2>3
<1>10. PICK f, g : f = tried /\ g = tried'
  OBVIOUS
<1>11. RefusedRightly'
  <2> SUFFICES ASSUME NEW d \in Callers, At(d, "sliding", "hit", "second")', ~call'[d].saw
               PROVE  Total(tried', LastWindow(call'[d].now)) - call'[d].cost > Limit
    BY DEF RefusedRightly, LastWindow
  <2>1. At(d, "sliding", "hit", "second") /\ call'[d] = call[d]
    BY <1>6, <1>7
  <2>2. PICK T : T = LastWindow(call[d].now)
    OBVIOUS
  <2>3. IsFiniteSet(T) /\ T \in SUBSET Times
    BY <2>2, Windows, Addends
  <2>4. Total(f, T) <= Total(g, T)
    BY <1>9, <1>10, <2>3, TotalLeq
  <2>5. Total(f, T) \in Nat /\ Total(g, T) \in Nat
    BY <1>9, <1>10, <2>3, TotalType
  <2>6. Total(f, T) - call[d].cost > Limit
    BY <1>10, <2>1, <2>2 DEF SlidingInv, RefusedRightly
  <2>7. call[d].cost \in Nat
    BY Addends
  <2>8. Total(g, T) - call[d].cost > Limit
    BY <2>4, <2>5, <2>6, <2>7, Options
  <2> QED  BY <1>10, <2>1, <2>2, <2>8
<1>12. AskedFor'
  <2> SUFFICES ASSUME NEW now \in Int
               PROVE  (Total(Counts, Since(now)) + Total(Owed(now), Callers) <= Total(tried, Since(now)))'
    BY DEF AskedFor, Since
  <2> DEFINE T == Since(now)
             d == IF clock > now - Window THEN cost ELSE 0
  <2>1. Counts' = Counts /\ Since(now)' = T
    BY <1>1 DEF Counts, Since
  <2>2. T \in SUBSET Times /\ IsFiniteSet(T)
    BY Windows
  <2>3. clock \in T <=> clock > now - Window
    BY <1>3 DEF Since
  <2> HIDE DEF T
  <2>4. d \in Nat
    BY <1>3
  <2>5. Total(g, T) = Total(f, T) + d
    <3>1. CASE clock > now - Window
      <4>1. clock \in T /\ d = cost
        BY <2>3, <3>1
      <4> HIDE DEF d
      <4>2. \A t \in T : f[t] \in Nat /\ g[t] \in Nat
        BY <1>9, <1>10, <2>2
      <4>3. g[clock] = f[clock] + d /\ \A t \in T \ {clock} : g[t] = f[t]
        BY <1>3, <1>10, <2>2, <4>1
      <4>4. PICK y : y = clock
        OBVIOUS
      <4> QED  BY <2>2, <2>4, <4>1, <4>2, <4>3, <4>4, TotalPlus
    <3>2. CASE ~(clock > now - Window)
      <4>1. \A t \in T : f[t] \in Nat /\ g[t] = f[t]
        BY <1>3, <1>9, <1>10, <2>2, <2>3, <3>2
      <4>2. Total(g, T) = Total(f, T) /\ Total(f, T) \in Nat
        BY <2>2, <4>1, TotalSame, TotalType
      <4> QED  BY <3>2, <4>2
    <3> QED  BY <3>1, <3>2
  <2>6. PICK o, p : o = Owed(now) /\ p = Owed(now)'
    OBVIOUS
  <2>7. p[c] = d /\ o[c] = 0 /\ \A b \in Callers \ {c} : p[b] = o[b]
    <3>1. p[c] = d
      BY <1>2, <1>3, <2>6 DEF Owed
    <3>2. o[c] = 0
      BY <1>4, <2>6 DEF Owed
    <3>3. \A b \in Callers \ {c} : p[b] = o[b]
      BY <1>3, <2>6 DEF Owed
    <3> QED  BY <3>1, <3>2, <3>3
  <2>8. \A b \in Callers : o[b] \in Nat /\ p[b] \in Nat
    BY <2>4, <2>6, <2>7, Addends
  <2> HIDE DEF d
  <2>9. Total(p, Callers) = Total(o, Callers) + d
    <3>1. p[c] = o[c] + d /\ d \in Int
      BY <2>4, <2>7
    <3> QED  BY <2>7, <2>8, <3>1, Options, TotalPlus
  <2>10. PICK k : k = Counts
    OBVIOUS
  <2>11. Total(k, T) \in Nat /\ Total(o, Callers) \in Nat /\ Total(f, T) \in Nat
    <3>1. \A t \in T : k[t] \in Nat /\ f[t] \in Nat
      BY <1>9, <1>10, <2>2, <2>10, Addends
    <3> QED  BY <2>2, <2>8, <3>1, Options, TotalType
  <2>12. Total(k, T) + Total(o, Callers) <= Total(f, T)
    BY <1>10, <2>6, <2>10 DEF SlidingInv, AskedFor, T
  <2>13. Total(k, T) + Total(p, Callers) <= Total(g, T)
    BY <2>4, <2>5, <2>9, <2>11, <2>12
  <2> QED  BY <1>10, <2>1, <2>6, <2>10, <2>13
<1> QED  BY <1>5, <1>8, <1>11, <1>12 DEF SlidingInv


LEMMA ReadSliding ==
    ASSUME TypeOK, ClocksAgree, SlidingInv, limiter = "sliding", NEW c \in Callers, StartSliding(c)
    PROVE  SlidingInv'
<1> DEFINE saw == Allowed(Total([s \in Times |-> rows[s].count], Since(call[c].now)))
<1>1. /\ call' = [call EXCEPT ![c].step = "second", ![c].saw = saw]
      /\ UNCHANGED <<limiter, clock, rows, tried, admitted>>
      /\ call[c].op = "hit" /\ call[c].step = "first"
  BY DEF StartSliding, At, ghosts
<1>2. saw \in BOOLEAN /\ saw = (Total(Counts, Since(call[c].now)) <= Limit)
  BY DEF Allowed, Counts
<1> HIDE DEF saw
<1>3. /\ call'[c].op = "hit" /\ call'[c].step = "second" /\ call'[c].now = call[c].now
      /\ call'[c].cost = call[c].cost
      /\ \A d \in Callers \ {c} : call'[d] = call[d]
  <2>1. call[c] \in Calls /\ call'[c] = [call[c] EXCEPT !.step = "second", !.saw = saw]
    BY <1>1 DEF TypeOK
  <2>2. \A d \in Callers \ {c} : call'[d] = call[d]
    BY <1>1 DEF TypeOK
  <2>3. PICK v, w : v = call[c] /\ w = call'[c]
    OBVIOUS
  <2>4. w.op = v.op /\ w.step = "second" /\ w.now = v.now /\ w.cost = v.cost
    BY <2>1, <2>3 DEF Calls
  <2> QED  BY <1>1, <2>2, <2>3, <2>4
<1>4. call'[c].saw = saw
  BY <1>1 DEF TypeOK, Calls
<1>5. InFlight' /\ Recorded'
  <2>1. ASSUME NEW d \in Callers, call'[d].op = "hit"
        PROVE  call'[d].cost \in Costs /\ call'[d].step # "done"
    <3>1. CASE d = c
      BY <1>1, <1>3, <3>1 DEF SlidingInv, InFlight
    <3>2. CASE d # c
      BY <1>3, <2>1, <3>2 DEF SlidingInv, InFlight
    <3> QED  BY <3>1, <3>2
  <2> QED  BY <1>1, <2>1 DEF SlidingInv, InFlight, Recorded
<1>6. AskedFor'
  <2>1. \A now \in Int : Owed(now)' = Owed(now)
    <3> SUFFICES ASSUME NEW now \in Int  PROVE Owed(now)' = Owed(now)
      OBVIOUS
    <3>1. \A d \in Callers : /\ call'[d].op = call[d].op /\ call'[d].now = call[d].now
                             /\ call'[d].cost = call[d].cost
      BY <1>1, <1>3
    <3> QED  BY <3>1 DEF Owed
  <2>2. Counts' = Counts /\ UNCHANGED tried
    BY <1>1 DEF Counts
  <2> QED  BY <2>1, <2>2 DEF SlidingInv, AskedFor, Since
<1> DEFINE now == call[c].now
           cost == call[c].cost
<1>7. PICK k, T : k = Counts /\ T = Since(now)
  OBVIOUS
<1>8. T \in SUBSET Times /\ IsFiniteSet(T) /\ T = LastWindow(now) /\ now \in Nat /\ cost \in Nat /\ now <= clock
  BY <1>7, Windows, Addends DEF ClocksAgree
<1>9. (\A t \in T : k[t] \in Nat /\ k[t] = rows[t].count) /\ Total(k, T) \in Nat
  <2>1. \A t \in T : k[t] \in Nat /\ k[t] = rows[t].count
    BY <1>7, <1>8, Addends
  <2> QED  BY <1>8, <2>1, TotalType
<1> HIDE DEF now, cost
<1>10. RefusedRightly'
  <2> SUFFICES ASSUME NEW d \in Callers, At(d, "sliding", "hit", "second")', ~call'[d].saw
               PROVE  Total(tried', LastWindow(call'[d].now)) - call'[d].cost > Limit
    BY DEF RefusedRightly, LastWindow
  <2>1. CASE d # c
    <3>1. At(d, "sliding", "hit", "second") /\ call'[d] = call[d] /\ tried' = tried
      BY <1>1, <1>3, <2>1 DEF At
    <3> QED  BY <3>1 DEF SlidingInv, RefusedRightly
  <2>2. CASE d = c
    <3>1. Total(k, T) > Limit
      <4>1. ~(Total(k, T) <= Limit)
        BY <1>2, <1>4, <1>7, <2>2 DEF now
      <4> QED  BY <1>9, <4>1, Options
    <3>2. PICK f, o : f = tried /\ o = Owed(now)
      OBVIOUS
    <3>3. Total(k, T) + Total(o, Callers) <= Total(f, T)
      <4>1. now \in Int
        BY <1>8
      <4> QED  BY <1>7, <3>2, <4>1 DEF SlidingInv, AskedFor
    <3>4. (\A b \in Callers : o[b] \in Nat) /\ o[c] = cost
      <4>1. now > now - Window /\ now \in Int
        BY <1>8, Options
      <4>2. \A b \in Callers : o[b] \in Nat
        BY <3>2, <4>1, Addends
      <4>3. o[c] = cost
        BY <1>1, <3>2, <4>1 DEF Owed, now, cost
      <4> QED  BY <4>2, <4>3
    <3>5. Total(o, Callers) >= cost
      <4>1. Total(o, Callers) = o[c] + Total(o, Callers \ {c})
        BY <3>4, Options, TotalSplit
      <4>2. Total(o, Callers \ {c}) \in Nat
        <5>1. PICK C : C = Callers \ {c}
          OBVIOUS
        <5>2. IsFiniteSet(C) /\ \A b \in C : o[b] \in Nat
          BY <3>4, <5>1, Options, FS_Subset
        <5> QED  BY <5>1, <5>2, TotalType
      <4> QED  BY <1>8, <3>4, <4>1, <4>2
    <3>6. Total(f, T) \in Nat /\ Total(o, Callers) \in Nat
      <4>1. \A t \in T : f[t] \in Nat
        BY <1>8, <3>2, Addends
      <4> QED  BY <1>8, <3>4, <4>1, Options, TotalType
    <3>7. Total(f, T) - cost > Limit
      BY <1>8, <1>9, <3>1, <3>3, <3>5, <3>6, Options
    <3>8. call'[d].now = now /\ call'[d].cost = cost /\ tried' = f
      BY <1>1, <1>3, <2>2, <3>2 DEF now, cost
    <3> QED  BY <1>8, <3>7, <3>8
  <2> QED  BY <2>1, <2>2
<1>11. RoomLeft'
  <2>1. CASE ~saw
    <3>1. \A d \in Callers : d \in Passed' <=> d \in Passed
      <4>1. c \notin Passed /\ c \notin Passed'
        BY <1>1, <1>4, <2>1 DEF Passed, At
      <4>2. \A d \in Callers \ {c} : d \in Passed' <=> d \in Passed
        BY <1>1, <1>3 DEF Passed, At
      <4> QED  BY <4>1, <4>2
    <3>2. Passed' = Passed
      BY <3>1 DEF Passed
    <3> QED  BY <1>1, <3>2 DEF SlidingInv, RoomLeft, LastWindow
  <2>2. CASE saw
    <3>1. PICK a, S, m, n : a = admitted /\ S = LastWindow(clock) /\ m = Cardinality(Passed)' /\ n = Cardinality(Callers)
      OBVIOUS
    <3>2. S \in SUBSET T
      <4>1. \A s \in Times : s + Window > clock => s + Window > now
        BY <1>8, Windows, Addends, Options
      <4> QED  BY <1>8, <3>1, <4>1 DEF LastWindow
    <3>3. IsFiniteSet(S) /\ \A t \in S : a[t] \in Nat /\ k[t] \in Nat /\ a[t] <= k[t]
      <4>1. IsFiniteSet(S)
        BY <1>8, <3>2, FS_Subset
      <4>2. ASSUME NEW t \in S  PROVE a[t] \in Nat /\ k[t] \in Nat /\ a[t] <= k[t]
        <5>1. t \in Times /\ t \in T
          BY <1>8, <3>2
        <5>2. a[t] \in Nat /\ a[t] <= rows[t].count
          BY <3>1, <5>1, Addends DEF SlidingInv, Recorded
        <5> QED  BY <1>9, <5>1, <5>2
      <4> QED  BY <4>1, <4>2
    <3>4. Total(a, S) <= Total(k, S) /\ Total(k, S) <= Total(k, T) /\ Total(k, T) <= Limit
      <4>1. Total(k, T) <= Limit
        BY <1>2, <1>7, <2>2 DEF now
      <4>2. Total(a, S) <= Total(k, S)
        BY <3>3, TotalLeq
      <4>3. Total(k, S) <= Total(k, T)
        BY <1>8, <1>9, <3>2, TotalPart
      <4> QED  BY <4>1, <4>2, <4>3
    <3>5. Total(a, S) \in Nat /\ Total(k, S) \in Nat
      BY <3>3, TotalType
    <3>6. m \in Nat /\ n \in Nat /\ m <= n
      <4>1. Passed' \in SUBSET Callers
        BY DEF Passed
      <4>2. PICK Q : Q = Passed'
        OBVIOUS
      <4>3. Cardinality(Q) <= n /\ Cardinality(Q) \in Nat /\ n \in Nat
        BY <3>1, <4>1, <4>2, FS_Subset, FS_CardinalityType, Options
      <4> QED  BY <3>1, <4>2, <4>3
    <3>7. Max(Costs) * m <= Max(Costs) * n /\ Max(Costs) * m \in Nat /\ Max(Costs) * n \in Nat
      <4>1. PICK M \in Nat : M = Max(Costs)
        BY MaxCost
      <4>2. M * m <= M * n /\ M * m \in Nat /\ M * n \in Nat
        BY <3>6
      <4> QED  BY <4>1, <4>2
    <3>8. Total(a, S) + Max(Costs) * m <= Limit + Max(Costs) * n
      BY <1>9, <3>4, <3>5, <3>7, Options
    <3> QED  BY <1>1, <3>1, <3>8 DEF RoomLeft, LastWindow
  <2> QED  BY <2>1, <2>2
<1> QED  BY <1>1, <1>5, <1>6, <1>10, <1>11 DEF SlidingInv


LEMMA CountSliding ==
    ASSUME TypeOK, ClocksAgree, SlidingInv, limiter = "sliding", NEW c \in Callers, HitSliding(c)
    PROVE  SlidingInv'
<1> DEFINE s == Floor(call[c].now, Precision)
           cost == call[c].cost
<1>1. /\ rows' = Counted(s, cost) /\ call' = [call EXCEPT ![c] = NoCall]
      /\ admitted' = IF call[c].saw THEN [admitted EXCEPT ![s] = @ + cost] ELSE admitted
      /\ UNCHANGED <<limiter, clock, tried>> /\ call[c].op = "hit" /\ call[c].step = "second"
  BY DEF HitSliding, At, Return
<1>2. /\ s \in Times /\ s \in Nat /\ s <= call[c].now /\ cost \in Nat /\ call[c].now \in Nat
      /\ clock \in Nat /\ call[c].now <= clock
  <2>1. call[c].now \in Nat /\ call[c].now <= MaxTime /\ cost \in Nat
    BY Addends, Options DEF Times
  <2>2. s \in Nat /\ s <= call[c].now
    BY <2>1, FloorType, Options
  <2>3. s \in Times
    BY <2>1, <2>2, Options DEF Times
  <2> QED  BY <2>1, <2>2, <2>3, Addends DEF ClocksAgree
<1> HIDE DEF s
<1>3. /\ Counts'[s] = Counts[s] + cost /\ rows'[s].count = rows[s].count + cost
      /\ \A t \in Times \ {s} : Counts'[t] = Counts[t] /\ rows'[t] = rows[t]
  <2>1. rows'[s] = [count |-> rows[s].count + cost, expires |-> Greatest(rows[s].expires, clock + Window)]
    BY <1>1, <1>2 DEF Counted, TypeOK, Starts
  <2>2. \A t \in Times \ {s} : rows'[t] = rows[t]
    BY <1>1 DEF Counted, TypeOK, Starts
  <2>3. rows'[s].count = rows[s].count + cost
    BY <2>1
  <2> HIDE DEF cost
  <2> QED  BY <1>2, <2>2, <2>3 DEF Counts
<1>4. call'[c] = NoCall /\ \A d \in Callers \ {c} : call'[d] = call[d]
  BY <1>1 DEF TypeOK
<1>5. NoCall.op = "none"
  BY DEF NoCall
<1>6. InFlight'
  <2> SUFFICES ASSUME NEW d \in Callers, call'[d].op = "hit"
               PROVE  call'[d].cost \in Costs /\ call'[d].step # "done"
    BY DEF InFlight
  <2>1. d # c
    BY <1>4, <1>5
  <2> QED  BY <1>4, <2>1 DEF SlidingInv, InFlight
<1>7. RefusedRightly'
  <2> SUFFICES ASSUME NEW d \in Callers, At(d, "sliding", "hit", "second")', ~call'[d].saw
               PROVE  Total(tried', LastWindow(call'[d].now)) - call'[d].cost > Limit
    BY DEF RefusedRightly, LastWindow
  <2>1. d # c
    BY <1>4, <1>5 DEF At
  <2>2. At(d, "sliding", "hit", "second") /\ call'[d] = call[d] /\ tried' = tried
    BY <1>1, <1>4, <2>1 DEF At
  <2> QED  BY <2>2 DEF SlidingInv, RefusedRightly
<1>8. PICK a, b : a = admitted /\ b = admitted'
  OBVIOUS
<1>9. /\ b[s] = IF call[c].saw THEN a[s] + cost ELSE a[s]
      /\ \A t \in Times \ {s} : b[t] = a[t]
  BY <1>1, <1>2, <1>8 DEF TypeOK, Starts
<1>10. \A t \in Times : a[t] \in Nat
  BY <1>8, Addends
<1> HIDE DEF cost
<1>11. \A t \in Times : b[t] \in Nat
  <2>1. b[s] \in Nat
    <3>1. a[s] \in Nat /\ a[s] + cost \in Nat
      BY <1>2, <1>10
    <3> QED  BY <1>9, <3>1
  <2> QED  BY <1>9, <1>10, <2>1
<1>12. Recorded'
  <2>1. b[s] <= rows'[s].count
    <3>1. a[s] <= rows[s].count /\ a[s] \in Nat /\ rows[s].count \in Nat
      BY <1>2, <1>8, Addends DEF SlidingInv, Recorded
    <3>2. a[s] <= rows[s].count + cost /\ a[s] + cost <= rows[s].count + cost
      BY <1>2, <3>1
    <3> QED  BY <1>3, <1>9, <3>2
  <2>2. \A t \in Times \ {s} : b[t] <= rows'[t].count
    BY <1>3, <1>8, <1>9 DEF SlidingInv, Recorded
  <2> QED  BY <1>8, <2>1, <2>2 DEF Recorded
<1>13. AskedFor'
  <2> SUFFICES ASSUME NEW now \in Int
               PROVE  (Total(Counts, Since(now)) + Total(Owed(now), Callers) <= Total(tried, Since(now)))'
    BY DEF AskedFor, Since
  <2>1. PICK f, T : f = tried /\ T = Since(now)
    OBVIOUS
  <2>2. T \in SUBSET Times /\ IsFiniteSet(T) /\ tried' = f /\ Since(now)' = T
    BY <1>1, <2>1, Windows DEF Since
  <2>3. PICK k, l : k = Counts /\ l = Counts'
    OBVIOUS
  <2>4. PICK o, p : o = Owed(now) /\ p = Owed(now)'
    OBVIOUS
  <2>5. \A t \in Times : k[t] \in Nat /\ f[t] \in Nat
    BY <2>1, <2>3, Addends
  <2>6. /\ l[s] = k[s] + cost /\ l[s] \in Nat
        /\ \A t \in Times \ {s} : l[t] = k[t]
    <3>1. l[s] = k[s] + cost /\ k[s] \in Nat
      BY <1>2, <1>3, <2>3, <2>5
    <3> QED  BY <1>2, <1>3, <2>3, <3>1
  <2>7. /\ o[c] = IF call[c].now > now - Window THEN cost ELSE 0
        /\ p[c] = 0 /\ \A d \in Callers \ {c} : p[d] = o[d]
    <3>1. o[c] = IF call[c].now > now - Window THEN cost ELSE 0
      BY <1>1, <2>4 DEF Owed, cost
    <3>2. p[c] = 0
      BY <1>4, <1>5, <2>4 DEF Owed
    <3>3. \A d \in Callers \ {c} : p[d] = o[d]
      BY <1>4, <2>4 DEF Owed
    <3> QED  BY <3>1, <3>2, <3>3
  <2>8. \A d \in Callers : o[d] \in Nat /\ p[d] \in Nat
    <3>1. \A d \in Callers : o[d] \in Nat
      BY <2>4, Addends
    <3> QED  BY <2>7, <3>1
  <2>9. \A t \in T : k[t] \in Nat /\ l[t] \in Nat
    BY <2>2, <2>5, <2>6
  <2>10. /\ Total(k, T) \in Nat /\ Total(l, T) \in Nat /\ Total(f, T) \in Nat
         /\ Total(o, Callers) \in Nat /\ Total(p, Callers) \in Nat
    <3>1. \A t \in T : f[t] \in Nat
      BY <2>2, <2>5
    <3> QED  BY <2>2, <2>8, <2>9, <3>1, Options, TotalType
  <2>11. Total(k, T) + Total(o, Callers) <= Total(f, T)
    BY <2>1, <2>3, <2>4 DEF SlidingInv, AskedFor
  <2>12. Total(l, T) + Total(p, Callers) <= Total(k, T) + Total(o, Callers)
    <3>1. CASE s \in T
      <4>1. call[c].now > now - Window
        <5>1. s > now - Window
          BY <2>1, <3>1 DEF Since
        <5> QED  BY <1>2, <5>1, Options
      <4>2. p[c] = o[c] + (-cost) /\ -cost \in Int
        BY <1>2, <2>7, <4>1
      <4>3. Total(p, Callers) = Total(o, Callers) + (-cost)
        BY <2>7, <2>8, <4>2, Options, TotalPlus
      <4>4. Total(l, T) = Total(k, T) + cost
        <5>1. \A t \in T \ {s} : l[t] = k[t]
          BY <2>2, <2>6
        <5>2. cost \in Int
          BY <1>2
        <5> QED  BY <2>2, <2>6, <2>9, <3>1, <5>1, <5>2, TotalPlus
      <4> QED  BY <1>2, <2>10, <4>3, <4>4
    <3>2. CASE s \notin T
      <4>1. Total(l, T) = Total(k, T)
        <5>1. \A t \in T : k[t] \in Nat /\ l[t] = k[t]
          BY <2>2, <2>5, <2>6, <3>2
        <5> QED  BY <2>2, <5>1, TotalSame
      <4>2. Total(p, Callers) <= Total(o, Callers)
        <5>1. \A d \in Callers : p[d] <= o[d]
          BY <2>7, <2>8
        <5> QED  BY <2>8, <5>1, Options, TotalLeq
      <4> QED  BY <2>10, <4>1, <4>2
    <3> QED  BY <3>1, <3>2
  <2>13. Total(l, T) + Total(p, Callers) <= Total(f, T)
    BY <2>10, <2>11, <2>12
  <2> QED  BY <2>2, <2>3, <2>4, <2>13
<1>14. RoomLeft'
  <2>1. PICK T : T = LastWindow(clock)
    OBVIOUS
  <2>2. T \in SUBSET Times /\ IsFiniteSet(T) /\ LastWindow(clock)' = T
    <3>1. LastWindow(clock)' = LastWindow(clock)
      BY <1>1 DEF LastWindow
    <3>2. clock \in Int
      BY <1>2
    <3> QED  BY <2>1, <3>1, <3>2, Windows
  <2>3. PICK P, Q : P = Passed /\ Q = Passed'
    OBVIOUS
  <2>4. PICK M \in Nat, m \in Nat : M = Max(Costs) /\ m = Cardinality(P)
    BY <2>3, MaxCost, PassedFinite
  <2>5. Total(a, T) + M * m <= Limit + M * Cardinality(Callers)
    BY <1>8, <2>1, <2>3, <2>4 DEF SlidingInv, RoomLeft
  <2>6. (\A t \in T : a[t] \in Nat /\ b[t] \in Nat) /\ Total(a, T) \in Nat /\ Total(b, T) \in Nat
    <3>1. \A t \in T : a[t] \in Nat /\ b[t] \in Nat
      BY <1>10, <1>11, <2>2
    <3> QED  BY <2>2, <3>1, TotalType
  <2>7. PICK n \in Nat : n = M * Cardinality(Callers)
    BY <2>4, PassedFinite
  <2>8. c \notin Q /\ \A d \in Callers \ {c} : d \in Q <=> d \in P
    <3>1. c \notin Q
      BY <1>4, <1>5, <2>3 DEF Passed, At
    <3>2. \A d \in Callers \ {c} : d \in Q <=> d \in P
      BY <1>1, <1>4, <2>3 DEF Passed, At
    <3> QED  BY <3>1, <3>2
  <2>9. P \subseteq Callers /\ Q \subseteq Callers /\ IsFiniteSet(P)
    BY <2>3, PassedFinite DEF Passed
  <2>10. CASE ~call[c].saw
    <3>1. Q = P
      <4>1. c \notin P
        BY <2>3, <2>10 DEF Passed
      <4> QED  BY <2>8, <2>9, <4>1
    <3>2. b = a
      BY <1>1, <1>8, <2>10
    <3> QED  BY <2>2, <2>3, <2>4, <2>5, <3>1, <3>2, <1>8 DEF RoomLeft
  <2>11. CASE call[c].saw
    <3>1. c \in P
      BY <1>1, <2>3, <2>11 DEF Passed, At
    <3>2. Q = P \ {c}
      BY <2>8, <2>9, <3>1
    <3>3. Cardinality(Q) = m - 1 /\ m - 1 \in Nat
      <4>1. Cardinality(Q) = m - 1
        BY <2>4, <2>9, <3>1, <3>2, FS_RemoveElement
      <4>2. Cardinality(Q) \in Nat
        BY <2>9, <3>2, FS_RemoveElement, FS_CardinalityType
      <4> QED  BY <4>1, <4>2
    <3>4. cost <= M
      <4>1. cost \in Costs
        BY <1>1 DEF SlidingInv, InFlight, cost
      <4> QED  BY <2>4, <4>1, MaxCost
    <3>5. Total(b, T) <= Total(a, T) + cost
      <4>1. CASE s \in T
        <5>1. b[s] = a[s] + cost /\ \A t \in T \ {s} : b[t] = a[t]
          BY <1>9, <2>2, <2>11
        <5>2. cost \in Int
          BY <1>2
        <5>3. Total(b, T) = Total(a, T) + cost
          BY <2>2, <2>6, <4>1, <5>1, <5>2, TotalPlus
        <5> QED  BY <1>2, <2>6, <5>3
      <4>2. CASE s \notin T
        <5>1. \A t \in T : a[t] \in Nat /\ b[t] = a[t]
          BY <1>9, <2>2, <2>6, <4>2
        <5>2. Total(b, T) = Total(a, T)
          BY <2>2, <5>1, TotalSame
        <5> QED  BY <1>2, <2>6, <5>2
      <4> QED  BY <4>1, <4>2
    <3>6. M * m = M * (m - 1) + M /\ M * m \in Nat /\ M * (m - 1) \in Nat
      <4>1. PICK i \in Nat : i = m - 1
        BY <3>3
      <4>2. M * (i + 1) = M * i + M /\ M * (i + 1) \in Nat /\ M * i \in Nat
        BY <2>4
      <4>3. m = i + 1
        BY <2>4, <4>1
      <4> QED  BY <4>1, <4>2, <4>3
    <3>7. Total(b, T) + M * (m - 1) <= Limit + n
      <4>1. PICK x \in Nat, y \in Nat : x = M * m /\ y = M * (m - 1)
        BY <3>6
      <4>2. x = y + M
        BY <3>6, <4>1
      <4> QED  BY <1>2, <2>4, <2>5, <2>6, <2>7, <3>4, <3>5, <4>1, <4>2, Options
    <3> QED  BY <1>8, <2>2, <2>3, <2>4, <2>7, <3>3, <3>7 DEF RoomLeft
  <2> QED  BY <2>10, <2>11
<1> QED  BY <1>1, <1>6, <1>7, <1>12, <1>13, <1>14 DEF SlidingInv


LEMMA CleanupSliding ==
    ASSUME TypeOK, RowsLast, SlidingInv, limiter = "sliding", NEW K \in SUBSET Starts, CleanupExpired(K)
    PROVE  SlidingInv'
<1>1. /\ \A s \in K : rows[s].expires <= clock /\ rows[s] # NoRow
      /\ rows' = Without(rows, K, NoRow) /\ admitted' = Without(admitted, K \cap Over, 0)
      /\ UNCHANGED <<limiter, clock, call, tried>>
  BY DEF CleanupExpired, Swept
<1>2. \A s \in Times : /\ rows'[s] = IF s \in K THEN NoRow ELSE rows[s]
                       /\ admitted'[s] = IF s \in K /\ s \in Over THEN 0 ELSE admitted[s]
  BY <1>1 DEF Without, Starts
<1>3. \A s \in Times : s \in K => s \in Over
  <2> SUFFICES ASSUME NEW s \in Times, s \in K  PROVE s + Window <= clock
    BY DEF Over
  <2>1. rows[s].expires >= s + Window /\ rows[s].expires <= clock
    BY <1>1 DEF RowsLast
  <2>2. rows[s].expires \in Nat /\ s \in Nat /\ clock \in Nat
    BY Windows DEF TypeOK, Starts, Rows
  <2> QED  BY <2>1, <2>2, Options
<1>4. NoRow.count = 0
  BY DEF NoRow
<1>5. \A s \in Times : /\ rows'[s].count \in Nat /\ rows'[s].count <= rows[s].count /\ Counts'[s] = rows'[s].count
                       /\ admitted'[s] \in Nat /\ admitted'[s] <= admitted[s]
                       /\ admitted'[s] <= rows'[s].count
  <2> SUFFICES ASSUME NEW s \in Times
               PROVE  /\ rows'[s].count \in Nat /\ rows'[s].count <= rows[s].count /\ Counts'[s] = rows'[s].count
                      /\ admitted'[s] \in Nat /\ admitted'[s] <= admitted[s]
                      /\ admitted'[s] <= rows'[s].count
    OBVIOUS
  <2>1. /\ rows[s].count \in Nat /\ admitted[s] \in Nat /\ admitted[s] <= rows[s].count
        /\ Counts'[s] = rows'[s].count
    BY Addends DEF SlidingInv, Recorded, Counts
  <2>2. CASE s \in K
    <3>1. rows'[s].count = 0 /\ admitted'[s] = 0
      BY <1>2, <1>3, <1>4, <2>2
    <3> QED  BY <2>1, <3>1
  <2>3. CASE s \notin K
    <3>1. rows'[s] = rows[s] /\ admitted'[s] = admitted[s]
      BY <1>2, <2>3
    <3> QED  BY <2>1, <3>1
  <2> QED  BY <2>2, <2>3
<1>6. InFlight' /\ Recorded' /\ Passed' = Passed
  BY <1>1, <1>5 DEF SlidingInv, InFlight, Recorded, Passed, At
<1>7. RefusedRightly'
  BY <1>1 DEF SlidingInv, RefusedRightly, LastWindow, At
<1>8. AskedFor'
  <2> SUFFICES ASSUME NEW now \in Int
               PROVE  (Total(Counts, Since(now)) + Total(Owed(now), Callers) <= Total(tried, Since(now)))'
    BY DEF AskedFor, Since
  <2>1. PICK f, T, o : f = tried /\ T = Since(now) /\ o = Owed(now)
    OBVIOUS
  <2>2. T \in SUBSET Times /\ IsFiniteSet(T) /\ tried' = f /\ Since(now)' = T /\ Owed(now)' = o
    BY <1>1, <2>1, Windows DEF Since, Owed
  <2>3. PICK k, l : k = Counts /\ l = Counts'
    OBVIOUS
  <2>4. \A t \in T : k[t] \in Nat /\ l[t] \in Nat /\ l[t] <= k[t] /\ f[t] \in Nat
    BY <1>5, <2>1, <2>2, <2>3, Addends
  <2>5. \A c \in Callers : o[c] \in Nat
    BY <2>1, Addends
  <2>6. /\ Total(k, T) \in Nat /\ Total(l, T) \in Nat /\ Total(f, T) \in Nat /\ Total(o, Callers) \in Nat
        /\ Total(l, T) <= Total(k, T)
    BY <2>2, <2>4, <2>5, Options, TotalType, TotalLeq
  <2>7. Total(k, T) + Total(o, Callers) <= Total(f, T)
    BY <2>1, <2>3 DEF SlidingInv, AskedFor
  <2>8. Total(l, T) + Total(o, Callers) <= Total(f, T)
    BY <2>6, <2>7
  <2> QED  BY <2>2, <2>3, <2>8
<1>9. RoomLeft'
  <2>1. PICK T, a, b : T = LastWindow(clock) /\ a = admitted /\ b = admitted'
    OBVIOUS
  <2>2. T \in SUBSET Times /\ IsFiniteSet(T) /\ LastWindow(clock)' = T
    <3>1. LastWindow(clock)' = LastWindow(clock)
      BY <1>1 DEF LastWindow
    <3>2. clock \in Int
      BY Addends
    <3> QED  BY <2>1, <3>1, <3>2, Windows
  <2>3. \A t \in T : a[t] \in Nat /\ b[t] \in Nat /\ b[t] <= a[t]
    BY <1>5, <2>1, <2>2, Addends
  <2>4. Total(a, T) \in Nat /\ Total(b, T) \in Nat /\ Total(b, T) <= Total(a, T)
    BY <2>2, <2>3, TotalType, TotalLeq
  <2>5. PICK m \in Nat, n \in Nat : m = Max(Costs) * Cardinality(Passed) /\ n = Max(Costs) * Cardinality(Callers)
    BY MaxCost, PassedFinite
  <2>6. Total(a, T) + m <= Limit + n
    BY <2>1, <2>5 DEF SlidingInv, RoomLeft
  <2>7. Total(b, T) + m <= Limit + n
    BY <2>4, <2>5, <2>6, Options
  <2> QED  BY <1>6, <2>1, <2>2, <2>5, <2>7 DEF RoomLeft
<1> QED  BY <1>1, <1>6, <1>7, <1>8, <1>9 DEF SlidingInv

LEMMA InitSliding == Init => SlidingInv
<1> SUFFICES ASSUME Init, limiter = "sliding"  PROVE SlidingInv
  BY DEF SlidingInv
<1>1. InFlight /\ Recorded /\ RefusedRightly
  BY DEF Init, InFlight, Recorded, RefusedRightly, At, NoCall, NoRow, Starts
<1>2. Passed = {}
  BY DEF Init, Passed, At, NoCall
<1>3. PICK a, S, K : a = admitted /\ S = LastWindow(clock) /\ K = Passed
  OBVIOUS
<1>4. S \in SUBSET Times /\ IsFiniteSet(S) /\ \A t \in S : a[t] = 0
  <2>1. clock \in Int /\ \A t \in Times : a[t] = 0
    BY <1>3 DEF Init, Starts
  <2> QED  BY <1>3, <2>1, Windows
<1>5. RoomLeft
  <2>1. Total(a, S) = 0
    BY <1>4, TotalZero
  <2>2. Cardinality(K) = 0
    BY <1>2, <1>3, FS_EmptySet
  <2>3. PICK M \in Nat, n \in Nat : M = Max(Costs) /\ n = Cardinality(Callers)
    BY MaxCost, PassedFinite
  <2>4. 0 + M * 0 <= Limit + M * n
    <3>1. M * n \in Nat /\ M * 0 = 0
      BY <2>3
    <3> QED  BY <3>1, Options
  <2> QED  BY <1>3, <2>1, <2>2, <2>3, <2>4 DEF RoomLeft
<1>6. AskedFor
  <2> SUFFICES ASSUME NEW now \in Int
               PROVE  Total(Counts, Since(now)) + Total(Owed(now), Callers) <= Total(tried, Since(now))
    BY DEF AskedFor
  <2>1. PICK f, k, o, T : f = tried /\ k = Counts /\ o = Owed(now) /\ T = Since(now)
    OBVIOUS
  <2>2. T \in SUBSET Times /\ IsFiniteSet(T)
    BY <2>1, Windows
  <2>3. \A t \in T : k[t] = 0 /\ f[t] = 0
    BY <2>1, <2>2 DEF Init, Counts, NoRow, Starts
  <2>4. \A c \in Callers : o[c] = 0
    BY <2>1 DEF Init, Owed, NoCall
  <2>5. Total(k, T) = 0 /\ Total(f, T) = 0 /\ Total(o, Callers) = 0
    BY <2>2, <2>3, <2>4, Options, TotalZero
  <2> QED  BY <2>1, <2>5
<1> QED  BY <1>1, <1>5, <1>6 DEF SlidingInv

LEMMA NextSliding == RateInv /\ SlidingInv /\ [Next]_vars => SlidingInv'
<1> SUFFICES ASSUME RateInv, SlidingInv, [Next]_vars  PROVE SlidingInv'
  OBVIOUS
<1>1. TypeOK /\ ClocksAgree /\ RowsLast
  BY DEF RateInv
<1>2. limiter' = limiter
  BY DEF Next, vars, ghosts, Call, Start, CheckBlock, HitFixed, RewardBlock, RewardWindow, StartSliding,
     HitSliding, StartConsume, Consume, Block, Delete, CleanupExpired, Tick
<1>3. CASE limiter # "sliding"
  BY <1>2, <1>3 DEF SlidingInv
<1>4. CASE limiter = "sliding"
  <2>1. CASE \E c \in Callers : Call(c)
    <3>1. PICK c \in Callers, cost \in Costs : Start(c, "hit", cost)
      BY <1>4, <2>1 DEF Call
    <3> QED  BY <1>1, <1>4, <3>1, CallSliding
  <2>2. CASE \E c \in Callers : StartSliding(c)
    BY <1>1, <1>4, <2>2, ReadSliding
  <2>3. CASE \E c \in Callers : HitSliding(c)
    BY <1>1, <1>4, <2>3, CountSliding
  <2>4. CASE \E K \in SUBSET Starts : CleanupExpired(K)
    BY <1>1, <1>4, <2>4, CleanupSliding
  <2>5. CASE Tick
    BY <1>1, <1>4, <2>5, TickSliding
  <2>6. CASE UNCHANGED vars
    BY <2>6 DEF vars, ghosts, SlidingInv, InFlight, Recorded, RoomLeft, AskedFor, RefusedRightly, LastWindow,
       Since, Counts, Owed, Passed, At
  <2> QED
    BY <1>4, <2>1, <2>2, <2>3, <2>4, <2>5, <2>6 DEF Next, CheckBlock, HitFixed, RewardBlock, RewardWindow,
       StartConsume, Consume, Block, Delete, At
<1> QED  BY <1>3, <1>4

\* A sliding window admits no more than the limit and one hit of each caller,
\* and refuses no hit unless the others of the last Window exceed the limit:
\* the rows of any Window count no more than was asked for in it, and the hits
\* let pass and not counted yet are at most one of each caller.
THEOREM SlidingKept == Spec => []SlidingBound
<1>1. TypeOK /\ SlidingInv => SlidingBound
  <2> SUFFICES ASSUME TypeOK, SlidingInv, limiter = "sliding"  PROVE SlidingBound
    BY DEF SlidingBound, At
  <2>1. Total(admitted, LastWindow(clock)) <= Limit + Cardinality(Callers) * Max(Costs)
    <3>1. PICK a, T : a = admitted /\ T = LastWindow(clock)
      OBVIOUS
    <3>2. Total(a, T) \in Nat
      <4>1. T \in SUBSET Times /\ IsFiniteSet(T)
        <5>1. clock \in Int
          BY Addends
        <5> QED  BY <3>1, <5>1, Windows
      <4>2. \A t \in T : a[t] \in Nat
        BY <3>1, <4>1, Addends
      <4> QED  BY <4>1, <4>2, TotalType
    <3>3. PICK M \in Nat, m \in Nat, n \in Nat :
              M = Max(Costs) /\ m = Cardinality(Passed) /\ n = Cardinality(Callers)
      BY MaxCost, PassedFinite
    <3>4. Total(a, T) + M * m <= Limit + M * n
      BY <3>1, <3>3 DEF SlidingInv, RoomLeft
    <3>5. M * m \in Nat /\ M * n = n * M /\ M * n \in Nat
      BY <3>3
    <3>6. Total(a, T) <= Limit + n * M
      BY <3>2, <3>4, <3>5, Options
    <3> QED  BY <3>1, <3>3, <3>6
  <2>2. RefusedRightly
    BY DEF SlidingInv
  <2> QED  BY <2>1, <2>2 DEF SlidingBound, RefusedRightly
<1>2. RateInv => TypeOK
  BY DEF RateInv
<1> QED  BY <1>1, <1>2, RateInvariant, InitSliding, NextSliding, PTL DEF Spec
=============================================================================
