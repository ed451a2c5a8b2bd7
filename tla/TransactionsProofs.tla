------------------------- MODULE TransactionsProofs -------------------------
(***************************************************************************)
(* What runs on the pool, proved for any calls, locks and pools: type      *)
(* correctness, clean connections, and that sections and execs implement   *)
(* AtomicCalls.  All of it rests on one inductive invariant.               *)
(***************************************************************************)
EXTENDS Transactions, FiniteSetTheorems, TLAPS

\* The phases in which a call has a connection.
Holding == {"query", "begin", "configure", "lock", "work", "committed", "rollback"}

-----------------------------------------------------------------------------
(* The inductive invariant.                                                *)

Typed ==
    /\ pool \in Pools \cup {0} /\ made \in Pools \cup {0} /\ closing \in Pools \cup {0}
    /\ ending \subseteq Pools
    /\ closes \in 0..MaxCloses /\ faults \in 0..MaxFaults
    /\ waiting \in [Pools -> Seq(Callers)]
    /\ session \in [Sessions -> Session]
    /\ call \in [Callers -> Call]
    /\ operations \in Seq(Commands) /\ added \in 0..MaxCommands
    /\ counted \in [Locks -> Nat] /\ table \in Seq(Commands) /\ committed \subseteq Callers

\* Every import that is under way may still make a pool.
PoolsBounded == made + Cardinality(Loading) <= MaxPools

\* A call in such a phase has one connection, and no other call has any.
Users ==
    /\ \A s \in Sessions : session[s].user # Nobody => call[session[s].user].pc \in Holding
    /\ \A c \in Callers : call[c].pc \in Holding => \E s \in Sessions : session[s].user = c
    /\ \A s, t \in Sessions : session[s].user = session[t].user /\ session[s].user # Nobody => s = t

\* A call waits for one pool, once.
Queued ==
    /\ \A p \in Pools : \A i \in DOMAIN waiting[p] : call[waiting[p][i]].pc = "waiting"
    /\ \A p, q \in Pools : \A i \in DOMAIN waiting[p], j \in DOMAIN waiting[q] :
           waiting[p][i] = waiting[q][j] => p = q /\ i = j

\* What is true of the record w of a call c, by its phase, when the calls of C
\* are committed.
CallOk(c, w, C) ==
    /\ IF w.pc = "idle" THEN w = NoCall ELSE w.job \in Jobs
    /\ w.pc = "query" => w.job = "query"
    /\ w.pc \in Holding \ {"query"} => w.job # "query"
    /\ w.pc \in {"configure", "lock"} => w.job # "exec"
    /\ w.pc # "settled" => w.result = "none"
    /\ w.pc \in {"loading", "waiting", "query", "begin", "configure", "lock"} =>
           w.step = 0 /\ ~w.swallowed
    /\ w.step <= (IF w.job = "exec" THEN Len(w.batch) ELSE 2)
    /\ c \in C => w.pc \in {"committed", "rollback", "settled"}
    /\ w.pc = "committed" /\ ~w.swallowed => c \in C
CallsOk == \A c \in Callers : CallOk(c, call[c], committed)

\* A connection without a transaction, as the pool may give it away.
Rested(v) == v.tx = "none" /\ v.locks = {} /\ ~v.timeout

\* What is true of the connection v of a call c with the record w: its
\* transaction is begun, and its lock is held, where the code thinks so, unless
\* the connection is broken.
HeldOk(c, w, v) ==
    /\ v.locks \subseteq {LockOf[c]}
    /\ w.pc \in {"query", "begin", "committed"} => Rested(v)
    /\ w.pc \in {"configure", "lock"} /\ v.up => v.tx = "open" /\ v.locks = {}
    /\ w.pc = "work" /\ v.up =>
           /\ v.tx # "none"
           /\ v.locks = IF w.job = "exec" THEN {} ELSE {LockOf[c]}
           /\ v.tx = "failed" => w.swallowed
SessionsOk ==
    \A s \in Sessions :
        /\ session[s].user = Nobody \/ ~session[s].up => Rested(session[s])
        /\ session[s].user # Nobody => HeldOk(session[s].user, call[session[s].user], session[s])

\* A section that can still commit has read the count that is there, in f.
SawLast(c, w, v, f) ==
    w.pc = "work" /\ w.job # "exec" /\ w.step > 0 /\ v.up /\ v.tx = "open" =>
        w.saw = f[LockOf[c]]
CountsOk ==
    \A s \in Sessions : session[s].user # Nobody =>
        SawLast(session[s].user, call[session[s].user], session[s], counted)

LocksExclude ==
    \A s, t \in Sessions : \A k \in Locks :
        k \in session[s].locks /\ k \in session[t].locks => s = t

\* The commands there are have been added; the next is another.
Numbered(commands, n) == \A i \in DOMAIN commands : commands[i] <= n
CommandsOk ==
    /\ Numbered(operations, added) /\ Numbered(table, added)
    /\ \A c \in Callers : Numbered(call[c].batch, added)

TransactionInv == /\ Typed /\ PoolsBounded /\ Users /\ Queued /\ CallsOk
                  /\ SessionsOk /\ CountsOk /\ LocksExclude /\ CommandsOk

-----------------------------------------------------------------------------
(* Steps of a call that has a connection.                                  *)

LEMMA MineIs ==
    ASSUME Users, NEW c \in Callers, call[c].pc \in Holding
    PROVE  /\ Mine(c) \in Sessions /\ session[Mine(c)].user = c
           /\ \A s \in Sessions : session[s].user = c => s = Mine(c)
<1>1. PICK s \in Sessions : session[s].user = c
  BY DEF Users
<1>2. Mine(c) \in Sessions /\ session[Mine(c)].user = c
  BY <1>1 DEF Mine
<1> QED  BY <1>2, CallAssumption DEF Users

\* The connection of c becomes v and its record w, and the rest that changes
\* is what its COMMIT changes.
Local(c, s, v, w) ==
    /\ session' = [session EXCEPT ![s] = v] /\ call' = [call EXCEPT ![c] = w]
    /\ v \in Session /\ w \in Call
    /\ w.pc \in Holding \cup {"settled"} /\ w.batch = call[c].batch
    /\ v.user = IF w.pc = "settled" THEN Nobody ELSE c
    /\ UNCHANGED <<adapter, waiting, pipeline>>
    /\ faults' \in 0..MaxFaults
    /\ committed' \in {committed, committed \cup {c}}
    /\ table' \in {table, table \o call[c].batch}
    /\ counted' \in [Locks -> Nat]
    /\ \A k \in Locks \ session[s].locks : counted'[k] = counted[k]
    /\ CallOk(c, w, committed')
    /\ w.pc = "settled" \/ ~v.up => Rested(v)
    /\ w.pc # "settled" => HeldOk(c, w, v) /\ SawLast(c, w, v, counted')
    /\ \A k \in v.locks : k \in session[s].locks \/ Free(k)

LEMMA LocalStep ==
    ASSUME TransactionInv, NEW c \in Callers, NEW s \in Sessions, session[s].user = c,
           NEW v, NEW w, Local(c, s, v, w)
    PROVE  TransactionInv'
<1> USE CallAssumption DEF Local
<1>1. Typed'
  <2>1. table' \in Seq(Commands)
    <3>1. table \in Seq(Commands) /\ call[c].batch \in Seq(Commands)
      BY DEF TransactionInv, Typed, Call
    <3>2. table \o call[c].batch \in Seq(Commands)
      BY <3>1
    <3> QED  BY <3>1, <3>2
  <2> QED  BY <2>1 DEF TransactionInv, Typed, adapter, pipeline
<1>2. call[c].pc \in Holding /\ \A t \in Sessions : session[t].user = c => t = s
  BY DEF TransactionInv, Users
<1>3. /\ \A d \in Callers \ {c} : call'[d] = call[d]
      /\ call'[c] = w
      /\ \A t \in Sessions \ {s} : session'[t] = session[t]
      /\ session'[s] = v
  BY DEF TransactionInv, Typed
<1>4. PoolsBounded'
  <2>1. Loading' = Loading
    BY <1>2, <1>3 DEF Loading, At, Holding
  <2> QED  BY <2>1 DEF TransactionInv, PoolsBounded, adapter
<1>5. Users'
  <2>1. \A t \in Sessions \ {s} : session[t].user \in Callers \cup {Nobody} /\ session[t].user # c
    BY <1>2 DEF TransactionInv, Typed, Session
  <2>2. \A t \in Sessions : session'[t].user # Nobody => call'[session'[t].user].pc \in Holding
    BY <1>3, <2>1 DEF TransactionInv, Users
  <2>3. \A d \in Callers : call'[d].pc \in Holding => \E t \in Sessions : session'[t].user = d
    <3> TAKE d \in Callers
    <3>1. CASE d = c
      BY <1>3, <3>1 DEF Holding
    <3>2. CASE d # c
      BY <1>3, <3>2 DEF TransactionInv, Users
    <3> QED  BY <3>1, <3>2
  <2>4. \A t, u \in Sessions :
          session'[t].user = session'[u].user /\ session'[t].user # Nobody => t = u
    BY <1>3, <2>1 DEF TransactionInv, Users
  <2> QED  BY <2>2, <2>3, <2>4 DEF Users
<1>6. Queued'
  <2>1. ASSUME NEW p \in Pools, NEW i \in DOMAIN waiting[p]
        PROVE  waiting[p][i] \in Callers \ {c}
    <3>1. waiting[p] \in Seq(Callers)
      BY DEF TransactionInv, Typed
    <3>2. call[waiting[p][i]].pc = "waiting"
      BY DEF TransactionInv, Queued
    <3> QED  BY <1>2, <3>1, <3>2 DEF Holding
  <2> QED  BY <1>3, <2>1 DEF TransactionInv, Queued
<1>7. CallsOk'
  <2> SUFFICES ASSUME NEW d \in Callers  PROVE CallOk(d, call'[d], committed')
    BY DEF CallsOk
  <2>1. CASE d = c
    BY <1>3, <2>1
  <2>2. CASE d # c
    <3>1. CallOk(d, call[d], committed)
      BY DEF TransactionInv, CallsOk
    <3>2. d \in committed' <=> d \in committed
      BY <2>2
    <3> QED  BY <1>3, <2>2, <3>1, <3>2 DEF CallOk
  <2> QED  BY <2>1, <2>2
<1>8. SessionsOk'
  <2> SUFFICES ASSUME NEW t \in Sessions
               PROVE  /\ session'[t].user = Nobody \/ ~session'[t].up => Rested(session'[t])
                      /\ session'[t].user # Nobody =>
                             HeldOk(session'[t].user, call'[session'[t].user], session'[t])
    BY DEF SessionsOk
  <2>1. CASE t = s
    BY <1>3, <2>1
  <2>2. CASE t # s
    <3>1. session[t].user \in Callers \cup {Nobody} /\ session[t].user # c
      BY <1>2, <2>2 DEF TransactionInv, Typed, Session
    <3> QED  BY <1>3, <2>2, <3>1 DEF TransactionInv, SessionsOk
  <2> QED  BY <2>1, <2>2
<1>9. CountsOk'
  <2> SUFFICES ASSUME NEW t \in Sessions, session'[t].user # Nobody
               PROVE  SawLast(session'[t].user, call'[session'[t].user], session'[t], counted')
    BY DEF CountsOk
  <2>1. CASE t = s
    BY <1>3, <2>1 DEF SawLast
  <2>2. CASE t # s
    <3> DEFINE d == session[t].user
    <3>1. d \in Callers \ {c} /\ session'[t] = session[t] /\ call'[d] = call[d]
      BY <1>2, <1>3, <2>2 DEF TransactionInv, Typed, Session
    <3>2. SawLast(d, call[d], session[t], counted) /\ HeldOk(d, call[d], session[t])
      BY <3>1 DEF TransactionInv, CountsOk, SessionsOk
    <3>3. ASSUME LockOf[d] \in session[t].locks  PROVE counted'[LockOf[d]] = counted[LockOf[d]]
      BY <2>2, <3>1, <3>3 DEF TransactionInv, LocksExclude
    <3> QED  BY <3>1, <3>2, <3>3 DEF SawLast, HeldOk
  <2> QED  BY <2>1, <2>2
<1>10. LocksExclude'
  BY <1>3 DEF TransactionInv, LocksExclude, Free
<1>11. CommandsOk'
  <2>1. Numbered(table', added')
    <3>1. table \in Seq(Commands) /\ call[c].batch \in Seq(Commands)
      BY DEF TransactionInv, Typed, Call
    <3>2. Numbered(table, added) /\ Numbered(call[c].batch, added)
      BY DEF TransactionInv, CommandsOk
    <3>3. Numbered(table \o call[c].batch, added)
      BY <3>1, <3>2 DEF Numbered
    <3> QED  BY <3>2, <3>3 DEF pipeline
  <2>2. \A d \in Callers : call'[d].batch = call[d].batch
    BY <1>3
  <2> QED  BY <2>1, <2>2 DEF TransactionInv, CommandsOk, pipeline
<1> QED
  BY <1>1, <1>4, <1>5, <1>6, <1>7, <1>8, <1>9, <1>10, <1>11 DEF TransactionInv

\* What the invariant says of a call with a connection.
LEMMA WhatIsHeld ==
    ASSUME TransactionInv, NEW c \in Callers, call[c].pc \in Holding
    PROVE  /\ Mine(c) \in Sessions /\ session[Mine(c)].user = c
           /\ call[c] \in Call /\ session[Mine(c)] \in Session /\ Nobody # c
           /\ CallOk(c, call[c], committed)
           /\ HeldOk(c, call[c], session[Mine(c)])
           /\ ~session[Mine(c)].up => Rested(session[Mine(c)])
           /\ SawLast(c, call[c], session[Mine(c)], counted)
<1>1. Mine(c) \in Sessions /\ session[Mine(c)].user = c
  BY MineIs DEF TransactionInv
<1> QED
  BY <1>1, CallAssumption DEF TransactionInv, Typed, CallsOk, SessionsOk, CountsOk

(* One lemma for each action of a call that has a connection. *)

LEMMA BeginStep ==
    ASSUME TransactionInv, NEW c \in Callers, Begin(c)
    PROVE  TransactionInv'
<1> DEFINE s == Mine(c)
           v == [session[s] EXCEPT !.tx = "open"]
           w == [call[c] EXCEPT !.pc = IF call[c].job = "exec" THEN "work"
                                       ELSE IF c \in Impatient THEN "configure" ELSE "lock"]
<1>1. call[c].pc = "begin"
  BY DEF Begin, At
<1>2. /\ s \in Sessions /\ session[s].user = c /\ call[c] \in Call /\ session[s] \in Session
      /\ CallOk(c, call[c], committed) /\ HeldOk(c, call[c], session[s])
      /\ ~session[s].up => Rested(session[s])
      /\ SawLast(c, call[c], session[s], counted)
  BY <1>1, WhatIsHeld DEF Holding
<1>3. v \in Session /\ w \in Call
  BY <1>2 DEF Session, Call, Phases
<1>4. CallOk(c, w, committed')
  BY <1>1, <1>2 DEF Begin, CallOk, Holding, Jobs, Call, database
<1>5. /\ w.pc = "settled" \/ ~v.up => Rested(v)
      /\ w.pc # "settled" => HeldOk(c, w, v) /\ SawLast(c, w, v, counted')
      /\ \A k \in v.locks : k \in session[s].locks \/ Free(k)
  <2>1. w.pc = "settled" \/ ~v.up => Rested(v)
    BY <1>1, <1>2 DEF Begin, Alive, CallOk, HeldOk, SawLast, Rested, Holding, Session, Call, database
  <2>2. w.pc # "settled" => HeldOk(c, w, v) /\ SawLast(c, w, v, counted')
    BY <1>1, <1>2 DEF Begin, Alive, CallOk, HeldOk, SawLast, Rested, Holding, Session, Call, database
  <2>3. \A k \in v.locks : k \in session[s].locks \/ Free(k)
    BY <1>1, <1>2 DEF Begin, Alive, CallOk, HeldOk, SawLast, Rested, Holding, Session, Call, database
  <2> QED  BY <2>1, <2>2, <2>3
<1>6. session' = [session EXCEPT ![s] = v] /\ call' = [call EXCEPT ![c] = w]
  BY <1>1, <1>2 DEF Begin, Go, Settled, TransactionInv, Typed
<1>7. /\ w.pc \in Holding \cup {"settled"} /\ w.batch = call[c].batch
      /\ v.user = IF w.pc = "settled" THEN Nobody ELSE c
  BY <1>1, <1>2 DEF Session, Call, Holding
<1>8. faults' \in 0..MaxFaults
  BY BoundAssumption DEF Begin, TransactionInv, Typed
<1>9. UNCHANGED <<adapter, waiting, pipeline, database>>
  BY <1>2 DEF Begin, database
<1> HIDE DEF s, v, w
<1>10. Local(c, s, v, w)
  BY <1>2, <1>3, <1>4, <1>5, <1>6, <1>7, <1>8, <1>9 DEF Local, TransactionInv, Typed, database
<1> QED  BY <1>2, <1>10, LocalStep

LEMMA ConfigureStep ==
    ASSUME TransactionInv, NEW c \in Callers, Configure(c)
    PROVE  TransactionInv'
<1> DEFINE s == Mine(c)
           v == [session[s] EXCEPT !.timeout = TRUE]
           w == [call[c] EXCEPT !.pc = "lock"]
<1>1. call[c].pc = "configure"
  BY DEF Configure, At
<1>2. /\ s \in Sessions /\ session[s].user = c /\ call[c] \in Call /\ session[s] \in Session
      /\ CallOk(c, call[c], committed) /\ HeldOk(c, call[c], session[s])
      /\ ~session[s].up => Rested(session[s])
      /\ SawLast(c, call[c], session[s], counted)
  BY <1>1, WhatIsHeld DEF Holding
<1>3. v \in Session /\ w \in Call
  BY <1>2 DEF Session, Call, Phases
<1>4. CallOk(c, w, committed')
  BY <1>1, <1>2 DEF Configure, CallOk, Holding, Jobs, Call, database
<1>5. /\ w.pc = "settled" \/ ~v.up => Rested(v)
      /\ w.pc # "settled" => HeldOk(c, w, v) /\ SawLast(c, w, v, counted')
      /\ \A k \in v.locks : k \in session[s].locks \/ Free(k)
  <2>1. w.pc = "settled" \/ ~v.up => Rested(v)
    BY <1>1, <1>2 DEF Configure, Alive, CallOk, HeldOk, SawLast, Rested, Holding, Session, Call, database
  <2>2. w.pc # "settled" => HeldOk(c, w, v) /\ SawLast(c, w, v, counted')
    BY <1>1, <1>2 DEF Configure, Alive, CallOk, HeldOk, SawLast, Rested, Holding, Session, Call, database
  <2>3. \A k \in v.locks : k \in session[s].locks \/ Free(k)
    BY <1>1, <1>2 DEF Configure, Alive, CallOk, HeldOk, SawLast, Rested, Holding, Session, Call, database
  <2> QED  BY <2>1, <2>2, <2>3
<1>6. session' = [session EXCEPT ![s] = v] /\ call' = [call EXCEPT ![c] = w]
  BY <1>1, <1>2 DEF Configure, Go, Settled, TransactionInv, Typed, Configured
<1>7. /\ w.pc \in Holding \cup {"settled"} /\ w.batch = call[c].batch
      /\ v.user = IF w.pc = "settled" THEN Nobody ELSE c
  BY <1>1, <1>2 DEF Session, Call, Holding
<1>8. faults' \in 0..MaxFaults
  BY BoundAssumption DEF Configure, TransactionInv, Typed
<1>9. UNCHANGED <<adapter, waiting, pipeline, database>>
  BY <1>2 DEF Configure, database
<1> HIDE DEF s, v, w
<1>10. Local(c, s, v, w)
  BY <1>2, <1>3, <1>4, <1>5, <1>6, <1>7, <1>8, <1>9 DEF Local, TransactionInv, Typed, database
<1> QED  BY <1>2, <1>10, LocalStep

LEMMA LockStep ==
    ASSUME TransactionInv, NEW c \in Callers, Lock(c)
    PROVE  TransactionInv'
<1> DEFINE s == Mine(c)
           v == [session[s] EXCEPT !.locks = {LockOf[c]}]
           w == [call[c] EXCEPT !.pc = "work"]
<1>1. call[c].pc = "lock"
  BY DEF Lock, At
<1>2. /\ s \in Sessions /\ session[s].user = c /\ call[c] \in Call /\ session[s] \in Session
      /\ CallOk(c, call[c], committed) /\ HeldOk(c, call[c], session[s])
      /\ ~session[s].up => Rested(session[s])
      /\ SawLast(c, call[c], session[s], counted)
  BY <1>1, WhatIsHeld DEF Holding
<1>3. v \in Session /\ w \in Call
  BY <1>2, CallAssumption DEF Session, Call, Phases
<1>4. CallOk(c, w, committed')
  BY <1>1, <1>2 DEF Lock, CallOk, Holding, Jobs, Call, database
<1>5. /\ w.pc = "settled" \/ ~v.up => Rested(v)
      /\ w.pc # "settled" => HeldOk(c, w, v) /\ SawLast(c, w, v, counted')
      /\ \A k \in v.locks : k \in session[s].locks \/ Free(k)
  <2>1. w.pc = "settled" \/ ~v.up => Rested(v)
    BY <1>1, <1>2 DEF Lock, Alive, CallOk, HeldOk, SawLast, Rested, Holding, Session, Call, database
  <2>2. w.pc # "settled" => HeldOk(c, w, v) /\ SawLast(c, w, v, counted')
    BY <1>1, <1>2 DEF Lock, Alive, CallOk, HeldOk, SawLast, Rested, Holding, Session, Call, database
  <2>3. \A k \in v.locks : k \in session[s].locks \/ Free(k)
    BY <1>1, <1>2 DEF Lock, Alive, CallOk, HeldOk, SawLast, Rested, Holding, Session, Call, database
  <2> QED  BY <2>1, <2>2, <2>3
<1>6. session' = [session EXCEPT ![s] = v] /\ call' = [call EXCEPT ![c] = w]
  BY <1>1, <1>2 DEF Lock, Go, Settled, TransactionInv, Typed, Locked
<1>7. /\ w.pc \in Holding \cup {"settled"} /\ w.batch = call[c].batch
      /\ v.user = IF w.pc = "settled" THEN Nobody ELSE c
  BY <1>1, <1>2 DEF Session, Call, Holding
<1>8. faults' \in 0..MaxFaults
  BY BoundAssumption DEF Lock, TransactionInv, Typed
<1>9. UNCHANGED <<adapter, waiting, pipeline, database>>
  BY <1>2 DEF Lock, database
<1> HIDE DEF s, v, w
<1>10. Local(c, s, v, w)
  BY <1>2, <1>3, <1>4, <1>5, <1>6, <1>7, <1>8, <1>9 DEF Local, TransactionInv, Typed, database
<1> QED  BY <1>2, <1>10, LocalStep

LEMMA RefusedStep ==
    ASSUME TransactionInv, NEW c \in Callers, Refused(c)
    PROVE  TransactionInv'
<1> DEFINE s == Mine(c)
           v == IF call[c].job = "try" THEN session[s]
                ELSE [session[s] EXCEPT !.tx = "failed"]
           w == [call[c] EXCEPT !.pc = "rollback"]
<1>1. call[c].pc = "lock"
  BY DEF Refused, At
<1>2. /\ s \in Sessions /\ session[s].user = c /\ call[c] \in Call /\ session[s] \in Session
      /\ CallOk(c, call[c], committed) /\ HeldOk(c, call[c], session[s])
      /\ ~session[s].up => Rested(session[s])
      /\ SawLast(c, call[c], session[s], counted)
  BY <1>1, WhatIsHeld DEF Holding
<1>3. v \in Session /\ w \in Call
  BY <1>2 DEF Session, Call, Phases
<1>4. CallOk(c, w, committed')
  BY <1>1, <1>2 DEF Refused, CallOk, Holding, Jobs, Call, database
<1>5. /\ w.pc = "settled" \/ ~v.up => Rested(v)
      /\ w.pc # "settled" => HeldOk(c, w, v) /\ SawLast(c, w, v, counted')
      /\ \A k \in v.locks : k \in session[s].locks \/ Free(k)
  <2>1. w.pc = "settled" \/ ~v.up => Rested(v)
    BY <1>1, <1>2 DEF Refused, Alive, CallOk, HeldOk, SawLast, Rested, Holding, Session, Call, database
  <2>2. w.pc # "settled" => HeldOk(c, w, v) /\ SawLast(c, w, v, counted')
    BY <1>1, <1>2 DEF Refused, Alive, CallOk, HeldOk, SawLast, Rested, Holding, Session, Call, database
  <2>3. \A k \in v.locks : k \in session[s].locks \/ Free(k)
    BY <1>1, <1>2 DEF Refused, Alive, CallOk, HeldOk, SawLast, Rested, Holding, Session, Call, database
  <2> QED  BY <2>1, <2>2, <2>3
<1>6. session' = [session EXCEPT ![s] = v] /\ call' = [call EXCEPT ![c] = w]
  BY <1>1, <1>2 DEF Refused, Go, Settled, TransactionInv, Typed
<1>7. /\ w.pc \in Holding \cup {"settled"} /\ w.batch = call[c].batch
      /\ v.user = IF w.pc = "settled" THEN Nobody ELSE c
  BY <1>1, <1>2 DEF Session, Call, Holding
<1>8. faults' \in 0..MaxFaults
  BY BoundAssumption DEF Refused, TransactionInv, Typed
<1>9. UNCHANGED <<adapter, waiting, pipeline, database>>
  BY <1>2 DEF Refused, database
<1> HIDE DEF s, v, w
<1>10. Local(c, s, v, w)
  BY <1>2, <1>3, <1>4, <1>5, <1>6, <1>7, <1>8, <1>9 DEF Local, TransactionInv, Typed, database
<1> QED  BY <1>2, <1>10, LocalStep

LEMMA StatementStep ==
    ASSUME TransactionInv, NEW c \in Callers, Statement(c)
    PROVE  TransactionInv'
<1> DEFINE s == Mine(c)
           v == session[s]
           w == [call[c] EXCEPT !.step = @ + 1,
                             !.saw = IF call[c].job # "exec" /\ call[c].step = 0
                                     THEN counted[LockOf[c]] ELSE @]
<1>1. call[c].pc = "work"
  BY DEF Statement, At, Working
<1>2. /\ s \in Sessions /\ session[s].user = c /\ call[c] \in Call /\ session[s] \in Session
      /\ CallOk(c, call[c], committed) /\ HeldOk(c, call[c], session[s])
      /\ ~session[s].up => Rested(session[s])
      /\ SawLast(c, call[c], session[s], counted)
  BY <1>1, WhatIsHeld DEF Holding
<1>k. counted[LockOf[c]] \in Nat /\ call[c].step + 1 \in Nat /\ call[c].saw \in Nat
  BY <1>2, CallAssumption DEF TransactionInv, Typed, Call
<1>3. v \in Session /\ w \in Call
  BY <1>2, <1>k DEF Session, Call, Phases
<1>4. CallOk(c, w, committed')
  BY <1>1, <1>2 DEF Statement, CallOk, Holding, Jobs, Call, database, Left, Statements
<1>5. /\ w.pc = "settled" \/ ~v.up => Rested(v)
      /\ w.pc # "settled" => HeldOk(c, w, v) /\ SawLast(c, w, v, counted')
      /\ \A k \in v.locks : k \in session[s].locks \/ Free(k)
  <2>1. w.pc = "settled" \/ ~v.up => Rested(v)
    BY <1>1, <1>2 DEF Statement, Alive, CallOk, HeldOk, SawLast, Rested, Holding, Session, Call, database, Left, Statements
  <2>2. w.pc # "settled" => HeldOk(c, w, v) /\ SawLast(c, w, v, counted')
    BY <1>1, <1>2 DEF Statement, Alive, CallOk, HeldOk, SawLast, Rested, Holding, Session, Call, database, Left, Statements
  <2>3. \A k \in v.locks : k \in session[s].locks \/ Free(k)
    BY <1>1, <1>2 DEF Statement, Alive, CallOk, HeldOk, SawLast, Rested, Holding, Session, Call, database, Left, Statements
  <2> QED  BY <2>1, <2>2, <2>3
<1>6. session' = [session EXCEPT ![s] = v] /\ call' = [call EXCEPT ![c] = w]
  BY <1>1, <1>2 DEF Statement, Go, Settled, TransactionInv, Typed
<1>7. /\ w.pc \in Holding \cup {"settled"} /\ w.batch = call[c].batch
      /\ v.user = IF w.pc = "settled" THEN Nobody ELSE c
  BY <1>1, <1>2 DEF Session, Call, Holding
<1>8. faults' \in 0..MaxFaults
  BY BoundAssumption DEF Statement, TransactionInv, Typed
<1>9. UNCHANGED <<adapter, waiting, pipeline, database>>
  BY <1>2 DEF Statement, database
<1> HIDE DEF s, v, w
<1>10. Local(c, s, v, w)
  BY <1>2, <1>3, <1>4, <1>5, <1>6, <1>7, <1>8, <1>9 DEF Local, TransactionInv, Typed, database
<1> QED  BY <1>2, <1>10, LocalStep

LEMMA StatementFailsStep ==
    ASSUME TransactionInv, NEW c \in Callers, StatementFails(c)
    PROVE  TransactionInv'
<1> DEFINE s == Mine(c)
           v == [session[s] EXCEPT !.tx = "failed"]
<1>1. call[c].pc = "work"
  BY DEF StatementFails, At, Working
<1>2. /\ s \in Sessions /\ session[s].user = c /\ call[c] \in Call /\ session[s] \in Session
      /\ CallOk(c, call[c], committed) /\ HeldOk(c, call[c], session[s])
      /\ ~session[s].up => Rested(session[s])
      /\ SawLast(c, call[c], session[s], counted)
  BY <1>1, WhatIsHeld DEF Holding
<1>w. PICK w \in {[call[c] EXCEPT !.pc = "rollback"],
                  [call[c] EXCEPT !.step = Statements(c), !.swallowed = TRUE]} : call' = [call EXCEPT ![c] = w]
  BY DEF StatementFails, Go, Settled, Statements
<1>k. Statements(c) \in Nat /\ Statements(c) = IF call[c].job = "exec" THEN Len(call[c].batch) ELSE 2
  BY <1>2 DEF Statements, Call
<1>r. /\ w.job = call[c].job /\ w.batch = call[c].batch /\ w.result = call[c].result
      /\ \/ w.pc = "rollback" /\ w.step = call[c].step
         \/ w.pc = "work" /\ w.step = Statements(c) /\ w.swallowed = TRUE
  BY <1>1, <1>2, <1>w DEF Call
<1>3. v \in Session /\ w \in Call
  BY <1>2, <1>k, <1>w DEF Session, Call, Phases
<1>4. CallOk(c, w, committed')
  BY <1>1, <1>2, <1>k, <1>r DEF StatementFails, CallOk, Holding, Jobs, Call, database
<1>5. /\ w.pc = "settled" \/ ~v.up => Rested(v)
      /\ w.pc # "settled" => HeldOk(c, w, v) /\ SawLast(c, w, v, counted')
      /\ \A k \in v.locks : k \in session[s].locks \/ Free(k)
  <2>1. w.pc = "settled" \/ ~v.up => Rested(v)
    BY <1>1, <1>2, <1>r, <1>w DEF StatementFails, Alive, CallOk, HeldOk, SawLast, Rested, Holding, Session, Call, database
  <2>2. w.pc # "settled" => HeldOk(c, w, v) /\ SawLast(c, w, v, counted')
    BY <1>1, <1>2, <1>r, <1>w DEF StatementFails, Alive, CallOk, HeldOk, SawLast, Rested, Holding, Session, Call, database
  <2>3. \A k \in v.locks : k \in session[s].locks \/ Free(k)
    BY <1>1, <1>2, <1>r, <1>w DEF StatementFails, Alive, CallOk, HeldOk, SawLast, Rested, Holding, Session, Call, database
  <2> QED  BY <2>1, <2>2, <2>3
<1>6. session' = [session EXCEPT ![s] = v] /\ call' = [call EXCEPT ![c] = w]
  BY <1>1, <1>2, <1>w DEF StatementFails, Go, Settled, TransactionInv, Typed
<1>7. /\ w.pc \in Holding \cup {"settled"} /\ w.batch = call[c].batch
      /\ v.user = IF w.pc = "settled" THEN Nobody ELSE c
  BY <1>1, <1>2 DEF Session, Call, Holding
<1>8. faults' \in 0..MaxFaults
  BY BoundAssumption DEF StatementFails, TransactionInv, Typed, Fault
<1>9. UNCHANGED <<adapter, waiting, pipeline, database>>
  BY <1>2 DEF StatementFails, database
<1> HIDE DEF s, v
<1>10. Local(c, s, v, w)
  BY <1>2, <1>3, <1>4, <1>5, <1>6, <1>7, <1>8, <1>9 DEF Local, TransactionInv, Typed, database
<1> QED  BY <1>2, <1>10, LocalStep

LEMMA ThrowStep ==
    ASSUME TransactionInv, NEW c \in Callers, Throw(c)
    PROVE  TransactionInv'
<1> DEFINE s == Mine(c)
           v == session[s]
           w == [call[c] EXCEPT !.pc = "rollback"]
<1>1. call[c].pc = "work"
  BY DEF Throw, At, Working
<1>2. /\ s \in Sessions /\ session[s].user = c /\ call[c] \in Call /\ session[s] \in Session
      /\ CallOk(c, call[c], committed) /\ HeldOk(c, call[c], session[s])
      /\ ~session[s].up => Rested(session[s])
      /\ SawLast(c, call[c], session[s], counted)
  BY <1>1, WhatIsHeld DEF Holding
<1>3. v \in Session /\ w \in Call
  BY <1>2 DEF Session, Call, Phases
<1>4. CallOk(c, w, committed')
  BY <1>1, <1>2 DEF Throw, CallOk, Holding, Jobs, Call, database
<1>5. /\ w.pc = "settled" \/ ~v.up => Rested(v)
      /\ w.pc # "settled" => HeldOk(c, w, v) /\ SawLast(c, w, v, counted')
      /\ \A k \in v.locks : k \in session[s].locks \/ Free(k)
  <2>1. w.pc = "settled" \/ ~v.up => Rested(v)
    BY <1>1, <1>2 DEF Throw, Alive, CallOk, HeldOk, SawLast, Rested, Holding, Session, Call, database
  <2>2. w.pc # "settled" => HeldOk(c, w, v) /\ SawLast(c, w, v, counted')
    BY <1>1, <1>2 DEF Throw, Alive, CallOk, HeldOk, SawLast, Rested, Holding, Session, Call, database
  <2>3. \A k \in v.locks : k \in session[s].locks \/ Free(k)
    BY <1>1, <1>2 DEF Throw, Alive, CallOk, HeldOk, SawLast, Rested, Holding, Session, Call, database
  <2> QED  BY <2>1, <2>2, <2>3
<1>6. session' = [session EXCEPT ![s] = v] /\ call' = [call EXCEPT ![c] = w]
  BY <1>1, <1>2 DEF Throw, Go, Settled, TransactionInv, Typed
<1>7. /\ w.pc \in Holding \cup {"settled"} /\ w.batch = call[c].batch
      /\ v.user = IF w.pc = "settled" THEN Nobody ELSE c
  BY <1>1, <1>2 DEF Session, Call, Holding
<1>8. faults' \in 0..MaxFaults
  BY BoundAssumption DEF Throw, TransactionInv, Typed, Fault
<1>9. UNCHANGED <<adapter, waiting, pipeline, database>>
  BY <1>2 DEF Throw, database
<1> HIDE DEF s, v, w
<1>10. Local(c, s, v, w)
  BY <1>2, <1>3, <1>4, <1>5, <1>6, <1>7, <1>8, <1>9 DEF Local, TransactionInv, Typed, database
<1> QED  BY <1>2, <1>10, LocalStep

LEMMA LostStep ==
    ASSUME TransactionInv, NEW c \in Callers, Lost(c)
    PROVE  TransactionInv'
<1> DEFINE s == Mine(c)
           v == session[s]
           w == [call[c] EXCEPT !.pc = "rollback"]
<1>1. call[c].pc \in {"begin", "configure", "lock", "work", "committed"}
  BY DEF Lost, At, Working
<1>2. /\ s \in Sessions /\ session[s].user = c /\ call[c] \in Call /\ session[s] \in Session
      /\ CallOk(c, call[c], committed) /\ HeldOk(c, call[c], session[s])
      /\ ~session[s].up => Rested(session[s])
      /\ SawLast(c, call[c], session[s], counted)
  BY <1>1, WhatIsHeld DEF Holding
<1>3. v \in Session /\ w \in Call
  BY <1>2 DEF Session, Call, Phases
<1>4. CallOk(c, w, committed')
  BY <1>1, <1>2 DEF Lost, CallOk, Holding, Jobs, Call, database
<1>5. /\ w.pc = "settled" \/ ~v.up => Rested(v)
      /\ w.pc # "settled" => HeldOk(c, w, v) /\ SawLast(c, w, v, counted')
      /\ \A k \in v.locks : k \in session[s].locks \/ Free(k)
  <2>1. w.pc = "settled" \/ ~v.up => Rested(v)
    BY <1>1, <1>2 DEF Lost, Alive, CallOk, HeldOk, SawLast, Rested, Holding, Session, Call, database
  <2>2. w.pc # "settled" => HeldOk(c, w, v) /\ SawLast(c, w, v, counted')
    BY <1>1, <1>2 DEF Lost, Alive, CallOk, HeldOk, SawLast, Rested, Holding, Session, Call, database
  <2>3. \A k \in v.locks : k \in session[s].locks \/ Free(k)
    BY <1>1, <1>2 DEF Lost, Alive, CallOk, HeldOk, SawLast, Rested, Holding, Session, Call, database
  <2> QED  BY <2>1, <2>2, <2>3
<1>6. session' = [session EXCEPT ![s] = v] /\ call' = [call EXCEPT ![c] = w]
  BY <1>1, <1>2 DEF Lost, Go, Settled, TransactionInv, Typed
<1>7. /\ w.pc \in Holding \cup {"settled"} /\ w.batch = call[c].batch
      /\ v.user = IF w.pc = "settled" THEN Nobody ELSE c
  BY <1>1, <1>2 DEF Session, Call, Holding
<1>8. faults' \in 0..MaxFaults
  BY BoundAssumption DEF Lost, TransactionInv, Typed
<1>9. UNCHANGED <<adapter, waiting, pipeline, database>>
  BY <1>2 DEF Lost, database
<1> HIDE DEF s, v, w
<1>10. Local(c, s, v, w)
  BY <1>2, <1>3, <1>4, <1>5, <1>6, <1>7, <1>8, <1>9 DEF Local, TransactionInv, Typed, database
<1> QED  BY <1>2, <1>10, LocalStep

LEMMA QueryStep ==
    ASSUME TransactionInv, NEW c \in Callers, Query(c)
    PROVE  TransactionInv'
<1> DEFINE s == Mine(c)
           v == [session[s] EXCEPT !.user = Nobody]
<1>1. call[c].pc = "query"
  BY DEF Query, At
<1>2. /\ s \in Sessions /\ session[s].user = c /\ call[c] \in Call /\ session[s] \in Session
      /\ CallOk(c, call[c], committed) /\ HeldOk(c, call[c], session[s])
      /\ ~session[s].up => Rested(session[s])
      /\ SawLast(c, call[c], session[s], counted)
  BY <1>1, WhatIsHeld DEF Holding
<1>w. PICK w \in {[call[c] EXCEPT !.pc = "settled", !.result = "ok"],
                  [call[c] EXCEPT !.pc = "settled", !.result = "failed"]} : call' = [call EXCEPT ![c] = w]
  BY DEF Query, Go, Settled, Statements
<1>3. v \in Session /\ w \in Call
  BY <1>2 DEF Session, Call, Phases
<1>4. CallOk(c, w, committed')
  BY ZenonT(30), <1>1, <1>2 DEF Query, CallOk, Holding, Jobs, Call, database
<1>5. /\ w.pc = "settled" \/ ~v.up => Rested(v)
      /\ w.pc # "settled" => HeldOk(c, w, v) /\ SawLast(c, w, v, counted')
      /\ \A k \in v.locks : k \in session[s].locks \/ Free(k)
  <2>1. w.pc = "settled" \/ ~v.up => Rested(v)
    BY <1>1, <1>2 DEF Query, Alive, CallOk, HeldOk, SawLast, Rested, Holding, Session, Call, database
  <2>2. w.pc # "settled" => HeldOk(c, w, v) /\ SawLast(c, w, v, counted')
    BY <1>1, <1>2 DEF Query, Alive, CallOk, HeldOk, SawLast, Rested, Holding, Session, Call, database
  <2>3. \A k \in v.locks : k \in session[s].locks \/ Free(k)
    BY <1>1, <1>2 DEF Query, Alive, CallOk, HeldOk, SawLast, Rested, Holding, Session, Call, database
  <2> QED  BY <2>1, <2>2, <2>3
<1>6. session' = [session EXCEPT ![s] = v] /\ call' = [call EXCEPT ![c] = w]
  BY <1>1, <1>2, <1>w DEF Query, Go, Settled, TransactionInv, Typed, Released
<1>7. /\ w.pc \in Holding \cup {"settled"} /\ w.batch = call[c].batch
      /\ v.user = IF w.pc = "settled" THEN Nobody ELSE c
  BY <1>1, <1>2 DEF Session, Call, Holding
<1>8. faults' \in 0..MaxFaults
  BY SMTT(30), BoundAssumption DEF Query, TransactionInv, Typed, Fault
<1>9. UNCHANGED <<adapter, waiting, pipeline, database>>
  BY <1>2 DEF Query, database
<1> HIDE DEF s, v
<1>10. Local(c, s, v, w)
  BY <1>2, <1>3, <1>4, <1>5, <1>6, <1>7, <1>8, <1>9 DEF Local, TransactionInv, Typed, database
<1> QED  BY <1>2, <1>10, LocalStep

LEMMA ReleaseStep ==
    ASSUME TransactionInv, NEW c \in Callers, Release(c)
    PROVE  TransactionInv'
<1> DEFINE s == Mine(c)
           v == [session[s] EXCEPT !.user = Nobody]
           w == [call[c] EXCEPT !.pc = "settled", !.result = "ok"]
<1>1. call[c].pc = "committed"
  BY DEF Release, At
<1>2. /\ s \in Sessions /\ session[s].user = c /\ call[c] \in Call /\ session[s] \in Session
      /\ CallOk(c, call[c], committed) /\ HeldOk(c, call[c], session[s])
      /\ ~session[s].up => Rested(session[s])
      /\ SawLast(c, call[c], session[s], counted)
  BY <1>1, WhatIsHeld DEF Holding
<1>3. v \in Session /\ w \in Call
  BY <1>2 DEF Session, Call, Phases
<1>4. CallOk(c, w, committed')
  BY <1>1, <1>2 DEF Release, CallOk, Holding, Jobs, Call, database
<1>5. /\ w.pc = "settled" \/ ~v.up => Rested(v)
      /\ w.pc # "settled" => HeldOk(c, w, v) /\ SawLast(c, w, v, counted')
      /\ \A k \in v.locks : k \in session[s].locks \/ Free(k)
  <2>1. w.pc = "settled" \/ ~v.up => Rested(v)
    BY <1>1, <1>2 DEF Release, Alive, CallOk, HeldOk, SawLast, Rested, Holding, Session, Call, database
  <2>2. w.pc # "settled" => HeldOk(c, w, v) /\ SawLast(c, w, v, counted')
    BY <1>1, <1>2 DEF Release, Alive, CallOk, HeldOk, SawLast, Rested, Holding, Session, Call, database
  <2>3. \A k \in v.locks : k \in session[s].locks \/ Free(k)
    BY <1>1, <1>2 DEF Release, Alive, CallOk, HeldOk, SawLast, Rested, Holding, Session, Call, database
  <2> QED  BY <2>1, <2>2, <2>3
<1>6. session' = [session EXCEPT ![s] = v] /\ call' = [call EXCEPT ![c] = w]
  BY <1>1, <1>2 DEF Release, Go, Settled, TransactionInv, Typed, Released
<1>7. /\ w.pc \in Holding \cup {"settled"} /\ w.batch = call[c].batch
      /\ v.user = IF w.pc = "settled" THEN Nobody ELSE c
  BY <1>1, <1>2 DEF Session, Call, Holding
<1>8. faults' \in 0..MaxFaults
  BY BoundAssumption DEF Release, TransactionInv, Typed
<1>9. UNCHANGED <<adapter, waiting, pipeline, database>>
  BY <1>2 DEF Release, database
<1> HIDE DEF s, v, w
<1>10. Local(c, s, v, w)
  BY <1>2, <1>3, <1>4, <1>5, <1>6, <1>7, <1>8, <1>9 DEF Local, TransactionInv, Typed, database
<1> QED  BY <1>2, <1>10, LocalStep

LEMMA RollbackStep ==
    ASSUME TransactionInv, NEW c \in Callers, Rollback(c)
    PROVE  TransactionInv'
<1> DEFINE s == Mine(c)
           v == [(IF Alive(c) THEN Ended(session[s]) ELSE session[s]) EXCEPT !.user = Nobody]
           w == [call[c] EXCEPT !.pc = "settled", !.result = "failed"]
<1>1. call[c].pc = "rollback"
  BY DEF Rollback, At
<1>2. /\ s \in Sessions /\ session[s].user = c /\ call[c] \in Call /\ session[s] \in Session
      /\ CallOk(c, call[c], committed) /\ HeldOk(c, call[c], session[s])
      /\ ~session[s].up => Rested(session[s])
      /\ SawLast(c, call[c], session[s], counted)
  BY <1>1, WhatIsHeld DEF Holding
<1>3. v \in Session /\ w \in Call
  BY <1>2 DEF Session, Call, Phases, Ended
<1>4. CallOk(c, w, committed')
  BY <1>1, <1>2 DEF Rollback, CallOk, Holding, Jobs, Call, database
<1>5. /\ w.pc = "settled" \/ ~v.up => Rested(v)
      /\ w.pc # "settled" => HeldOk(c, w, v) /\ SawLast(c, w, v, counted')
      /\ \A k \in v.locks : k \in session[s].locks \/ Free(k)
  <2>1. w.pc = "settled" \/ ~v.up => Rested(v)
    BY <1>1, <1>2 DEF Rollback, Alive, CallOk, HeldOk, SawLast, Rested, Holding, Session, Call, database, Ended
  <2>2. w.pc # "settled" => HeldOk(c, w, v) /\ SawLast(c, w, v, counted')
    BY <1>1, <1>2 DEF Rollback, Alive, CallOk, HeldOk, SawLast, Rested, Holding, Session, Call, database, Ended
  <2>3. \A k \in v.locks : k \in session[s].locks \/ Free(k)
    BY <1>1, <1>2 DEF Rollback, Alive, CallOk, HeldOk, SawLast, Rested, Holding, Session, Call, database, Ended
  <2> QED  BY <2>1, <2>2, <2>3
<1>6. session' = [session EXCEPT ![s] = v] /\ call' = [call EXCEPT ![c] = w]
  BY <1>1, <1>2 DEF Rollback, Go, Settled, TransactionInv, Typed, Released
<1>7. /\ w.pc \in Holding \cup {"settled"} /\ w.batch = call[c].batch
      /\ v.user = IF w.pc = "settled" THEN Nobody ELSE c
  BY <1>1, <1>2 DEF Session, Call, Holding
<1>8. faults' \in 0..MaxFaults
  BY BoundAssumption DEF Rollback, TransactionInv, Typed
<1>9. UNCHANGED <<adapter, waiting, pipeline, database>>
  BY <1>2 DEF Rollback, database
<1> HIDE DEF s, v, w
<1>10. Local(c, s, v, w)
  BY <1>2, <1>3, <1>4, <1>5, <1>6, <1>7, <1>8, <1>9 DEF Local, TransactionInv, Typed, database
<1> QED  BY <1>2, <1>10, LocalStep

LEMMA CommitStep ==
    ASSUME TransactionInv, NEW c \in Callers, Commit(c)
    PROVE  TransactionInv'
<1> DEFINE s == Mine(c)
           v == Ended(session[s])
           w == [call[c] EXCEPT !.pc = "committed"]
<1>1. call[c].pc = "work"
  BY DEF Commit, At, Working
<1>2. /\ s \in Sessions /\ session[s].user = c /\ call[c] \in Call /\ session[s] \in Session
      /\ CallOk(c, call[c], committed) /\ HeldOk(c, call[c], session[s])
      /\ ~session[s].up => Rested(session[s])
      /\ SawLast(c, call[c], session[s], counted)
  BY <1>1, WhatIsHeld DEF Holding
<1>3. v \in Session /\ w \in Call
  BY <1>2 DEF Session, Call, Phases, Ended
<1>4. CallOk(c, w, committed')
  BY <1>1, <1>2 DEF Commit, CallOk, Holding, Jobs, Call, database, HeldOk, Alive
<1>5. /\ w.pc = "settled" \/ ~v.up => Rested(v)
      /\ w.pc # "settled" => HeldOk(c, w, v) /\ SawLast(c, w, v, counted')
      /\ \A k \in v.locks : k \in session[s].locks \/ Free(k)
  <2>1. w.pc = "settled" \/ ~v.up => Rested(v)
    BY <1>1, <1>2 DEF Commit, Alive, CallOk, HeldOk, SawLast, Rested, Holding, Session, Call, database, Ended
  <2>2. w.pc # "settled" => HeldOk(c, w, v) /\ SawLast(c, w, v, counted')
    BY <1>1, <1>2 DEF Commit, Alive, CallOk, HeldOk, SawLast, Rested, Holding, Session, Call, database, Ended
  <2>3. \A k \in v.locks : k \in session[s].locks \/ Free(k)
    BY <1>1, <1>2 DEF Commit, Alive, CallOk, HeldOk, SawLast, Rested, Holding, Session, Call, database, Ended
  <2> QED  BY <2>1, <2>2, <2>3
<1>6. session' = [session EXCEPT ![s] = v] /\ call' = [call EXCEPT ![c] = w]
  BY <1>1, <1>2 DEF Commit, Go, Settled, TransactionInv, Typed
<1>7. /\ w.pc \in Holding \cup {"settled"} /\ w.batch = call[c].batch
      /\ v.user = IF w.pc = "settled" THEN Nobody ELSE c
  BY <1>1, <1>2 DEF Session, Call, Holding, Ended
<1>8. faults' \in 0..MaxFaults
  BY BoundAssumption DEF Commit, TransactionInv, Typed
<1>9. /\ UNCHANGED <<adapter, waiting, pipeline>>
      /\ committed' \in {committed, committed \cup {c}}
      /\ table' \in {table, table \o call[c].batch}
      /\ counted' \in [Locks -> Nat]
      /\ \A k \in Locks \ session[s].locks : counted'[k] = counted[k]
  <2>1. CASE session[s].tx = "failed"
    BY <2>1, <1>2 DEF Commit, database, TransactionInv, Typed
  <2>2. CASE session[s].tx # "failed" /\ call[c].job = "exec"
    BY <2>2, <1>2 DEF Commit, TransactionInv, Typed
  <2>3. CASE session[s].tx # "failed" /\ call[c].job # "exec"
    <3>1. session[s].locks = {LockOf[c]} /\ call[c].saw + 1 \in Nat
      BY <1>1, <1>2, <2>3 DEF Commit, Alive, HeldOk, Call
    <3>2. counted' = [counted EXCEPT ![LockOf[c]] = call[c].saw + 1]
      BY <2>3 DEF Commit
    <3> QED  BY <2>3, <3>1, <3>2 DEF Commit, TransactionInv, Typed
  <2> QED  BY <2>1, <2>2, <2>3
<1> HIDE DEF s, v, w
<1>10. Local(c, s, v, w)
  BY <1>2, <1>3, <1>4, <1>5, <1>6, <1>7, <1>8, <1>9 DEF Local, TransactionInv, Typed, database
<1> QED  BY <1>2, <1>10, LocalStep

LEMMA BreakStep ==
    ASSUME TransactionInv, NEW c \in Callers, Break(c)
    PROVE  TransactionInv'
<1>1. PICK s \in Sessions : /\ session[s].user = c
                           /\ session' = [session EXCEPT ![s] = [Ended(@) EXCEPT !.up = FALSE]]
  BY DEF Break
<1> DEFINE v == [Ended(session[s]) EXCEPT !.up = FALSE]
<1>2. call[c].pc \in Holding /\ call[c] \in Call /\ session[s] \in Session
  BY <1>1, CallAssumption DEF TransactionInv, Users, Typed
<1>3. CallOk(c, call[c], committed) /\ HeldOk(c, call[c], session[s])
  BY <1>1, CallAssumption DEF TransactionInv, CallsOk, SessionsOk
<1>4. v \in Session /\ Rested(v) /\ ~v.up /\ v.user = c
  BY <1>1, <1>2 DEF Session, Rested, Ended
<1>5. HeldOk(c, call[c], v) /\ SawLast(c, call[c], v, counted') /\ v.locks = {}
  BY <1>3, <1>4 DEF HeldOk, SawLast, Rested
<1>6. session' = [session EXCEPT ![s] = v] /\ call' = [call EXCEPT ![c] = call[c]]
  BY <1>1 DEF Break, TransactionInv, Typed
<1>7. faults' \in 0..MaxFaults
  BY BoundAssumption DEF Break, TransactionInv, Typed, Fault
<1>8. call[c].pc # "settled"
  BY <1>2 DEF Holding
<1>9. UNCHANGED <<adapter, waiting, pipeline, database>>
  BY DEF Break
<1> HIDE DEF v
<1>10. Local(c, s, v, call[c])
  BY <1>2, <1>3, <1>4, <1>5, <1>6, <1>7, <1>8, <1>9 DEF Local, TransactionInv, Typed, database
<1> QED  BY <1>1, <1>10, LocalStep

-----------------------------------------------------------------------------
(* Calls without a connection, and the pool.                               *)

LEMMA LoadingIsFinite == IsFiniteSet(Loading) /\ Cardinality(Loading) \in Nat
<1>1. IsFiniteSet(Callers) /\ Loading \subseteq Callers
  BY BoundAssumption DEF Loading
<1> QED  BY <1>1, FS_Subset, FS_CardinalityType

\* A call that has no pool or has just found one has the record w from now on.
Arrives(c, w) ==
    /\ call[c].pc \in {"idle", "loading"} /\ w.pc \in {"loading", "waiting", "settled"}
    /\ w \in Call /\ call' = [call EXCEPT ![c] = w]
    /\ CallOk(c, w, committed) /\ Numbered(w.batch, added)
    /\ IF w.pc = "waiting"
       THEN \E p \in Pools : waiting' = [waiting EXCEPT ![p] = Append(@, c)]
       ELSE waiting' = waiting
    /\ operations' \in {operations, <<>>}
    /\ UNCHANGED <<session, added, database>>

LEMMA ArrivingStep ==
    ASSUME TransactionInv, NEW c \in Callers, NEW w, Arrives(c, w)
    PROVE  /\ waiting' \in [Pools -> Seq(Callers)] /\ call' \in [Callers -> Call]
           /\ operations' \in Seq(Commands)
           /\ Users' /\ Queued' /\ CallsOk' /\ SessionsOk' /\ CountsOk' /\ LocksExclude' /\ CommandsOk'
<1>1. /\ \A d \in Callers \ {c} : call'[d] = call[d]
      /\ call'[c] = w
  BY DEF Arrives, TransactionInv, Typed
<1>2. waiting' \in [Pools -> Seq(Callers)] /\ call' \in [Callers -> Call] /\ operations' \in Seq(Commands)
  <2>1. waiting' \in [Pools -> Seq(Callers)]
    <3>1. ASSUME NEW p \in Pools  PROVE Append(waiting[p], c) \in Seq(Callers)
      BY DEF TransactionInv, Typed
    <3> QED  BY <3>1 DEF Arrives, TransactionInv, Typed
  <2>2. call' \in [Callers -> Call]
    BY DEF Arrives, TransactionInv, Typed
  <2>3. operations' \in Seq(Commands)
    <3>1. operations \in Seq(Commands) /\ <<>> \in Seq(Commands)
      BY DEF TransactionInv, Typed
    <3> QED  BY <3>1 DEF Arrives
  <2> QED  BY <2>1, <2>2, <2>3
<1>3. \A s \in Sessions : session[s].user \in Callers \cup {Nobody} /\ session[s].user # c
  BY CallAssumption DEF Arrives, TransactionInv, Typed, Users, Session, Holding
<1>4. Users'
  BY <1>1, <1>3 DEF Arrives, TransactionInv, Users, Holding
<1>5. Queued'
  <2>1. ASSUME NEW p \in Pools, NEW i \in DOMAIN waiting[p]
        PROVE  waiting[p][i] \in Callers \ {c} /\ call'[waiting[p][i]].pc = "waiting"
    <3>1. waiting[p] \in Seq(Callers)
      BY DEF TransactionInv, Typed
    <3>2. call[waiting[p][i]].pc = "waiting"
      BY DEF TransactionInv, Queued
    <3> QED  BY <1>1, <3>1, <3>2 DEF Arrives
  <2>2. CASE waiting' = waiting
    BY <2>1, <2>2 DEF TransactionInv, Queued
  <2>3. ASSUME NEW p \in Pools, waiting' = [waiting EXCEPT ![p] = Append(@, c)], w.pc = "waiting"
        PROVE  Queued'
    <3>1. waiting[p] \in Seq(Callers) /\ waiting'[p] = Append(waiting[p], c)
      BY <2>3 DEF TransactionInv, Typed
    <3>2. \A q \in Pools \ {p} : waiting'[q] = waiting[q]
      BY <2>3 DEF TransactionInv, Typed
    <3>3. /\ \A i \in DOMAIN waiting'[p] \ DOMAIN waiting[p] : i = Len(waiting[p]) + 1 /\ waiting'[p][i] = c
          /\ \A i \in DOMAIN waiting[p] : i \in DOMAIN waiting'[p] /\ waiting'[p][i] = waiting[p][i]
      BY <3>1
    <3>4. \A q \in Pools : \A i \in DOMAIN waiting'[q] :
            \/ i \in DOMAIN waiting[q] /\ waiting'[q][i] = waiting[q][i]
            \/ q = p /\ i = Len(waiting[p]) + 1 /\ waiting'[q][i] = c
      BY <3>2, <3>3
    <3> QED  BY <1>1, <2>1, <2>3, <3>4 DEF TransactionInv, Queued
  <2> QED  BY <2>2, <2>3 DEF Arrives
<1>6. CallsOk'
  BY <1>1 DEF Arrives, database, TransactionInv, CallsOk
<1>7. SessionsOk' /\ CountsOk' /\ LocksExclude'
  BY <1>1, <1>3 DEF Arrives, database, TransactionInv, SessionsOk, CountsOk, LocksExclude
<1>8. CommandsOk'
  <2>1. Numbered(operations', added)
    BY DEF Arrives, TransactionInv, CommandsOk, Numbered
  <2> QED  BY <1>1, <2>1 DEF Arrives, database, TransactionInv, CommandsOk
<1> QED  BY <1>2, <1>4, <1>5, <1>6, <1>7, <1>8

\* A call that finds its pool ended fails, another waits.
LEMMA AskingArrives ==
    ASSUME TransactionInv, NEW c \in Callers, NEW record \in Call, NEW p \in Pools, Asks(c, record, p),
           call[c].pc \in {"idle", "loading"},
           CallOk(c, [record EXCEPT !.pc = "loading"], committed), Numbered(record.batch, added),
           operations' \in {operations, <<>>}, UNCHANGED <<session, added, database>>
    PROVE  \E w \in {[record EXCEPT !.pc = "settled", !.result = "failed"], [record EXCEPT !.pc = "waiting"]} :
               Arrives(c, w)
<1>1. CASE p \in ending
  <2> DEFINE w == [record EXCEPT !.pc = "settled", !.result = "failed"]
  <2>1. w \in Call /\ w.pc = "settled" /\ w.batch = record.batch
    BY DEF Call, Phases
  <2>2. CallOk(c, w, committed)
    BY DEF CallOk, Holding, Call
  <2>3. call' = [call EXCEPT ![c] = w] /\ waiting' = waiting
    BY <1>1 DEF Asks
  <2> HIDE DEF w
  <2>4. Arrives(c, w)
    BY <2>1, <2>2, <2>3 DEF Arrives
  <2> QED  BY <2>4 DEF w
<1>2. CASE p \notin ending
  <2> DEFINE w == [record EXCEPT !.pc = "waiting"]
  <2>1. w \in Call /\ w.pc = "waiting" /\ w.batch = record.batch
    BY DEF Call, Phases
  <2>2. CallOk(c, w, committed)
    BY DEF CallOk, Holding, Call
  <2>3. call' = [call EXCEPT ![c] = w] /\ waiting' = [waiting EXCEPT ![p] = Append(@, c)]
    BY <1>2 DEF Asks
  <2> HIDE DEF w
  <2>4. Arrives(c, w)
    BY <2>1, <2>2, <2>3 DEF Arrives
  <2> QED  BY <2>4 DEF w
<1> QED  BY <1>1, <1>2

\* What the pools and the rest are after such a step.
LEMMA ArrivedInv ==
    ASSUME TransactionInv, NEW c \in Callers, NEW w, Arrives(c, w),
           pool' \in Pools \cup {0}, made' \in Pools \cup {0}, UNCHANGED <<ending, closing, closes>>,
           faults' \in 0..MaxFaults, PoolsBounded'
    PROVE  TransactionInv'
<1>1. counted' = counted /\ table' = table /\ committed' = committed /\ session' = session /\ added' = added
  BY DEF Arrives, database
<1> QED  BY <1>1, ArrivingStep DEF TransactionInv, Typed

LEMMA NoCallType == NoCall \in Call
<1>1. /\ NoCall.pc \in Phases /\ NoCall.job \in Jobs \cup {"none"} /\ NoCall.step \in Nat /\ NoCall.saw \in Nat
      /\ NoCall.batch \in Seq(Commands) /\ NoCall.result \in {"none", "ok", "failed"}
  BY DEF NoCall, Phases
<1>2. NoCall.swallowed \in BOOLEAN
  BY DEF NoCall
<1>3. NoCall = [pc |-> NoCall.pc, job |-> NoCall.job, step |-> NoCall.step, saw |-> NoCall.saw,
                batch |-> NoCall.batch, swallowed |-> NoCall.swallowed, result |-> NoCall.result]
  BY DEF NoCall
<1> QED  BY <1>1, <1>2, <1>3 DEF Call

LEMMA StartStep ==
    ASSUME TransactionInv, NEW c \in Callers, Start(c)
    PROVE  TransactionInv'
<1> DEFINE record(job) == [call[c] EXCEPT !.job = job, !.batch = IF job = "exec" THEN operations ELSE <<>>]
<1>1. PICK job \in JobsOf[c] :
        /\ IF pool = 0 THEN call' = [call EXCEPT ![c] = [record(job) EXCEPT !.pc = "loading"]] /\ UNCHANGED waiting
           ELSE Asks(c, record(job), pool)
        /\ IF job = "exec" THEN Take ELSE UNCHANGED operations
  BY DEF Start
<1>2. /\ call[c] = NoCall /\ job \in Jobs /\ c \notin committed
      /\ operations \in Seq(Commands) /\ Numbered(operations, added)
  BY CallAssumption DEF Start, At, TransactionInv, CallsOk, CallOk, Typed, CommandsOk
<1> DEFINE r == record(job)
<1>3. r \in Call /\ Numbered(r.batch, added)
  <2>1. r.batch \in Seq(Commands) /\ Numbered(r.batch, added)
    BY <1>2 DEF NoCall, Numbered
  <2>2. r = [NoCall EXCEPT !.job = job, !.batch = r.batch]
    BY <1>2 DEF NoCall
  <2> HIDE DEF r
  <2> QED  BY <1>2, <2>1, <2>2, NoCallType DEF Call
<1>4. CallOk(c, [r EXCEPT !.pc = "loading"], committed)
  BY <1>2 DEF NoCall, CallOk, Holding
<1>5. operations' \in {operations, <<>>} /\ UNCHANGED <<adapter, session, added, database, faults>>
  BY <1>1 DEF Start, Take
<1>6. CASE pool = 0
  <2> DEFINE w == [r EXCEPT !.pc = "loading"]
  <2>1. w \in Call /\ w.pc = "loading" /\ w.batch = r.batch
    BY <1>3 DEF Call, Phases
  <2>2. call' = [call EXCEPT ![c] = w] /\ waiting' = waiting
    BY <1>1, <1>6
  <2>3. call[c].pc = "idle"
    BY <1>2 DEF NoCall
  <2> HIDE DEF w, r
  <2>4. Arrives(c, w)
    BY <1>3, <1>4, <1>5, <2>1, <2>2, <2>3 DEF Arrives, w
  <2>5. PoolsBounded'
    <3>1. Loading' = Loading \cup {c} /\ c \notin Loading
      BY <2>1, <2>2, <2>3 DEF Loading, At, TransactionInv, Typed
    <3>2. Cardinality(Loading') = Cardinality(Loading) + 1
      BY <3>1, LoadingIsFinite, FS_AddElement
    <3>3. made' = made /\ made + Cardinality(Loading) < MaxPools
      BY <1>5, <1>6 DEF Start, adapter
    <3>4. made \in Nat /\ MaxPools \in Nat
      BY BoundAssumption DEF TransactionInv, Typed, Pools
    <3> QED  BY <3>2, <3>3, <3>4, LoadingIsFinite DEF PoolsBounded
  <2> QED  BY <1>5, <2>4, <2>5, ArrivedInv DEF adapter, TransactionInv, Typed
<1>7. CASE pool # 0
  <2>1. pool \in Pools /\ call[c].pc = "idle" /\ Asks(c, r, pool)
    BY <1>1, <1>2, <1>7 DEF TransactionInv, Typed, NoCall
  <2> HIDE DEF r
  <2>2. PICK w \in {[r EXCEPT !.pc = "settled", !.result = "failed"], [r EXCEPT !.pc = "waiting"]} : Arrives(c, w)
    BY <1>3, <1>4, <1>5, <2>1, AskingArrives
  <2>3. w.pc # "loading"
    BY <1>3, <2>2 DEF Call
  <2>4. Loading' = Loading
    BY <2>1, <2>2, <2>3 DEF Loading, At, TransactionInv, Typed, Arrives
  <2>5. PoolsBounded'
    BY <1>5, <2>4 DEF PoolsBounded, adapter, TransactionInv
  <2> QED  BY <1>5, <2>2, <2>5, ArrivedInv DEF adapter, TransactionInv, Typed
<1> QED  BY <1>6, <1>7

LEMMA LoadedStep ==
    ASSUME TransactionInv, NEW c \in Callers, Loaded(c)
    PROVE  TransactionInv'
<1>1. /\ call[c].pc = "loading" /\ call[c] \in Call /\ CallOk(c, call[c], committed)
      /\ Numbered(call[c].batch, added)
  BY DEF Loaded, At, TransactionInv, Typed, CallsOk, CommandsOk
<1>2. UNCHANGED <<ending, closing, closes, session, pipeline, database>>
  BY DEF Loaded
<1>3. c \in Loading /\ Cardinality(Loading \ {c}) = Cardinality(Loading) - 1
  BY <1>1, LoadingIsFinite, FS_RemoveElement DEF Loading, At
<1>4. Cardinality(Loading \ {c}) \in Nat
  BY LoadingIsFinite, FS_Subset, FS_CardinalityType
<1>5. ASSUME NEW w, Arrives(c, w), w.pc # "loading"  PROVE Loading' = Loading \ {c}
  BY <1>1, <1>5 DEF Loading, At, TransactionInv, Typed, Arrives
<1>6. CASE made' = made + 1 /\ pool' = made' /\ Asks(c, call[c], made') /\ UNCHANGED faults
  <2>1. made' \in Pools
    BY SMTT(30), <1>3, <1>4, <1>6, LoadingIsFinite, BoundAssumption DEF TransactionInv, Typed, PoolsBounded, Pools
  <2>2. [call[c] EXCEPT !.pc = "loading"] = call[c]
    BY <1>1 DEF Call
  <2>3. PICK w \in {[call[c] EXCEPT !.pc = "settled", !.result = "failed"], [call[c] EXCEPT !.pc = "waiting"]} :
          Arrives(c, w)
    BY ZenonT(30), <1>1, <1>2, <1>6, <2>1, <2>2, AskingArrives DEF pipeline
  <2>4. w.pc # "loading"
    BY <1>1, <2>3 DEF Call
  <2>5. PoolsBounded'
    <3>1. Cardinality(Loading') = Cardinality(Loading) - 1
      BY <1>3, <1>5, <2>3, <2>4
    <3>2. made \in Nat /\ MaxPools \in Nat /\ made + Cardinality(Loading) <= MaxPools
      BY BoundAssumption DEF TransactionInv, Typed, PoolsBounded, Pools
    <3> QED  BY <1>6, <3>1, <3>2, LoadingIsFinite DEF PoolsBounded
  <2> QED  BY <1>2, <1>6, <2>1, <2>3, <2>5, ArrivedInv DEF TransactionInv, Typed
<1>7. CASE Fault("load") /\ Settled(c, "failed") /\ UNCHANGED <<pool, made, waiting>>
  <2> DEFINE w == [call[c] EXCEPT !.pc = "settled", !.result = "failed"]
  <2>1. w \in Call /\ w.pc = "settled" /\ w.batch = call[c].batch
    BY <1>1 DEF Call, Phases
  <2>2. CallOk(c, w, committed)
    BY <1>1 DEF CallOk, Holding, Call
  <2>3. call' = [call EXCEPT ![c] = w] /\ waiting' = waiting
    BY <1>7 DEF Settled
  <2>4. faults' \in 0..MaxFaults
    BY <1>7, BoundAssumption DEF TransactionInv, Typed, Fault
  <2> HIDE DEF w
  <2>5. Arrives(c, w)
    BY <1>1, <1>2, <2>1, <2>2, <2>3 DEF Arrives, pipeline
  <2>6. PoolsBounded'
    <3>1. Cardinality(Loading') = Cardinality(Loading) - 1
      BY <1>3, <1>5, <2>1, <2>5
    <3>2. made \in Nat /\ MaxPools \in Nat /\ made + Cardinality(Loading) <= MaxPools
      BY BoundAssumption DEF TransactionInv, Typed, PoolsBounded, Pools
    <3> QED  BY <1>7, <3>1, <3>2, LoadingIsFinite DEF PoolsBounded
  <2> QED  BY <1>2, <1>7, <2>4, <2>5, <2>6, ArrivedInv DEF TransactionInv, Typed
<1> QED  BY <1>6, <1>7 DEF Loaded

\* The first call that waits for a pool does so no more.
LEMMA ServedQueues ==
    ASSUME TransactionInv, NEW p \in Pools, waiting[p] # <<>>,
           waiting' = [waiting EXCEPT ![p] = Tail(@)],
           NEW w \in Call, call' = [call EXCEPT ![Head(waiting[p])] = w],
           w.batch = call[Head(waiting[p])].batch
    PROVE  /\ Head(waiting[p]) \in Callers /\ call[Head(waiting[p])].pc = "waiting"
           /\ waiting' \in [Pools -> Seq(Callers)] /\ call' \in [Callers -> Call]
           /\ Queued'
           /\ w.pc # "loading" => Loading' = Loading
           /\ \A d \in Callers : Numbered(call'[d].batch, added)
<1> DEFINE c == Head(waiting[p])
<1>1. waiting[p] \in Seq(Callers) /\ Len(waiting[p]) \in Nat \ {0}
  BY DEF TransactionInv, Typed
<1>2. c \in Callers /\ 1 \in DOMAIN waiting[p] /\ c = waiting[p][1]
  BY <1>1
<1>3. call[c].pc = "waiting"
  BY <1>2 DEF TransactionInv, Queued
<1>4. Tail(waiting[p]) \in Seq(Callers)
  BY <1>1
<1>5. /\ waiting' \in [Pools -> Seq(Callers)] /\ call' \in [Callers -> Call]
      /\ \A q \in Pools \ {p} : waiting'[q] = waiting[q]
      /\ waiting'[p] = Tail(waiting[p])
      /\ \A d \in Callers \ {c} : call'[d] = call[d]
      /\ call'[c] = w
  BY <1>2, <1>4 DEF TransactionInv, Typed
<1>6. \A i \in DOMAIN Tail(waiting[p]) :
        /\ i \in Nat /\ i + 1 \in DOMAIN waiting[p] /\ i + 1 # 1
        /\ Tail(waiting[p])[i] = waiting[p][i + 1]
  BY <1>1
<1>7. Queued'
  <2>1. \A q \in Pools : \A i \in DOMAIN waiting'[q] :
          \E j \in DOMAIN waiting[q] : /\ waiting'[q][i] = waiting[q][j] /\ (q = p => j # 1)
                                       /\ j = IF q = p THEN i + 1 ELSE i
    <3> SUFFICES ASSUME NEW q \in Pools, NEW i \in DOMAIN waiting'[q]
                 PROVE  \E j \in DOMAIN waiting[q] : /\ waiting'[q][i] = waiting[q][j] /\ (q = p => j # 1)
                                                     /\ j = IF q = p THEN i + 1 ELSE i
      OBVIOUS
    <3>1. CASE q = p
      BY <1>5, <1>6, <3>1
    <3>2. CASE q # p
      BY <1>5, <3>2
    <3> QED  BY <3>1, <3>2
  <2>2. \A q \in Pools : \A j \in DOMAIN waiting[q] :
          /\ waiting[q][j] \in Callers /\ call[waiting[q][j]].pc = "waiting"
          /\ waiting[q][j] = c => q = p /\ j = 1
    BY <1>2 DEF TransactionInv, Typed, Queued
  <2>3. \A q \in Pools : \A i \in DOMAIN waiting'[q] : call'[waiting'[q][i]].pc = "waiting"
    BY <1>5, <2>1, <2>2
  <2>4. ASSUME NEW q \in Pools, NEW r \in Pools, NEW i \in DOMAIN waiting'[q], NEW j \in DOMAIN waiting'[r],
               waiting'[q][i] = waiting'[r][j]
        PROVE  q = r /\ i = j
    <3>1. PICK k \in DOMAIN waiting[q] : waiting'[q][i] = waiting[q][k] /\ k = IF q = p THEN i + 1 ELSE i
      BY <2>1
    <3>2. PICK l \in DOMAIN waiting[r] : waiting'[r][j] = waiting[r][l] /\ l = IF r = p THEN j + 1 ELSE j
      BY <2>1
    <3>3. q = r /\ k = l
      BY <2>4, <3>1, <3>2 DEF TransactionInv, Queued
    <3>4. i \in Nat /\ j \in Nat
      BY <1>5
    <3> QED  BY <3>1, <3>2, <3>3, <3>4
  <2> QED  BY <2>3, <2>4 DEF Queued
<1>8. w.pc # "loading" => Loading' = Loading
  BY <1>2, <1>3, <1>5 DEF Loading, At
<1>9. \A d \in Callers : Numbered(call'[d].batch, added)
  BY <1>5 DEF TransactionInv, CommandsOk
<1> QED  BY <1>2, <1>3, <1>5, <1>7, <1>8, <1>9

LEMMA ServeStep ==
    ASSUME TransactionInv, NEW p \in Pools, Serve(p)
    PROVE  TransactionInv'
<1> DEFINE c == Head(waiting[p])
           idle == {s \in Idle(p) : session[s].up}
           s == CHOOSE s \in Idle(p) : idle # {} => s \in idle
<1> USE CallAssumption
<1>1. waiting[p] # <<>> /\ waiting' = [waiting EXCEPT ![p] = Tail(@)]
  BY DEF Serve
<1>2. UNCHANGED <<adapter, pipeline, database>>
  BY DEF Serve
<1>3. s \in Sessions /\ session[s].user = Nobody
  BY DEF Serve, Idle
<1>4. c \in Callers /\ call[c].pc = "waiting" /\ call[c] \in Call /\ CallOk(c, call[c], committed)
  <2>1. waiting[p] \in Seq(Callers)
    BY DEF TransactionInv, Typed
  <2>2. c \in Callers /\ 1 \in DOMAIN waiting[p] /\ c = waiting[p][1]
    BY <1>1, <2>1
  <2>3. call[c].pc = "waiting"
    BY <2>2 DEF TransactionInv, Queued
  <2> QED  BY <2>2, <2>3 DEF TransactionInv, Typed, CallsOk
<1>5. \A t \in Sessions : session[t].user \in Callers \cup {Nobody} /\ session[t].user # c
  BY <1>4 DEF TransactionInv, Typed, Users, Session, Holding
<1>6. /\ session[s] \in Session /\ Rested(session[s])
  BY <1>3 DEF TransactionInv, Typed, SessionsOk
<1>7. CASE /\ session' = [session EXCEPT ![s].user = c, ![s].up = TRUE]
           /\ Go(c, IF call[c].job = "query" THEN "query" ELSE "begin")
           /\ UNCHANGED faults
  <2> DEFINE w == [call[c] EXCEPT !.pc = IF call[c].job = "query" THEN "query" ELSE "begin"]
             v == [session[s] EXCEPT !.user = c, !.up = TRUE]
  <2>1. w \in Call /\ w.batch = call[c].batch /\ w.pc \in {"query", "begin"}
    BY <1>4 DEF Call, Phases
  <2>2. CallOk(c, w, committed)
    BY <1>4 DEF CallOk, Holding, Call
  <2>3. v \in Session /\ Rested(v) /\ v.user = c /\ v.up /\ v.locks = {}
    BY <1>4, <1>6 DEF Session, Rested
  <2>4. call' = [call EXCEPT ![c] = w] /\ session' = [session EXCEPT ![s] = v]
    <3> HIDE DEF c, s, idle
    <3>1. call' = [call EXCEPT ![c] = w]
      BY <1>4, <1>7 DEF Go
    <3>2. session' = [session EXCEPT ![s] = v]
      BY <1>3, <1>7 DEF TransactionInv, Typed
    <3> QED  BY <3>1, <3>2
  <2> HIDE DEF v, w, s, idle
  <2>5. /\ waiting' \in [Pools -> Seq(Callers)] /\ call' \in [Callers -> Call] /\ Queued'
        /\ Loading' = Loading /\ \A d \in Callers : Numbered(call'[d].batch, added)
    BY <1>1, <2>1, <2>4, ServedQueues
  <2>6. /\ session' \in [Sessions -> Session]
        /\ \A t \in Sessions \ {s} : session'[t] = session[t]
        /\ session'[s] = v
        /\ \A d \in Callers \ {c} : call'[d] = call[d]
        /\ call'[c] = w
    BY <1>3, <1>4, <2>3, <2>4 DEF TransactionInv, Typed
  <2>7. Typed'
    BY <1>2, <1>7, <2>5, <2>6 DEF TransactionInv, Typed, adapter, pipeline, database
  <2>8. PoolsBounded'
    BY <1>2, <2>5 DEF TransactionInv, PoolsBounded, adapter
  <2>9. Users'
    <3>1. \A t \in Sessions : session'[t].user # Nobody => call'[session'[t].user].pc \in Holding
      BY <1>5, <2>1, <2>3, <2>6 DEF TransactionInv, Users, Holding
    <3>2. ASSUME NEW d \in Callers, call'[d].pc \in Holding  PROVE \E t \in Sessions : session'[t].user = d
      <4>1. CASE d = c
        BY <1>3, <2>3, <2>6, <4>1
      <4>2. CASE d # c
        BY <1>3, <2>6, <3>2, <4>2 DEF TransactionInv, Users
      <4> QED  BY <4>1, <4>2
    <3>3. \A t, u \in Sessions :
            session'[t].user = session'[u].user /\ session'[t].user # Nobody => t = u
      BY <1>5, <2>3, <2>6 DEF TransactionInv, Users
    <3> QED  BY <3>1, <3>2, <3>3 DEF Users
  <2>10. CallsOk'
    BY <1>2, <2>2, <2>6 DEF TransactionInv, CallsOk, database
  <2>11. SessionsOk' /\ CountsOk'
    <3> SUFFICES ASSUME NEW t \in Sessions
                 PROVE  /\ session'[t].user = Nobody \/ ~session'[t].up => Rested(session'[t])
                        /\ session'[t].user # Nobody =>
                               /\ HeldOk(session'[t].user, call'[session'[t].user], session'[t])
                               /\ SawLast(session'[t].user, call'[session'[t].user], session'[t], counted)
      BY <1>2 DEF SessionsOk, CountsOk, database
    <3>1. CASE t = s
      <4>1. HeldOk(c, w, v) /\ SawLast(c, w, v, counted)
        BY <2>1, <2>3 DEF HeldOk, SawLast
      <4> QED  BY <2>3, <2>6, <3>1, <4>1
    <3>2. CASE t # s
      BY <1>5, <2>6, <3>2 DEF TransactionInv, SessionsOk, CountsOk
    <3> QED  BY <3>1, <3>2
  <2>12. LocksExclude'
    BY <2>3, <2>6 DEF TransactionInv, LocksExclude
  <2>13. CommandsOk'
    BY <1>2, <2>5 DEF TransactionInv, CommandsOk, pipeline, database
  <2> QED  BY <2>5, <2>7, <2>8, <2>9, <2>10, <2>11, <2>12, <2>13 DEF TransactionInv
<1>8. CASE Fault("connect") /\ Settled(c, "failed") /\ UNCHANGED session
  <2> DEFINE w == [call[c] EXCEPT !.pc = "settled", !.result = "failed"]
  <2>1. w \in Call /\ w.batch = call[c].batch /\ w.pc = "settled"
    BY <1>4 DEF Call, Phases
  <2>2. CallOk(c, w, committed)
    BY <1>4 DEF CallOk, Holding, Call
  <2>3. call' = [call EXCEPT ![c] = w] /\ faults' \in 0..MaxFaults
    <3>1. call' = [call EXCEPT ![c] = w]
      <4> HIDE DEF c
      <4> QED  BY <1>4, <1>8 DEF Settled
    <3>2. faults' \in 0..MaxFaults
      BY <1>8, BoundAssumption DEF Fault, TransactionInv, Typed
    <3> QED  BY <3>1, <3>2
  <2> HIDE DEF w, s, idle
  <2>4. /\ waiting' \in [Pools -> Seq(Callers)] /\ call' \in [Callers -> Call] /\ Queued'
        /\ Loading' = Loading /\ \A d \in Callers : Numbered(call'[d].batch, added)
    BY <1>1, <2>1, <2>3, ServedQueues
  <2>5. /\ \A d \in Callers \ {c} : call'[d] = call[d]
        /\ call'[c] = w
    BY <1>4, <2>3 DEF TransactionInv, Typed
  <2>6. Typed'
    BY <1>2, <1>8, <2>3, <2>4 DEF TransactionInv, Typed, adapter, pipeline, database
  <2>7. PoolsBounded'
    BY <1>2, <2>4 DEF TransactionInv, PoolsBounded, adapter
  <2>8. Users'
    BY <1>5, <1>8, <2>1, <2>5 DEF TransactionInv, Users, Holding
  <2>9. CallsOk'
    BY <1>2, <2>2, <2>5 DEF TransactionInv, CallsOk, database
  <2>10. SessionsOk' /\ CountsOk' /\ LocksExclude'
    BY <1>2, <1>5, <1>8, <2>5 DEF TransactionInv, SessionsOk, CountsOk, LocksExclude, database
  <2>11. CommandsOk'
    BY <1>2, <2>4 DEF TransactionInv, CommandsOk, pipeline, database
  <2> QED  BY <2>4, <2>6, <2>7, <2>8, <2>9, <2>10, <2>11 DEF TransactionInv
<1> QED  BY <1>7, <1>8 DEF Serve

LEMMA AddStep ==
    ASSUME TransactionInv, Add
    PROVE  TransactionInv'
<1>1. added' = added + 1 /\ operations' = Append(operations, added + 1)
  BY DEF Add
<1>2. UNCHANGED <<adapter, waiting, session, call, database, faults>>
  BY DEF Add
<1>3. added' \in Nat /\ added <= added' /\ added' \in 0..MaxCommands /\ added' \in Commands
  BY <1>1, BoundAssumption DEF Add, TransactionInv, Typed, Commands
<1>4. operations' \in Seq(Commands)
  <2>1. operations \in Seq(Commands)
    BY DEF TransactionInv, Typed
  <2> QED  BY <1>1, <1>3, <2>1
<1>5. Typed'
  BY <1>2, <1>3, <1>4 DEF TransactionInv, Typed, adapter, database
<1>6. CommandsOk'
  <2>1. \A q \in Seq(Commands) : Numbered(q, added) => Numbered(q, added')
    <3> SUFFICES ASSUME NEW q \in Seq(Commands), Numbered(q, added), NEW i \in DOMAIN q  PROVE q[i] <= added'
      BY DEF Numbered
    <3>1. q[i] \in Nat /\ q[i] <= added
      BY BoundAssumption DEF Numbered, Commands
    <3> QED  BY <1>3, <3>1 DEF TransactionInv, Typed
  <2>2. Numbered(operations', added')
    <3>1. operations \in Seq(Commands) /\ Numbered(operations, added')
      BY <2>1 DEF TransactionInv, Typed, CommandsOk
    <3> QED  BY <1>1, <1>3, <3>1 DEF Numbered
  <2>3. table \in Seq(Commands) /\ \A c \in Callers : call[c].batch \in Seq(Commands)
    BY DEF TransactionInv, Typed, Call
  <2> QED  BY <1>2, <2>1, <2>2, <2>3 DEF TransactionInv, CommandsOk, database
<1>7. Loading' = Loading
  BY <1>2 DEF Loading, At
<1> QED
  BY <1>2, <1>5, <1>6, <1>7 DEF TransactionInv, adapter, database, PoolsBounded, Users, Queued, CallsOk,
     SessionsOk, CountsOk, LocksExclude

\* close() and its end change nothing but the adapter.
LEMMA ClosingStep ==
    ASSUME TransactionInv, Close \/ Closed \/ UNCHANGED vars
    PROVE  TransactionInv'
<1>1. UNCHANGED <<made, waiting, session, call, pipeline, database, faults>>
  BY DEF Close, Closed, vars, adapter
<1>2. Typed'
  <2>1. /\ pool' \in Pools \cup {0} /\ closing' \in Pools \cup {0} /\ ending' \subseteq Pools
        /\ closes' \in 0..MaxCloses
    BY SMTT(30), BoundAssumption DEF Close, Closed, vars, adapter, TransactionInv, Typed
  <2> QED  BY <1>1, <2>1 DEF TransactionInv, Typed, pipeline, database
<1>3. Loading' = Loading
  BY <1>1 DEF Loading, At
<1> QED
  BY <1>1, <1>2, <1>3 DEF TransactionInv, pipeline, database, PoolsBounded, Users, Queued, CallsOk,
     SessionsOk, CountsOk, LocksExclude, CommandsOk

LEMMA InitInv == Init => TransactionInv
<1> SUFFICES ASSUME Init  PROVE TransactionInv
  OBVIOUS
<1> USE DEF Init
<1>1. Typed
  <2>1. NoSession \in Session
    BY DEF NoSession, Session
  <2>2. 0 \in 0..MaxCloses /\ 0 \in 0..MaxFaults /\ 0 \in 0..MaxCommands
    BY BoundAssumption
  <2>3. <<>> \in Seq(Commands) /\ <<>> \in Seq(Callers)
    OBVIOUS
  <2>4. counted \in [Locks -> Nat]
    OBVIOUS
  <2>5. session \in [Sessions -> Session] /\ call \in [Callers -> Call] /\ waiting \in [Pools -> Seq(Callers)]
    BY <2>1, <2>3, NoCallType
  <2> QED  BY <2>2, <2>3, <2>4, <2>5 DEF Typed
<1>2. PoolsBounded
  <2>1. Loading = {}
    BY DEF Loading, At, NoCall
  <2> QED  BY <2>1, FS_EmptySet, BoundAssumption DEF PoolsBounded
<1>3. /\ \A s \in Sessions : session[s].user = Nobody /\ Rested(session[s])
      /\ \A s \in Sessions : session[s].locks = {}
  BY DEF NoSession, Rested
<1>4. \A c \in Callers : call[c].pc = "idle" /\ call[c].batch = <<>> /\ call[c] = NoCall
  BY DEF NoCall
<1>5. Users /\ Queued
  BY <1>3, <1>4 DEF Users, Queued, Holding
<1>6. CallsOk
  <2>1. \A c \in Callers : CallOk(c, NoCall, committed)
    BY DEF CallOk, NoCall, Holding
  <2> QED  BY <2>1, <1>4 DEF CallsOk
<1>7. SessionsOk /\ CountsOk /\ LocksExclude
  BY <1>3 DEF SessionsOk, CountsOk, LocksExclude
<1>8. CommandsOk
  BY <1>4 DEF CommandsOk, Numbered
<1> QED  BY <1>1, <1>2, <1>5, <1>6, <1>7, <1>8 DEF TransactionInv

LEMMA NextInv == TransactionInv /\ [Next]_vars => TransactionInv'
<1> SUFFICES ASSUME TransactionInv, [Next]_vars  PROVE TransactionInv'
  OBVIOUS
<1>1. CASE Add
  BY <1>1, AddStep
<1>2. ASSUME NEW c \in Callers, Start(c) \/ Break(c)  PROVE TransactionInv'
  BY <1>2, StartStep, BreakStep
<1>3. ASSUME NEW c \in Callers, Step(c)  PROVE TransactionInv'
  BY <1>3, LoadedStep, QueryStep, BeginStep, ConfigureStep, LockStep, RefusedStep, StatementStep,
     StatementFailsStep, ThrowStep, CommitStep, ReleaseStep, RollbackStep, LostStep DEF Step
<1>4. ASSUME NEW p \in Pools, Serve(p)  PROVE TransactionInv'
  BY <1>4, ServeStep
<1>5. CASE Close \/ Closed \/ UNCHANGED vars
  BY <1>5, ClosingStep
<1> QED  BY <1>1, <1>2, <1>3, <1>4, <1>5 DEF Next

-----------------------------------------------------------------------------
(* What follows.                                                           *)

\* Whatever overlaps, fails, breaks or is closed, the invariant holds.
THEOREM TransactionInvariant == Spec => []TransactionInv
<1> QED  BY InitInv, NextInv, PTL DEF Spec

\* Type correctness of the adapter, the calls and the database (TypeOK), and
\* that no callback makes more statements than it has.
THEOREM TypeCorrect == Spec => []TypeOK
<1>1. TransactionInv => TypeOK
  <2> SUFFICES ASSUME TransactionInv, NEW c \in Callers  PROVE call[c].step <= Statements(c)
    BY DEF TransactionInv, Typed, TypeOK
  <2> QED  BY DEF TransactionInv, CallsOk, CallOk, Statements
<1> QED  BY <1>1, TransactionInvariant, PTL

\* A connection is with one call from connect() to release(), and goes back
\* without a transaction, a lock or a lock_timeout (begin of node.ts,
\* withPgAdvisoryLock).
THEOREM ConnectionsStayClean == Spec => []CleanConnections
<1>1. TransactionInv => CleanConnections
  <2> SUFFICES ASSUME TransactionInv  PROVE CleanConnections
    OBVIOUS
  <2>1. ASSUME NEW c \in Callers
        PROVE  Cardinality({s \in Sessions : session[s].user = c}) =
                   IF call[c].pc \in {"idle", "loading", "waiting", "settled"} THEN 0 ELSE 1
    <3>1. CASE call[c].pc \in {"idle", "loading", "waiting", "settled"}
      <4>1. {s \in Sessions : session[s].user = c} = {}
        BY <3>1, CallAssumption DEF TransactionInv, Users, Holding
      <4> QED  BY <3>1, <4>1, FS_EmptySet
    <3>2. CASE call[c].pc \notin {"idle", "loading", "waiting", "settled"}
      <4>1. call[c].pc \in Holding
        BY <3>2 DEF TransactionInv, Typed, Call, Phases, Holding
      <4>2. {s \in Sessions : session[s].user = c} = {Mine(c)}
        BY <4>1, MineIs DEF TransactionInv
      <4> QED  BY <3>2, <4>2, FS_Singleton
    <3> QED  BY <3>1, <3>2
  <2>2. ASSUME NEW s \in Sessions, session[s].user = Nobody
        PROVE  session[s] \in {NoSession, [NoSession EXCEPT !.up = TRUE]}
    <3>1. session[s] \in Session /\ session[s].tx = "none" /\ session[s].locks = {} /\ ~session[s].timeout
      BY <2>2 DEF TransactionInv, Typed, SessionsOk, Rested
    <3>2. session[s] = [user |-> Nobody, up |-> session[s].up, tx |-> "none", locks |-> {}, timeout |-> FALSE]
      BY <2>2, <3>1 DEF Session
    <3>3. session[s].up \in BOOLEAN
      BY <3>1 DEF Session
    <3>4. CASE session[s].up = TRUE
      <4> DEFINE rested == [NoSession EXCEPT !.up = TRUE]
      <4>1. NoSession \in Session
        BY DEF NoSession, Session
      <4>2. /\ rested \in Session
            /\ rested.user = Nobody /\ rested.up = TRUE /\ rested.tx = "none" /\ rested.locks = {}
            /\ rested.timeout = FALSE
        BY <4>1 DEF NoSession, Session
      <4> HIDE DEF rested
      <4>3. session[s] = rested
        BY <2>2, <3>1, <3>4, <4>2 DEF Session
      <4> QED  BY <4>3 DEF rested
    <3>5. CASE session[s].up = FALSE
      BY <3>2, <3>5, Zenon DEF NoSession
    <3> QED  BY <3>3, <3>4, <3>5
  <2> QED  BY <2>1, <2>2 DEF CleanConnections
<1> QED  BY <1>1, TransactionInvariant, PTL

-----------------------------------------------------------------------------
(* The refinement: the locks are held by the calls in whose session they   *)
(* are, and every step is a step of AtomicCalls or changes nothing there.  *)

HoldersAre ==
    /\ \A s \in Sessions : \A k \in session[s].locks :
           /\ k \in Locks /\ session[s].user \in Callers
           /\ Holder(k) = session[s].user /\ LockOf[session[s].user] = k
    /\ \A k \in Locks : Free(k) => Holder(k) = Nobody

LEMMA HoldersKnown == TransactionInv => HoldersAre
<1> SUFFICES ASSUME TransactionInv  PROVE HoldersAre
  OBVIOUS
<1>1. ASSUME NEW s \in Sessions, NEW k \in session[s].locks
      PROVE  /\ k \in Locks /\ session[s].user \in Callers
             /\ Holder(k) = session[s].user /\ LockOf[session[s].user] = k
  <2>1. session[s] \in Session /\ session[s].user # Nobody
    BY DEF TransactionInv, Typed, SessionsOk, Rested
  <2>2. k \in Locks /\ session[s].user \in Callers
    BY <2>1 DEF Session
  <2>3. LockOf[session[s].user] = k
    BY <2>1 DEF TransactionInv, SessionsOk, HeldOk
  <2>4. \A t \in Sessions : k \in session[t].locks => t = s
    BY <2>2 DEF TransactionInv, LocksExclude
  <2>5. (CHOOSE t \in Sessions : k \in session[t].locks) = s
    BY <2>4
  <2> QED  BY <2>2, <2>3, <2>5 DEF Holder, Free
<1>2. \A k \in Locks : Free(k) => Holder(k) = Nobody
  BY DEF Holder
<1> QED  BY <1>1, <1>2 DEF HoldersAre

LEMMA HoldersKnownNext == TransactionInv' => HoldersAre'
<1> QED  BY HoldersKnown, PTL

\* The locks after a step of the call c on its connection s.
LEMMA HoldersAfter ==
    ASSUME TransactionInv, TransactionInv', NEW c \in Callers, NEW s \in Sessions,
           session[s].user = c \/ session[s].locks = {},
           NEW v, session' = [session EXCEPT ![s] = v], v.locks # {} => v.user = c
    PROVE  \A k \in Locks : Holder(k)' = IF k \in v.locks THEN c
                                         ELSE IF k \in session[s].locks THEN Nobody
                                         ELSE Holder(k)
<1> SUFFICES ASSUME NEW k \in Locks
             PROVE  Holder(k)' = IF k \in v.locks THEN c
                                 ELSE IF k \in session[s].locks THEN Nobody ELSE Holder(k)
  OBVIOUS
<1>1. HoldersAre /\ HoldersAre'
  BY HoldersKnown, HoldersKnownNext
<1>2. /\ session'[s] = v
      /\ \A t \in Sessions \ {s} : session'[t] = session[t]
  BY DEF TransactionInv, Typed
<1>3. CASE k \in v.locks
  BY <1>1, <1>2, <1>3 DEF HoldersAre
<1>4. CASE k \notin v.locks /\ k \in session[s].locks
  <2>1. \A t \in Sessions : k \notin session'[t].locks
    BY <1>2, <1>4 DEF TransactionInv, LocksExclude
  <2> QED  BY <1>1, <1>4, <2>1 DEF HoldersAre, Free
<1>5. CASE k \notin v.locks /\ k \notin session[s].locks
  <2>1. CASE \E t \in Sessions : k \in session[t].locks
    <3>1. PICK t \in Sessions : k \in session[t].locks
      BY <2>1
    <3>2. t # s /\ session'[t] = session[t]
      BY <1>2, <1>5, <3>1
    <3> QED  BY <1>1, <1>5, <3>1, <3>2 DEF HoldersAre
  <2>2. CASE ~\E t \in Sessions : k \in session[t].locks
    <3>1. \A t \in Sessions : k \notin session'[t].locks
      BY <1>2, <1>5, <2>2
    <3> QED  BY <1>1, <1>5, <2>2, <3>1 DEF HoldersAre, Free
  <2> QED  BY <2>1, <2>2
<1> QED  BY <1>3, <1>4, <1>5

\* A call holds the locks of its connection and no others.
LEMMA HoldsMine ==
    ASSUME TransactionInv, NEW c \in Callers, NEW k \in Locks, Holder(k) = c
    PROVE  \E s \in Sessions : session[s].user = c /\ k \in session[s].locks /\ k = LockOf[c]
<1>1. ~Free(k)
  BY HoldersKnown, CallAssumption DEF HoldersAre
<1> QED  BY <1>1, HoldersKnown DEF HoldersAre, Free

\* A step that leaves the locks, and at most tells the call c that it failed,
\* is one of Tell or none.
LEMMA TellRefines ==
    ASSUME NEW c \in Callers, \A k \in Locks : Holder(k)' = Holder(k),
           NEW w, call \in [Callers -> Call], call' = [call EXCEPT ![c] = w], w.batch = call[c].batch,
           Told(c) = "none", Told(c)' = "none" \/ \A k \in Locks : Holder(k) # c,
           Told(c)' \in {"none", "failed"} \cup (IF c \in committed THEN {"ok"} ELSE {}),
           UNCHANGED <<operations, counted, table, committed>>
    PROVE  [Calls!Next]_(Calls!vars)
<1>1. /\ \A d \in Callers : call'[d].batch = call[d].batch
      /\ \A d \in Callers \ {c} : Told(d)' = Told(d)
  BY DEF Told
<1>2. /\ [d \in Callers |-> call[d].batch]' = [d \in Callers |-> call[d].batch]
      /\ [k \in Locks |-> Holder(k)]' = [k \in Locks |-> Holder(k)]
  BY <1>1
<1>3. CASE Told(c)' = "none"
  <2>1. [d \in Callers |-> Told(d)]' = [d \in Callers |-> Told(d)]
    BY <1>1, <1>3
  <2> QED  BY <1>2, <2>1 DEF Calls!vars
<1>4. CASE Told(c)' # "none"
  <2>1. [d \in Callers |-> Told(d)]' = [[d \in Callers |-> Told(d)] EXCEPT ![c] = Told(c)']
    BY <1>1
  <2>2. /\ [d \in Callers |-> Told(d)][c] = "none"
        /\ \A k \in Locks : [l \in Locks |-> Holder(l)][k] # c
        /\ Told(c)' \in {"failed"} \cup (IF c \in committed THEN {"ok"} ELSE {})
    BY <1>4
  <2>3. Calls!Tell(c)
    BY <1>2, <2>1, <2>2 DEF Calls!Tell
  <2> QED  BY <2>3 DEF Calls!Next
<1> QED  BY <1>3, <1>4

\* A step of a call on its connection that commits nothing: its section, if
\* it is in one, goes on or ends without a trace.
LEMMA UncommittedRefines ==
    ASSUME TransactionInv, TransactionInv', NEW c \in Callers, NEW s \in Sessions, session[s].user = c,
           NEW v, session' = [session EXCEPT ![s] = v], v.locks \in {{}, session[s].locks},
           v.locks # {} => v.user = c,
           NEW w, call' = [call EXCEPT ![c] = w], w.batch = call[c].batch,
           Told(c) = "none", Told(c)' \in {"none", "failed"}, Told(c)' = "none" \/ v.locks = {},
           UNCHANGED <<operations, database>>
    PROVE  [Calls!Next]_(Calls!vars)
<1>1. \A k \in Locks : Holder(k)' = IF k \in v.locks THEN c
                                    ELSE IF k \in session[s].locks THEN Nobody ELSE Holder(k)
  BY HoldersAfter
<1>2. \A k \in session[s].locks : k = LockOf[c] /\ k \in Locks /\ Holder(k) = c
  BY HoldersKnown DEF HoldersAre
<1>3. call \in [Callers -> Call] /\ UNCHANGED <<operations, counted, table, committed>>
  BY DEF TransactionInv, Typed, database
<1>4. CASE v.locks = session[s].locks
  <2>1. \A k \in Locks : Holder(k)' = Holder(k)
    BY <1>1, <1>2, <1>4
  <2>2. Told(c)' = "none" \/ \A k \in Locks : Holder(k) # c
    <3> SUFFICES ASSUME session[s].locks = {}, NEW k \in Locks, Holder(k) = c  PROVE FALSE
      BY <1>4
    <3>1. PICK t \in Sessions : session[t].user = c /\ k \in session[t].locks
      BY HoldsMine
    <3>2. t = s
      BY <3>1, CallAssumption DEF TransactionInv, Users
    <3> QED  BY <3>1, <3>2
  <2> QED  BY <1>3, <2>1, <2>2, TellRefines
<1>5. CASE v.locks = {} /\ session[s].locks # {}
  <2>1. LockOf[c] \in Locks /\ Holder(LockOf[c]) = c /\ session[s].locks = {LockOf[c]}
    BY <1>2, <1>5
  <2>2. \A k \in Locks : Holder(k)' = IF k = LockOf[c] THEN Nobody ELSE Holder(k)
    BY <1>1, <1>5, <2>1
  <2>3. /\ \A d \in Callers : call'[d].batch = call[d].batch
        /\ \A d \in Callers \ {c} : Told(d)' = Told(d)
    BY <1>3 DEF Told
  <2>4. [d \in Callers |-> call[d].batch]' = [d \in Callers |-> call[d].batch]
    BY <2>3
  <2>5. [k \in Locks |-> Holder(k)]' = [[k \in Locks |-> Holder(k)] EXCEPT ![LockOf[c]] = Nobody]
    BY <2>2
  <2>6. [d \in Callers |-> Told(d)]' \in
          {[d \in Callers |-> Told(d)], [[d \in Callers |-> Told(d)] EXCEPT ![c] = "failed"]}
    <3>1. CASE Told(c)' = "none"
      BY <2>3, <3>1
    <3>2. CASE Told(c)' = "failed"
      BY <2>3, <3>2
    <3> QED  BY <3>1, <3>2
  <2>7. [k \in Locks |-> Holder(k)][LockOf[c]] = c
    BY <2>1
  <2>8. Calls!Count(c)
    BY <1>3, <2>4, <2>5, <2>6, <2>7 DEF Calls!Count
  <2> QED  BY <2>8 DEF Calls!Next
<1> QED  BY <1>4, <1>5

\* A call which has no connection, or gets one, holds no lock.
LEMMA HoldsNone ==
    ASSUME TransactionInv, NEW c \in Callers, call[c].pc \notin Holding
    PROVE  \A k \in Locks : Holder(k) # c
BY HoldsMine, CallAssumption DEF TransactionInv, Users

LEMMA AddRefines ==
    ASSUME TransactionInv, Add
    PROVE  Calls!Add
<1> DEFINE n == added + 1
<1>1. operations' = Append(operations, n) /\ UNCHANGED <<session, call, counted, table, committed>>
  BY DEF Add, database
<1>2. n \in Commands
  BY BoundAssumption DEF Add, TransactionInv, Typed, Commands
<1>3. \A q \in Seq(Commands) : Numbered(q, added) => n \notin ToSet(q)
  <2> SUFFICES ASSUME NEW q \in Seq(Commands), Numbered(q, added), NEW i \in DOMAIN q, q[i] = n  PROVE FALSE
    BY DEF ToSet
  <2>1. n <= added /\ added \in Nat
    BY DEF Numbered, TransactionInv, Typed
  <2> QED  BY <2>1
<1>4. /\ operations \in Seq(Commands) /\ table \in Seq(Commands)
      /\ \A c \in Callers : call[c].batch \in Seq(Commands)
  BY DEF TransactionInv, Typed, Call
<1>5. n \notin Calls!Known
  <2>1. n \notin ToSet(operations) /\ n \notin ToSet(table)
    BY <1>3, <1>4 DEF TransactionInv, CommandsOk
  <2>2. ASSUME NEW c \in Callers, n \in ToSet([d \in Callers |-> call[d].batch][c])  PROVE FALSE
    BY <1>3, <1>4, <2>2 DEF TransactionInv, CommandsOk
  <2> QED  BY <2>1, <2>2 DEF Calls!Known, Calls!ToSet, ToSet
<1>6. \A k \in Locks : Holder(k)' = Holder(k)
  BY <1>1 DEF Holder, Free
<1>7. \A d \in Callers : Told(d)' = Told(d) /\ call'[d].batch = call[d].batch
  BY <1>1 DEF Told
<1>8. /\ [d \in Callers |-> call[d].batch]' = [d \in Callers |-> call[d].batch]
      /\ [k \in Locks |-> Holder(k)]' = [k \in Locks |-> Holder(k)]
      /\ [d \in Callers |-> Told(d)]' = [d \in Callers |-> Told(d)]
  BY <1>6, <1>7
<1> HIDE DEF n
<1> QED  BY <1>1, <1>2, <1>5, <1>8 DEF Calls!Add

\* A call that is made: an exec takes the commands, another at most fails.
LEMMA StartRefines ==
    ASSUME TransactionInv, NEW c \in Callers, Start(c)
    PROVE  [Calls!Next]_(Calls!vars)
<1>1. PICK job \in JobsOf[c] :
        LET r == [call[c] EXCEPT !.job = job, !.batch = IF job = "exec" THEN operations ELSE <<>>]
        IN  /\ IF pool = 0 THEN call' = [call EXCEPT ![c] = [r EXCEPT !.pc = "loading"]]
               ELSE Asks(c, r, pool)
            /\ IF job = "exec" THEN operations' = <<>> ELSE UNCHANGED operations
  BY DEF Start, Take
<1>2. /\ call[c] = NoCall /\ call \in [Callers -> Call] /\ call[c].pc = "idle"
      /\ UNCHANGED <<session, counted, table, committed>>
  BY DEF Start, At, TransactionInv, CallsOk, CallOk, Typed, database
<1>3. call[c].result = "none" /\ ~call[c].swallowed /\ call[c].batch = <<>> /\ call[c].job = "none"
  BY <1>2 DEF NoCall
<1> DEFINE r == [call[c] EXCEPT !.job = job, !.batch = IF job = "exec" THEN operations ELSE <<>>]
<1>4. PICK w \in {[r EXCEPT !.pc = "loading"], [r EXCEPT !.pc = "waiting"],
                  [r EXCEPT !.pc = "settled", !.result = "failed"]} : call' = [call EXCEPT ![c] = w]
  BY <1>1 DEF Asks
<1>5. /\ w.job = job /\ ~w.swallowed /\ w.result \in {"none", "failed"}
      /\ w.batch = IF job = "exec" THEN operations ELSE <<>>
  BY <1>2, <1>3 DEF Call
<1> HIDE DEF r
<1>6. /\ \A d \in Callers \ {c} : call'[d] = call[d]
      /\ call'[c] = w
  BY <1>2, <1>4
<1>7. Told(c) = "none" /\ Told(c)' \in {"none", "failed"} /\ \A d \in Callers \ {c} : Told(d)' = Told(d)
  BY <1>3, <1>5, <1>6 DEF Told
<1>8. \A k \in Locks : Holder(k)' = Holder(k)
  BY <1>2 DEF Holder, Free
<1>9. \A k \in Locks : Holder(k) # c
  BY <1>2, HoldsNone DEF Holding
<1>10. CASE job = "exec"
  <2>1. operations' = <<>> /\ w.batch = operations
    BY <1>1, <1>5, <1>10
  <2>2. [d \in Callers |-> call[d].batch]' = [[d \in Callers |-> call[d].batch] EXCEPT ![c] = operations]
    BY <1>6, <2>1
  <2>3. [k \in Locks |-> Holder(k)]' = [k \in Locks |-> Holder(k)]
    BY <1>8
  <2>4. [d \in Callers |-> Told(d)]' \in
          {[d \in Callers |-> Told(d)], [[d \in Callers |-> Told(d)] EXCEPT ![c] = "failed"]}
    <3>1. CASE Told(c)' = "none"
      BY <1>7, <3>1
    <3>2. CASE Told(c)' = "failed"
      BY <1>7, <3>2
    <3> QED  BY <1>7, <3>1, <3>2
  <2>5. [d \in Callers |-> Told(d)][c] = "none" /\ [d \in Callers |-> call[d].batch][c] = <<>>
    BY <1>3, <1>7
  <2>6. Calls!Take(c)
    BY <1>2, <2>1, <2>2, <2>3, <2>4, <2>5 DEF Calls!Take
  <2> QED  BY <2>6 DEF Calls!Next
<1>11. CASE job # "exec"
  <2>1. operations' = operations /\ w.batch = call[c].batch
    BY <1>1, <1>3, <1>5, <1>11
  <2> QED  BY <1>2, <1>4, <1>7, <1>8, <1>9, <2>1, TellRefines
<1> QED  BY <1>10, <1>11

\* The call c, which has no connection, at most fails.
LEMMA FailingRefines ==
    ASSUME TransactionInv, NEW c \in Callers, call[c].pc \in {"loading", "waiting"},
           NEW w \in {[call[c] EXCEPT !.pc = "waiting"], [call[c] EXCEPT !.pc = "settled", !.result = "failed"]},
           call' = [call EXCEPT ![c] = w], UNCHANGED <<session, operations, database>>
    PROVE  [Calls!Next]_(Calls!vars)
<1>1. call \in [Callers -> Call] /\ call[c].result = "none" /\ ~call[c].swallowed
  BY DEF TransactionInv, Typed, CallsOk, CallOk
<1>2. /\ w.job = call[c].job /\ ~w.swallowed /\ w.result \in {"none", "failed"}
      /\ w.batch = call[c].batch
  BY <1>1 DEF Call
<1>3. Told(c) = "none" /\ Told(c)' \in {"none", "failed"}
  BY <1>1, <1>2 DEF Told
<1>4. \A k \in Locks : Holder(k)' = Holder(k)
  BY DEF Holder, Free
<1>5. \A k \in Locks : Holder(k) # c
  BY HoldsNone DEF Holding
<1> QED  BY <1>1, <1>2, <1>3, <1>4, <1>5, TellRefines DEF database

LEMMA LoadedRefines ==
    ASSUME TransactionInv, NEW c \in Callers, Loaded(c)
    PROVE  [Calls!Next]_(Calls!vars)
<1>1. call[c].pc = "loading" /\ UNCHANGED <<session, operations, database>>
  BY DEF Loaded, At, pipeline
<1>2. \E w \in {[call[c] EXCEPT !.pc = "waiting"], [call[c] EXCEPT !.pc = "settled", !.result = "failed"]} :
        call' = [call EXCEPT ![c] = w]
  <2>1. Settled(c, "failed") => call' = [call EXCEPT ![c] = [call[c] EXCEPT !.pc = "settled", !.result = "failed"]]
    BY DEF Settled
  <2> QED  BY <2>1 DEF Loaded, Asks
<1> QED  BY <1>1, <1>2, FailingRefines

LEMMA ServeRefines ==
    ASSUME TransactionInv, TransactionInv', NEW p \in Pools, Serve(p)
    PROVE  [Calls!Next]_(Calls!vars)
<1> DEFINE idle == {s \in Idle(p) : session[s].up}
           s == CHOOSE s \in Idle(p) : idle # {} => s \in idle
<1>1. UNCHANGED <<operations, database>>
  BY DEF Serve, pipeline
<1>2. s \in Sessions /\ session[s].user = Nobody
  BY DEF Serve, Idle
<1>3. PICK c \in Callers : c = Head(waiting[p]) /\ call[c].pc = "waiting"
  <2>1. waiting[p] \in Seq(Callers) /\ waiting[p] # <<>>
    BY DEF Serve, TransactionInv, Typed
  <2>2. Head(waiting[p]) \in Callers /\ 1 \in DOMAIN waiting[p] /\ Head(waiting[p]) = waiting[p][1]
    BY <2>1
  <2> QED  BY <2>2 DEF TransactionInv, Queued
<1>4. call \in [Callers -> Call] /\ CallOk(c, call[c], committed)
  BY DEF TransactionInv, Typed, CallsOk
<1>5. session[s] \in Session /\ session[s].locks = {}
  BY <1>2 DEF TransactionInv, Typed, SessionsOk, Rested
<1>6. CASE /\ session' = [session EXCEPT ![s].user = c, ![s].up = TRUE]
           /\ Go(c, IF call[c].job = "query" THEN "query" ELSE "begin")
  <2> DEFINE w == [call[c] EXCEPT !.pc = IF call[c].job = "query" THEN "query" ELSE "begin"]
             v == [session[s] EXCEPT !.user = c, !.up = TRUE]
  <2>1. /\ w.batch = call[c].batch /\ w.job = call[c].job /\ w.result = "none" /\ ~w.swallowed
        /\ call[c].result = "none" /\ ~call[c].swallowed
    BY <1>3, <1>4 DEF Call, CallOk
  <2>2. v.locks = {}
    BY <1>5 DEF Session
  <2>3. call' = [call EXCEPT ![c] = w] /\ session' = [session EXCEPT ![s] = v]
    <3> HIDE DEF s, idle
    <3>1. call' = [call EXCEPT ![c] = w]
      BY <1>4, <1>6 DEF Go
    <3>2. session' = [session EXCEPT ![s] = v]
      BY <1>2, <1>6 DEF TransactionInv, Typed
    <3> QED  BY <3>1, <3>2
  <2> HIDE DEF v, w, s, idle
  <2>4. \A k \in Locks : Holder(k)' = Holder(k)
    BY <1>2, <1>3, <1>5, <2>2, <2>3, HoldersAfter
  <2>5. Told(c) = "none" /\ Told(c)' = "none"
    BY <1>4, <2>1, <2>3 DEF Told
  <2> QED  BY <1>1, <1>4, <2>1, <2>3, <2>4, <2>5, TellRefines DEF database
<1>7. CASE Settled(c, "failed") /\ UNCHANGED session
  <2>1. call' = [call EXCEPT ![c] = [call[c] EXCEPT !.pc = "settled", !.result = "failed"]]
    BY <1>4, <1>7 DEF Settled
  <2> QED  BY <1>1, <1>3, <1>7, <2>1, FailingRefines
<1> QED  BY <1>3, <1>6, <1>7 DEF Serve

\* What the call c is told while it has a connection, and when its record
\* becomes w.
LEMMA ToldOf ==
    ASSUME TransactionInv, NEW c \in Callers, call[c].pc \in Holding, NEW w, w.job = call[c].job,
           call' = [call EXCEPT ![c] = w]
    PROVE  /\ Told(c) = "none"
           /\ w.result = "none" \/ w.job = "query" => Told(c)' = "none"
           /\ w.result = "failed" /\ w.job # "query" => Told(c)' = "failed"
           /\ w.result = "ok" /\ w.job # "query" => Told(c)' = IF w.swallowed THEN "failed" ELSE "ok"
<1>1. call \in [Callers -> Call] /\ CallOk(c, call[c], committed)
  BY DEF TransactionInv, Typed, CallsOk
<1>2. call[c].result = "none" /\ call'[c] = w
  BY <1>1 DEF CallOk, Holding
<1> QED  BY <1>2 DEF Told

\* Steps in which a transaction goes on, or that do not end it yet.
LEMMA OngoingRefines ==
    ASSUME TransactionInv, TransactionInv', NEW c \in Callers,
           \/ Begin(c) \/ Configure(c) \/ Refused(c) \/ Statement(c) \/ StatementFails(c) \/ Throw(c) \/ Lost(c)
    PROVE  [Calls!Next]_(Calls!vars)
<1> DEFINE s == Mine(c)
<1>1. call[c].pc \in Holding /\ UNCHANGED <<operations, database>>
  BY DEF Begin, Configure, Refused, Statement, StatementFails, Throw, Lost, At, Working, Holding, pipeline
<1>2. /\ s \in Sessions /\ session[s].user = c /\ call[c] \in Call /\ session[s] \in Session
      /\ CallOk(c, call[c], committed)
  BY <1>1, WhatIsHeld
<1>3. PICK v \in {session[s], [session[s] EXCEPT !.tx = "open"], [session[s] EXCEPT !.tx = "failed"],
                  [session[s] EXCEPT !.timeout = TRUE]} : session' = [session EXCEPT ![s] = v]
  <2>1. session = [session EXCEPT ![s] = session[s]]
    BY DEF TransactionInv, Typed
  <2> QED
    BY <1>2, <2>1 DEF Begin, Configure, Configured, Refused, Statement, StatementFails, Throw, Lost, TransactionInv, Typed
<1>4. \E w : call' = [call EXCEPT ![c] = w] /\ w.job = call[c].job /\ w.batch = call[c].batch /\ w.result = "none"
  <2>1. call[c].result = "none"
    BY <1>1, <1>2 DEF CallOk, Holding
  <2>2. ASSUME NEW phase, Go(c, phase)
        PROVE  \E w : call' = [call EXCEPT ![c] = w] /\ w.job = call[c].job /\ w.batch = call[c].batch /\ w.result = "none"
    <3> DEFINE w == [call[c] EXCEPT !.pc = phase]
    <3>1. w.job = call[c].job /\ w.batch = call[c].batch /\ w.result = "none"
      BY <1>2, <2>1 DEF Call
    <3>2. call' = [call EXCEPT ![c] = w]
      BY <2>2 DEF Go
    <3> HIDE DEF w
    <3> QED  BY <3>1, <3>2
  <2>3. ASSUME Statement(c)
        PROVE  \E w : call' = [call EXCEPT ![c] = w] /\ w.job = call[c].job /\ w.batch = call[c].batch /\ w.result = "none"
    <3> DEFINE w == [call[c] EXCEPT !.step = @ + 1,
                                    !.saw = IF call[c].job # "exec" /\ call[c].step = 0
                                            THEN counted[LockOf[c]] ELSE @]
    <3>1. w.job = call[c].job /\ w.batch = call[c].batch /\ w.result = "none"
      BY <1>2, <2>1 DEF Call
    <3>2. call' = [call EXCEPT ![c] = w]
      BY <2>3 DEF Statement
    <3> HIDE DEF w
    <3> QED  BY <3>1, <3>2
  <2>4. ASSUME call' = [call EXCEPT ![c].step = Statements(c), ![c].swallowed = TRUE]
        PROVE  \E w : call' = [call EXCEPT ![c] = w] /\ w.job = call[c].job /\ w.batch = call[c].batch /\ w.result = "none"
    <3> DEFINE w == [call[c] EXCEPT !.step = Statements(c), !.swallowed = TRUE]
    <3>1. w.job = call[c].job /\ w.batch = call[c].batch /\ w.result = "none"
      BY <1>2, <2>1 DEF Call
    <3>2. call' = [call EXCEPT ![c] = w]
      BY <2>4
    <3> HIDE DEF w
    <3> QED  BY <3>1, <3>2
  <2>5. CASE StatementFails(c)
    BY <2>2, <2>4, <2>5 DEF StatementFails
  <2>6. CASE Begin(c) \/ Configure(c) \/ Refused(c) \/ Throw(c) \/ Lost(c)
    BY <2>2, <2>6 DEF Begin, Configure, Refused, Throw, Lost
  <2> QED  BY <2>3, <2>5, <2>6
<1>5. PICK w : call' = [call EXCEPT ![c] = w] /\ w.job = call[c].job /\ w.batch = call[c].batch /\ w.result = "none"
  BY <1>4
<1>6. Told(c) = "none" /\ Told(c)' = "none"
  BY <1>1, <1>5, ToldOf
<1>7. v.locks = session[s].locks /\ v.user = c
  BY <1>2, <1>3 DEF Session
<1> HIDE DEF s
<1> QED  BY <1>1, <1>2, <1>3, <1>5, <1>6, <1>7, UncommittedRefines

\* Steps in which a call ends without having committed, and those in which
\* the server ends its transaction so.
LEMMA AbandonedRefines ==
    ASSUME TransactionInv, TransactionInv', NEW c \in Callers,
           Query(c) \/ Rollback(c) \/ (Commit(c) /\ session[Mine(c)].tx = "failed")
    PROVE  [Calls!Next]_(Calls!vars)
<1> DEFINE s == Mine(c)
<1>1. call[c].pc \in {"query", "rollback", "work"} /\ UNCHANGED <<operations, database>>
  BY DEF Query, Rollback, Commit, At, Working, pipeline
<1>2. /\ s \in Sessions /\ session[s].user = c /\ call[c] \in Call /\ session[s] \in Session
      /\ CallOk(c, call[c], committed) /\ HeldOk(c, call[c], session[s])
      /\ ~session[s].up => Rested(session[s])
  BY <1>1, WhatIsHeld DEF Holding
<1>3. \E v : session' = [session EXCEPT ![s] = v] /\ v.locks = {}
  <2>1. CASE Query(c)
    <3>1. session[s].locks = {}
      BY <1>2, <2>1 DEF Query, At, HeldOk, Rested
    <3>2. [session[s] EXCEPT !.user = Nobody].locks = {}
      BY <1>2, <3>1 DEF Session
    <3> QED  BY <2>1, <3>2 DEF Query, Released
  <2>2. CASE Rollback(c) /\ session[s].up
    <3> DEFINE v == [Ended(session[s]) EXCEPT !.user = Nobody]
    <3>1. v.locks = {}
      BY <1>2 DEF Session, Ended
    <3>2. session' = [session EXCEPT ![s] = v]
      BY <1>2, <2>2 DEF Rollback, Released, Alive, TransactionInv, Typed
    <3> QED  BY <3>1, <3>2
  <2>3. CASE Rollback(c) /\ ~session[s].up
    <3>1. [session[s] EXCEPT !.user = Nobody].locks = {}
      BY <1>2, <2>3 DEF Session, Rested
    <3> QED  BY <2>3, <3>1 DEF Rollback, Released, Alive
  <2>4. CASE Commit(c)
    <3>1. Ended(session[s]).locks = {}
      BY <1>2 DEF Session, Ended
    <3> QED  BY <2>4, <3>1 DEF Commit
  <2> QED  BY <2>1, <2>2, <2>3, <2>4
<1>4. PICK v : session' = [session EXCEPT ![s] = v] /\ v.locks = {}
  BY <1>3
<1>5. \E w : /\ call' = [call EXCEPT ![c] = w] /\ w.job = call[c].job /\ w.batch = call[c].batch
             /\ w.result \in {"none", "failed"} \/ (w.result = "ok" /\ w.job = "query")
  <2>1. CASE Query(c)
    <3>1. call[c].job = "query"
      BY <1>2, <2>1 DEF Query, At, CallOk
    <3>2. PICK result \in {"ok", "failed"} : Settled(c, result)
      BY <2>1 DEF Query
    <3> DEFINE w == [call[c] EXCEPT !.pc = "settled", !.result = result]
    <3>3. w.job = call[c].job /\ w.batch = call[c].batch /\ w.result = result
      BY <1>2 DEF Call
    <3>4. call' = [call EXCEPT ![c] = w]
      BY <3>2 DEF Settled
    <3> HIDE DEF w
    <3> QED  BY <3>1, <3>2, <3>3, <3>4
  <2>2. CASE Rollback(c)
    <3> DEFINE w == [call[c] EXCEPT !.pc = "settled", !.result = "failed"]
    <3>1. w.job = call[c].job /\ w.batch = call[c].batch /\ w.result = "failed"
      BY <1>2 DEF Call
    <3>2. call' = [call EXCEPT ![c] = w]
      BY <2>2 DEF Rollback, Settled
    <3> HIDE DEF w
    <3> QED  BY <3>1, <3>2
  <2>3. CASE Commit(c)
    <3> DEFINE w == [call[c] EXCEPT !.pc = "committed"]
    <3>1. w.job = call[c].job /\ w.batch = call[c].batch /\ w.result = "none"
      BY <1>1, <1>2 DEF Call, CallOk
    <3>2. call' = [call EXCEPT ![c] = w]
      BY <2>3 DEF Commit, Go
    <3> HIDE DEF w
    <3> QED  BY <3>1, <3>2
  <2> QED  BY <2>1, <2>2, <2>3
<1>6. PICK w : /\ call' = [call EXCEPT ![c] = w] /\ w.job = call[c].job /\ w.batch = call[c].batch
               /\ w.result \in {"none", "failed"} \/ (w.result = "ok" /\ w.job = "query")
  BY <1>5
<1>7. Told(c) = "none" /\ Told(c)' \in {"none", "failed"}
  BY <1>1, <1>6, ToldOf DEF Holding
<1> HIDE DEF s
<1>8. s \in Sessions /\ session[s].user = c
  BY <1>2 DEF s
<1> QED  BY <1>1, <1>4, <1>6, <1>7, <1>8, UncommittedRefines

LEMMA BreakRefines ==
    ASSUME TransactionInv, TransactionInv', NEW c \in Callers, Break(c)
    PROVE  [Calls!Next]_(Calls!vars)
<1>1. PICK s \in Sessions : /\ session[s].user = c
                           /\ session' = [session EXCEPT ![s] = [Ended(@) EXCEPT !.up = FALSE]]
  BY DEF Break
<1> DEFINE v == [Ended(session[s]) EXCEPT !.up = FALSE]
<1>2. session[s] \in Session /\ call[c].pc \in Holding /\ call' = [call EXCEPT ![c] = call[c]]
  <2>1. session[s] \in Session
    BY DEF TransactionInv, Typed
  <2>2. call[c].pc \in Holding
    BY <1>1, CallAssumption DEF TransactionInv, Users
  <2>3. call \in [Callers -> Call] /\ UNCHANGED call
    BY DEF TransactionInv, Typed, Break
  <2>4. call' = [call EXCEPT ![c] = call[c]]
    BY <2>3
  <2> QED  BY <2>1, <2>2, <2>4
<1>3. v.locks = {} /\ session' = [session EXCEPT ![s] = v]
  BY <1>1, <1>2 DEF Session, Ended, TransactionInv, Typed
<1>4. CallOk(c, call[c], committed)
  BY DEF TransactionInv, CallsOk
<1>5. Told(c) = "none" /\ Told(c)' = "none"
  BY <1>2, <1>4, ToldOf DEF CallOk, Holding
<1>6. UNCHANGED <<operations, database>>
  BY DEF Break, pipeline
<1> HIDE DEF v
<1> QED  BY <1>1, <1>2, <1>3, <1>5, <1>6, UncommittedRefines

\* Steps of a call on its connection that tell it nothing: what is there of
\* the calls but the locks and what is committed stays.
LEMMA UntoldStep ==
    ASSUME TransactionInv, NEW c \in Callers, call[c].pc \in Holding,
           NEW w, call' = [call EXCEPT ![c] = w], w.job = call[c].job, w.batch = call[c].batch, w.result = "none"
    PROVE  /\ [d \in Callers |-> call[d].batch]' = [d \in Callers |-> call[d].batch]
           /\ [d \in Callers |-> Told(d)]' = [d \in Callers |-> Told(d)]
           /\ [d \in Callers |-> Told(d)][c] = "none"
<1>1. Told(c) = "none" /\ Told(c)' = "none"
  BY ToldOf
<1>2. /\ \A d \in Callers : call'[d].batch = call[d].batch
      /\ \A d \in Callers \ {c} : Told(d)' = Told(d)
  BY DEF Told, TransactionInv, Typed
<1> QED  BY <1>1, <1>2

LEMMA LockRefines ==
    ASSUME TransactionInv, TransactionInv', NEW c \in Callers, Lock(c)
    PROVE  Calls!Enter(c)
<1> DEFINE s == Mine(c)
           v == [session[s] EXCEPT !.locks = {LockOf[c]}]
           w == [call[c] EXCEPT !.pc = "work"]
<1>1. /\ call[c].pc = "lock" /\ Free(LockOf[c]) /\ session[s].up /\ LockOf[c] \in Locks
      /\ UNCHANGED <<operations, counted, table, committed>>
  BY CallAssumption DEF Lock, At, Alive, pipeline, database
<1>2. /\ s \in Sessions /\ session[s].user = c /\ call[c] \in Call /\ session[s] \in Session
      /\ CallOk(c, call[c], committed) /\ HeldOk(c, call[c], session[s])
  BY <1>1, WhatIsHeld DEF Holding
<1>3. v.locks = {LockOf[c]} /\ v.user = c /\ session[s].locks = {}
  BY <1>1, <1>2 DEF Session, HeldOk
<1>4. session' = [session EXCEPT ![s] = v] /\ call' = [call EXCEPT ![c] = w]
  BY <1>2 DEF Lock, Locked, Go, TransactionInv, Typed
<1>5. w.job = call[c].job /\ w.batch = call[c].batch /\ w.result = "none" /\ c \notin committed
  BY <1>1, <1>2 DEF Call, CallOk
<1> HIDE DEF s, v, w
<1>6. \A k \in Locks : Holder(k)' = IF k = LockOf[c] THEN c ELSE Holder(k)
  BY ZenonT(30), <1>2, <1>3, <1>4, HoldersAfter
<1>7. Holder(LockOf[c]) = Nobody
  BY <1>1, HoldersKnown DEF HoldersAre
<1>8. /\ [d \in Callers |-> call[d].batch]' = [d \in Callers |-> call[d].batch]
      /\ [d \in Callers |-> Told(d)]' = [d \in Callers |-> Told(d)]
      /\ [d \in Callers |-> Told(d)][c] = "none"
  BY <1>1, <1>4, <1>5, UntoldStep DEF Holding
<1>9. /\ [k \in Locks |-> Holder(k)]' = [[k \in Locks |-> Holder(k)] EXCEPT ![LockOf[c]] = c]
      /\ [k \in Locks |-> Holder(k)][LockOf[c]] = Nobody
  BY <1>1, <1>6, <1>7
<1> QED  BY <1>1, <1>5, <1>8, <1>9 DEF Calls!Enter

\* COMMIT of a transaction in which no statement has failed.
LEMMA CommitRefines ==
    ASSUME TransactionInv, TransactionInv', NEW c \in Callers, Commit(c), session[Mine(c)].tx # "failed"
    PROVE  Calls!Count(c) \/ Calls!Publish(c)
<1> DEFINE s == Mine(c)
           v == Ended(session[s])
           w == [call[c] EXCEPT !.pc = "committed"]
<1>1. /\ call[c].pc = "work" /\ session[s].up /\ ~Left(c) /\ LockOf[c] \in Locks
      /\ operations' = operations /\ committed' = committed \cup {c}
  BY CallAssumption DEF Commit, Working, At, Alive, pipeline
<1>2. /\ s \in Sessions /\ session[s].user = c /\ call[c] \in Call /\ session[s] \in Session
      /\ CallOk(c, call[c], committed) /\ HeldOk(c, call[c], session[s])
      /\ SawLast(c, call[c], session[s], counted)
  BY <1>1, WhatIsHeld DEF Holding
<1>3. /\ v.locks = {} /\ session[s].tx = "open"
      /\ session[s].locks = IF call[c].job = "exec" THEN {} ELSE {LockOf[c]}
  BY <1>1, <1>2 DEF Session, HeldOk, Ended
<1>4. session' = [session EXCEPT ![s] = v] /\ call' = [call EXCEPT ![c] = w]
  BY <1>2 DEF Commit, Go, TransactionInv, Typed
<1>5. w.job = call[c].job /\ w.batch = call[c].batch /\ w.result = "none" /\ c \notin committed
  BY <1>1, <1>2 DEF Call, CallOk
<1> HIDE DEF s, v, w
<1>6. \A k \in Locks : Holder(k)' = IF k \in session[s].locks THEN Nobody ELSE Holder(k)
  BY <1>2, <1>3, <1>4, HoldersAfter
<1>7. /\ [d \in Callers |-> call[d].batch]' = [d \in Callers |-> call[d].batch]
      /\ [d \in Callers |-> Told(d)]' = [d \in Callers |-> Told(d)]
      /\ [d \in Callers |-> Told(d)][c] = "none"
  BY <1>1, <1>4, <1>5, UntoldStep DEF Holding
<1>8. CASE call[c].job = "exec"
  <2>1. table' = table \o [d \in Callers |-> call[d].batch][c] /\ counted' = counted
    BY <1>8 DEF Commit
  <2>2. [k \in Locks |-> Holder(k)]' = [k \in Locks |-> Holder(k)]
    BY <1>3, <1>6, <1>8
  <2>3. \A k \in Locks : Holder(k) # c
    <3> SUFFICES ASSUME NEW k \in Locks, Holder(k) = c  PROVE FALSE
      OBVIOUS
    <3>1. PICK t \in Sessions : session[t].user = c /\ k \in session[t].locks
      BY HoldsMine
    <3>2. t = s
      BY <1>2, <3>1, CallAssumption DEF TransactionInv, Users
    <3> QED  BY <1>3, <1>8, <3>1, <3>2
  <2>4. \A k \in Locks : [l \in Locks |-> Holder(l)][k] # c
    BY <2>3
  <2> QED  BY <1>1, <1>5, <1>7, <2>1, <2>2, <2>4 DEF Calls!Publish
<1>9. CASE call[c].job # "exec"
  <2>1. call[c].step = 2
    BY <1>1, <1>2, <1>9 DEF Left, Statements, CallOk, Call
  <2>2. call[c].saw = counted[LockOf[c]]
    BY <1>1, <1>2, <1>3, <1>9, <2>1 DEF SawLast
  <2>3. counted' = [counted EXCEPT ![LockOf[c]] = @ + 1] /\ table' = table
    BY <1>9, <2>2 DEF Commit
  <2>4. Holder(LockOf[c]) = c
    BY <1>2, <1>3, <1>9, HoldersKnown DEF HoldersAre
  <2>5. /\ [k \in Locks |-> Holder(k)]' = [[k \in Locks |-> Holder(k)] EXCEPT ![LockOf[c]] = Nobody]
        /\ [k \in Locks |-> Holder(k)][LockOf[c]] = c
    BY <1>1, <1>3, <1>6, <1>9, <2>4
  <2> QED  BY <1>1, <1>7, <2>3, <2>5 DEF Calls!Count
<1> QED  BY <1>8, <1>9

\* A call that resolves has committed, or hid a statement that failed.
LEMMA ReleaseRefines ==
    ASSUME TransactionInv, TransactionInv', NEW c \in Callers, Release(c)
    PROVE  [Calls!Next]_(Calls!vars)
<1> DEFINE s == Mine(c)
           v == [session[s] EXCEPT !.user = Nobody]
           w == [call[c] EXCEPT !.pc = "settled", !.result = "ok"]
<1>1. call[c].pc = "committed" /\ UNCHANGED <<operations, counted, table, committed>>
  BY DEF Release, At, pipeline, database
<1>2. /\ s \in Sessions /\ session[s].user = c /\ call[c] \in Call /\ session[s] \in Session
      /\ CallOk(c, call[c], committed) /\ HeldOk(c, call[c], session[s])
  BY <1>1, WhatIsHeld DEF Holding
<1>3. v.locks = {} /\ session[s].locks = {}
  BY <1>1, <1>2 DEF Session, HeldOk, Rested
<1>4. session' = [session EXCEPT ![s] = v] /\ call' = [call EXCEPT ![c] = w]
  BY <1>2 DEF Release, Released, Settled, TransactionInv, Typed
<1>5. /\ w.job = call[c].job /\ w.batch = call[c].batch /\ w.result = "ok" /\ w.job # "query"
      /\ w.swallowed = call[c].swallowed /\ (~w.swallowed => c \in committed)
  BY <1>1, <1>2 DEF Call, CallOk, Holding
<1> HIDE DEF s, v, w
<1>6. \A k \in Locks : Holder(k)' = Holder(k)
  BY <1>2, <1>3, <1>4, HoldersAfter
<1>7. \A k \in Locks : Holder(k) # c
  <2> SUFFICES ASSUME NEW k \in Locks, Holder(k) = c  PROVE FALSE
    OBVIOUS
  <2>1. PICK t \in Sessions : session[t].user = c /\ k \in session[t].locks
    BY HoldsMine
  <2>2. t = s
    BY <1>2, <2>1, CallAssumption DEF TransactionInv, Users
  <2> QED  BY <1>3, <2>1, <2>2
<1>8. Told(c) = "none" /\ Told(c)' = IF w.swallowed THEN "failed" ELSE "ok"
  BY <1>1, <1>4, <1>5, ToldOf DEF Holding
<1>9. call \in [Callers -> Call] /\ Told(c)' \in {"none", "failed"} \cup (IF c \in committed THEN {"ok"} ELSE {})
  BY <1>5, <1>8 DEF TransactionInv, Typed
<1> QED  BY <1>1, <1>4, <1>5, <1>6, <1>7, <1>8, <1>9, TellRefines

\* close() is seen by no call that is served.
LEMMA ClosingRefines ==
    ASSUME Close \/ Closed \/ UNCHANGED vars
    PROVE  UNCHANGED Calls!vars
<1>1. UNCHANGED <<session, call, operations, counted, table, committed>>
  BY DEF Close, Closed, vars, pipeline, database
<1>2. \A k \in Locks : Holder(k)' = Holder(k)
  BY <1>1 DEF Holder, Free
<1>3. \A d \in Callers : Told(d)' = Told(d) /\ call'[d].batch = call[d].batch
  BY <1>1 DEF Told
<1>4. /\ [d \in Callers |-> call[d].batch]' = [d \in Callers |-> call[d].batch]
      /\ [k \in Locks |-> Holder(k)]' = [k \in Locks |-> Holder(k)]
      /\ [d \in Callers |-> Told(d)]' = [d \in Callers |-> Told(d)]
  BY <1>2, <1>3
<1> QED  BY <1>1, <1>4 DEF Calls!vars

LEMMA InitRefines == Init => Calls!Init
<1> SUFFICES ASSUME Init  PROVE Calls!Init
  OBVIOUS
<1>1. \A k \in Locks : Free(k) /\ Holder(k) = Nobody
  BY DEF Init, Free, Holder, NoSession
<1>2. \A c \in Callers : Told(c) = "none" /\ call[c].batch = <<>>
  BY DEF Init, Told, NoCall
<1> QED  BY <1>1, <1>2 DEF Init, Calls!Init

LEMMA NextRefines == TransactionInv /\ TransactionInv' /\ [Next]_vars => [Calls!Next]_(Calls!vars)
<1> SUFFICES ASSUME TransactionInv, TransactionInv', [Next]_vars  PROVE [Calls!Next]_(Calls!vars)
  OBVIOUS
<1>1. CASE Add
  BY <1>1, AddRefines DEF Calls!Next
<1>2. ASSUME NEW c \in Callers, Start(c) \/ Break(c)  PROVE [Calls!Next]_(Calls!vars)
  BY <1>2, StartRefines, BreakRefines
<1>3. ASSUME NEW c \in Callers, Step(c)  PROVE [Calls!Next]_(Calls!vars)
  <2>1. CASE Commit(c) /\ session[Mine(c)].tx # "failed"
    BY <2>1, CommitRefines DEF Calls!Next
  <2>2. CASE Lock(c)
    BY <2>2, LockRefines DEF Calls!Next
  <2>3. CASE Query(c) \/ Rollback(c) \/ (Commit(c) /\ session[Mine(c)].tx = "failed")
    BY <2>3, AbandonedRefines
  <2>4. CASE Begin(c) \/ Configure(c) \/ Refused(c) \/ Statement(c) \/ StatementFails(c) \/ Throw(c) \/ Lost(c)
    BY <2>4, OngoingRefines
  <2>5. CASE Loaded(c) \/ Release(c)
    BY <2>5, LoadedRefines, ReleaseRefines
  <2> QED  BY <1>3, <2>1, <2>2, <2>3, <2>4, <2>5 DEF Step
<1>4. ASSUME NEW p \in Pools, Serve(p)  PROVE [Calls!Next]_(Calls!vars)
  BY <1>4, ServeRefines
<1>5. CASE Close \/ Closed \/ UNCHANGED vars
  BY <1>5, ClosingRefines
<1> QED  BY <1>1, <1>2, <1>3, <1>4, <1>5 DEF Next

\* Sections under a lock exclude each other up to their COMMIT and lose no
\* count, an exec's commands become visible together, in order and once, and
\* a call resolves only if it has committed: what overlaps, fails or breaks is
\* a behaviour of AtomicCalls (withPgAdvisoryLock, exec of PgredisPipeline).
THEOREM ImplementsAtomicCalls == Spec => Serialized
<1> QED  BY InitRefines, NextRefines, TransactionInvariant, PTL DEF Spec, Serialized, Calls!Spec
=============================================================================
