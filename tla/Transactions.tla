---------------------------- MODULE Transactions ----------------------------
(***************************************************************************)
(* The transactions of a client: createPgAdapter                           *)
(* (src/packages/pgredis/src/adapters/node.ts) with its pool made on first *)
(* use, withPgAdvisoryLock (advisory-lock.ts), batch() (client.ts) and     *)
(* PgredisPipeline (pipeline.ts) on top of it.  An action is what happens  *)
(* between two awaits of a call, or what the server does with a statement. *)
(*                                                                         *)
(* Of the data, a section under a lock reads a count and writes one more;  *)
(* an exec writes its commands.  The pool and PostgreSQL are modelled from *)
(* what the code uses of them: a pool gives its connections in the order   *)
(* they are asked for, and none any more once it is ended; a transaction   *)
(* takes its locks and its settings with it when it ends.                  *)
(***************************************************************************)
EXTENDS Naturals, Sequences, FiniteSets, SequencesExt

CONSTANTS
    Callers,        \* calls of unsafe, withLock and exec, each made once
    Nobody,
    JobsOf,         \* [Callers -> SUBSET Jobs]: what a call may be
    Locks,
    LockOf,         \* [Callers -> Locks]: keys of the same SQL arguments are one
    Impatient,      \* the callers that give a lockTimeoutMs
    Parent,         \* [Callers -> Callers \cup {Nobody}]: in whose callback
    PoolSize,       \* connections of a pool
    MaxPools,       \* bound: pools made
    MaxCommands,    \* bound: commands added to the pipeline
    MaxCloses,      \* bound: calls of close() that end a pool
    Faults,         \* the kinds of failure that happen
    MaxFaults       \* bound: failures in a behaviour

Jobs == {"query", "lock", "try", "exec"}
FaultKinds == {"load", "connect", "statement", "throw", "break"}
Commands == 1..MaxCommands

ASSUME CallAssumption ==
    /\ Nobody \notin Callers
    /\ JobsOf \in [Callers -> SUBSET Jobs]
    /\ LockOf \in [Callers -> Locks]
    /\ Impatient \subseteq Callers
    /\ Parent \in [Callers -> Callers \cup {Nobody}]
ASSUME BoundAssumption ==
    /\ IsFiniteSet(Callers) /\ PoolSize \in Nat \ {0}
    /\ {MaxPools, MaxCommands, MaxCloses, MaxFaults} \subseteq Nat
    /\ Faults \subseteq FaultKinds

Pools == 1..MaxPools
Sessions == Pools \X (1..PoolSize)

VARIABLES
    pool,       \* this.pool of the adapter; 0 for null
    made,       \* the pools made so far
    ending,     \* the pools whose end() was called
    closing,    \* the pool whose end() a close() awaits; 0 if none does
    closes,     \* the calls of close() so far
    waiting,    \* [Pools -> Seq(Callers)]: connect() of the pool is pending
    session,    \* [Sessions -> Session]: the connections and the server's side
    call,       \* [Callers -> Call]
    operations, \* the commands of the pipeline
    added,      \* how many there have been
    counted,    \* [Locks -> Nat]: the row that the sections under a lock count in
    table,      \* the rows of the commands
    committed,  \* the calls whose transaction is committed
    faults      \* the failures so far

adapter == <<pool, made, ending, closing, closes>>
pipeline == <<operations, added>>
database == <<counted, table, committed>>
vars == <<adapter, waiting, session, call, pipeline, database, faults>>

\* loading: getPool is pending; waiting: connect() of the pool is; query to
\* rollback: the statement is not executed; committed: the reply of COMMIT is
\* not handled.
Phases == {"idle", "loading", "waiting", "query", "begin", "configure", "lock",
           "work", "committed", "rollback", "settled"}
\* up: the connection works; tx: the transaction in progress; timeout: a
\* lock_timeout is set.
Session == [user : Callers \cup {Nobody}, up : BOOLEAN, tx : {"none", "open", "failed"},
            locks : SUBSET Locks, timeout : BOOLEAN]
\* step: the statements of the callback so far; saw: the count it has read;
\* swallowed: it went on after one failed.
Call == [pc : Phases, job : Jobs \cup {"none"}, step : Nat, saw : Nat,
         batch : Seq(Commands), swallowed : BOOLEAN, result : {"none", "ok", "failed"}]

NoSession == [user |-> Nobody, up |-> FALSE, tx |-> "none", locks |-> {}, timeout |-> FALSE]
NoCall == [pc |-> "idle", job |-> "none", step |-> 0, saw |-> 0,
           batch |-> <<>>, swallowed |-> FALSE, result |-> "none"]

Init ==
    /\ pool = 0 /\ made = 0 /\ ending = {} /\ closing = 0 /\ closes = 0
    /\ waiting = [p \in Pools |-> <<>>]
    /\ session = [s \in Sessions |-> NoSession]
    /\ call = [c \in Callers |-> NoCall]
    /\ operations = <<>> /\ added = 0
    /\ counted = [k \in Locks |-> 0] /\ table = <<>> /\ committed = {}
    /\ faults = 0

At(c, phase) == call[c].pc = phase
Go(c, phase) == call' = [call EXCEPT ![c].pc = phase]
Settled(c, result) == call' = [call EXCEPT ![c].pc = "settled", ![c].result = result]

Fault(kind) == kind \in Faults /\ faults < MaxFaults /\ faults' = faults + 1

\* The connection a call has, and whether it still works.
Mine(c) == CHOOSE s \in Sessions : session[s].user = c
Alive(c) == session[Mine(c)].up

-----------------------------------------------------------------------------
(* Calls, and the pool they find or make.                                  *)

\* The application adds a command to the pipeline.
Add ==
    /\ added < MaxCommands
    /\ added' = added + 1 /\ operations' = Append(operations, added')
    /\ UNCHANGED <<adapter, waiting, session, call, database, faults>>

\* A callback awaits the calls made in it.
Awaits(c) == \E d \in Callers : Parent[d] = c /\ call[d].pc \notin {"idle", "settled"}
MayCall(c) ==
    Parent[c] # Nobody =>
        At(Parent[c], "work") /\ call[Parent[c]].step = 1 /\ ~Awaits(Parent[c])

TakeKeeping == UNCHANGED operations     \* a mutant of Take: they are not cleared
Take == operations' = <<>>

\* A call that has its pool asks it for a connection: pool.connect and
\* pool.query reject once the pool is ended.
Asks(c, record, p) ==
    IF p \in ending
    THEN /\ call' = [call EXCEPT ![c] = [record EXCEPT !.pc = "settled", !.result = "failed"]]
         /\ UNCHANGED waiting
    ELSE /\ call' = [call EXCEPT ![c] = [record EXCEPT !.pc = "waiting"]]
         /\ waiting' = [waiting EXCEPT ![p] = Append(@, c)]

\* unsafe, withLock and exec run up to the first await that takes long: the
\* import of pg, or the pool's connection.
Loading == {c \in Callers : At(c, "loading")}
Start(c) ==
    /\ At(c, "idle") /\ MayCall(c)
    /\ pool = 0 => made + Cardinality(Loading) < MaxPools
    /\ \E job \in JobsOf[c] :
        /\ LET record == [call[c] EXCEPT !.job = job,
                                         !.batch = IF job = "exec" THEN operations ELSE <<>>]
           IN  IF pool = 0
               THEN call' = [call EXCEPT ![c] = [record EXCEPT !.pc = "loading"]]
                    /\ UNCHANGED waiting
               ELSE Asks(c, record, pool)
        /\ IF job = "exec" THEN Take ELSE UNCHANGED operations
    /\ UNCHANGED <<adapter, session, added, database, faults>>

\* The import of pg ends: the call makes a pool, though another may have.
Loaded(c) ==
    /\ At(c, "loading")
    /\ \/ /\ made' = made + 1 /\ pool' = made'
          /\ Asks(c, call[c], made')
          /\ UNCHANGED faults
       \/ /\ Fault("load") /\ Settled(c, "failed")
          /\ UNCHANGED <<pool, made, waiting>>
    /\ UNCHANGED <<ending, closing, closes, session, pipeline, database>>

\* The pool gives a connection to the first call that waits, an idle one
\* rather than a new one, which may fail to connect.
Idle(p) == {s \in Sessions : s[1] = p /\ session[s].user = Nobody}
Serve(p) ==
    /\ waiting[p] # <<>> /\ p \notin ending /\ Idle(p) # {}
    /\ waiting' = [waiting EXCEPT ![p] = Tail(@)]
    /\ LET c == Head(waiting[p])
           idle == {s \in Idle(p) : session[s].up}
           s == CHOOSE s \in Idle(p) : idle # {} => s \in idle
       IN  \/ /\ session' = [session EXCEPT ![s].user = c, ![s].up = TRUE]
              /\ Go(c, IF call[c].job = "query" THEN "query" ELSE "begin")
              /\ UNCHANGED faults
           \/ /\ idle = {} /\ Fault("connect")
              /\ Settled(c, "failed")
              /\ UNCHANGED session
    /\ UNCHANGED <<adapter, pipeline, database>>

\* close() ends the pool held, if there is one, and lets go of the pool held
\* when that is done, whichever that is.
Close ==
    /\ closes < MaxCloses /\ closing = 0 /\ pool # 0
    /\ closes' = closes + 1
    /\ ending' = ending \cup {pool} /\ closing' = pool
    /\ UNCHANGED <<pool, made, waiting, session, call, pipeline, database, faults>>

InUse(p) == \E s \in Sessions : s[1] = p /\ session[s].user # Nobody
Closed ==
    /\ closing # 0 /\ ~InUse(closing)
    /\ closing' = 0 /\ pool' = 0
    /\ UNCHANGED <<made, ending, closes, waiting, session, call, pipeline, database, faults>>

-----------------------------------------------------------------------------
(* The statements of a transaction.                                        *)

ReleasedAfterCommit(c, sessions) ==     \* a mutant of Released: not in a finally block
    IF At(c, "committed") \/ call[c].job = "query"
    THEN [sessions EXCEPT ![Mine(c)].user = Nobody] ELSE sessions
\* client.release(): the sessions without the call.
Released(c, sessions) == [sessions EXCEPT ![Mine(c)].user = Nobody]

\* The statement of unsafe, on a connection of its own.
Query(c) ==
    /\ At(c, "query")
    /\ session' = Released(c, session)
    /\ \/ Alive(c) /\ Settled(c, "ok") /\ UNCHANGED faults
       \/ ~Alive(c) /\ Settled(c, "failed") /\ UNCHANGED faults
       \/ Alive(c) /\ Fault("statement") /\ Settled(c, "failed")
    /\ UNCHANGED <<adapter, waiting, pipeline, database>>

\* BEGIN; withPgAdvisoryLock goes on in the callback of begin().
Begin(c) ==
    /\ At(c, "begin") /\ Alive(c)
    /\ session' = [session EXCEPT ![Mine(c)].tx = "open"]
    /\ Go(c, IF call[c].job = "exec" THEN "work"
             ELSE IF c \in Impatient THEN "configure" ELSE "lock")
    /\ UNCHANGED <<adapter, waiting, pipeline, database, faults>>

ConfiguredElsewhere(c) == UNCHANGED session     \* a mutant of Configured: sql for tx
Configured(c) == session' = [session EXCEPT ![Mine(c)].timeout = TRUE]
Configure(c) ==
    /\ At(c, "configure") /\ Alive(c)
    /\ Configured(c)
    /\ Go(c, "lock")
    /\ UNCHANGED <<adapter, waiting, pipeline, database, faults>>

Free(k) == \A s \in Sessions : k \notin session[s].locks

LockedElsewhere(c) == UNCHANGED session         \* a mutant of Locked: sql for tx
Locked(c) == session' = [session EXCEPT ![Mine(c)].locks = {LockOf[c]}]

\* pg_advisory_xact_lock or pg_try_advisory_xact_lock returns.
Lock(c) ==
    /\ At(c, "lock") /\ Alive(c) /\ Free(LockOf[c])
    /\ Locked(c)
    /\ Go(c, "work")
    /\ UNCHANGED <<adapter, waiting, pipeline, database, faults>>

\* PgAdvisoryLockBusyError, or the lock_timeout passes.
Refused(c) ==
    /\ At(c, "lock") /\ Alive(c) /\ ~Free(LockOf[c])
    /\ \/ call[c].job = "try" /\ UNCHANGED session
       \/ /\ call[c].job = "lock" /\ session[Mine(c)].timeout
          /\ session' = [session EXCEPT ![Mine(c)].tx = "failed"]
    /\ Go(c, "rollback")
    /\ UNCHANGED <<adapter, waiting, pipeline, database, faults>>

\* The callback: a section reads the count and writes it, an exec awaits its
\* commands one by one.
Statements(c) == IF call[c].job = "exec" THEN Len(call[c].batch) ELSE 2
LeftTooLong(c) == call[c].step <= Statements(c)     \* a mutant of Left
Left(c) == call[c].step < Statements(c)
Working(c) == At(c, "work") /\ ~Awaits(c)

Statement(c) ==
    /\ Working(c) /\ Left(c) /\ Alive(c)
    /\ call' = [call EXCEPT ![c].step = @ + 1,
                            ![c].saw = IF call[c].job # "exec" /\ call[c].step = 0
                                       THEN counted[LockOf[c]] ELSE @]
    /\ UNCHANGED <<adapter, waiting, session, pipeline, database, faults>>

\* A statement fails, and so do all after it.  The callback throws, as that of
\* exec does when an operation does; or what the application has written, a
\* callback of begin, withLock or batch or an operation it adds to the
\* pipeline, catches the error, and the callback returns.
StatementFails(c) ==
    /\ Working(c) /\ Left(c) /\ Alive(c)
    /\ Fault("statement")
    /\ session' = [session EXCEPT ![Mine(c)].tx = "failed"]
    /\ \/ Go(c, "rollback")
       \/ call' = [call EXCEPT ![c].step = Statements(c), ![c].swallowed = TRUE]
    /\ UNCHANGED <<adapter, waiting, pipeline, database>>

\* The callback throws, for a call that failed in it or of its own accord.
Throw(c) ==
    /\ Working(c)
    /\ \/ /\ \E d \in Callers : Parent[d] = c /\ call[d].result = "failed"
          /\ UNCHANGED faults
       \/ Fault("throw")
    /\ Go(c, "rollback")
    /\ UNCHANGED <<adapter, waiting, session, pipeline, database>>

\* What is left of a session when its transaction ends.
EndedKeeping(s) == [s EXCEPT !.tx = "none", !.locks = {}]   \* a mutant of Ended: is_local false
Ended(s) == [s EXCEPT !.tx = "none", !.locks = {}, !.timeout = FALSE]

\* COMMIT, which rolls back when a statement has failed, and says so to nobody.
Commit(c) ==
    /\ Working(c) /\ ~Left(c) /\ Alive(c)
    /\ Go(c, "committed")
    /\ IF session[Mine(c)].tx = "failed" THEN UNCHANGED database
       ELSE /\ committed' = committed \cup {c}
            /\ IF call[c].job = "exec"
               THEN table' = table \o call[c].batch /\ UNCHANGED counted
               ELSE counted' = [counted EXCEPT ![LockOf[c]] = call[c].saw + 1] /\ UNCHANGED table
    /\ session' = [session EXCEPT ![Mine(c)] = Ended(@)]
    /\ UNCHANGED <<adapter, waiting, pipeline, faults>>

\* The reply of COMMIT: the connection goes back to the pool.
Release(c) ==
    /\ At(c, "committed") /\ Alive(c)
    /\ session' = Released(c, session)
    /\ Settled(c, "ok")
    /\ UNCHANGED <<adapter, waiting, pipeline, database, faults>>

\* ROLLBACK, whose failure is ignored, and the connection goes back.
Rollback(c) ==
    /\ At(c, "rollback")
    /\ session' = Released(c, IF Alive(c) THEN [session EXCEPT ![Mine(c)] = Ended(@)] ELSE session)
    /\ Settled(c, "failed")
    /\ UNCHANGED <<adapter, waiting, pipeline, database, faults>>

\* The connection breaks, and the server ends its transaction.  begin() hears
\* of it from the statement in progress or the next.  The client emits an
\* error event too, for which begin() registers no listener: that the process
\* goes on, as here, takes a handler of uncaught exceptions.  Without one it
\* ends, and every transaction with it, as if each connection broke here and
\* no call took another step: of what follows here, that leaves nothing out
\* but what no longer happens.
Break(c) ==
    /\ Fault("break")
    /\ \E s \in Sessions :
        /\ session[s].user = c /\ session[s].up
        /\ session' = [session EXCEPT ![s] = [Ended(@) EXCEPT !.up = FALSE]]
    /\ UNCHANGED <<adapter, waiting, call, pipeline, database>>

\* A statement, or the reply that was to come, fails for it.
Lost(c) ==
    /\ call[c].pc \in {"begin", "configure", "lock", "committed"} \/ Working(c)
    /\ ~Alive(c)
    /\ Go(c, "rollback")
    /\ UNCHANGED <<adapter, waiting, session, pipeline, database, faults>>

-----------------------------------------------------------------------------
(* The specification.                                                      *)

Step(c) ==
    \/ Loaded(c) \/ Query(c)
    \/ Begin(c) \/ Configure(c) \/ Lock(c) \/ Refused(c)
    \/ Statement(c) \/ StatementFails(c) \/ Throw(c)
    \/ Commit(c) \/ Release(c) \/ Rollback(c) \/ Lost(c)

Next ==
    \/ Add
    \/ \E c \in Callers : Start(c) \/ Step(c) \/ Break(c)
    \/ \E p \in Pools : Serve(p)
    \/ Close \/ Closed

Spec == Init /\ [][Next]_vars

\* The import ends, the pool gives what it has, the server executes what it
\* can, a lock_timeout passes, and callbacks end.  As calls are made once, it is
\* enough that one of these happens as long as one of them can.
Progress == \/ \E c \in Callers : Step(c)
            \/ \E p \in Pools : Serve(p)
            \/ Closed
Fairness == WF_vars(Progress)

FairSpec == Spec /\ Fairness

-----------------------------------------------------------------------------
(* Properties.                                                             *)

\* Type correctness; a callback makes the statements it has.
TypeOK ==
    /\ {pool, made, closing} \subseteq Pools \cup {0} /\ ending \subseteq Pools
    /\ closes \in 0..MaxCloses /\ faults \in 0..MaxFaults
    /\ waiting \in [Pools -> Seq(Callers)]
    /\ session \in [Sessions -> Session]
    /\ call \in [Callers -> Call]
    /\ \A c \in Callers : call[c].step <= Statements(c)
    /\ operations \in Seq(Commands) /\ added \in 0..MaxCommands
    /\ counted \in [Locks -> Nat] /\ table \in Seq(Commands) /\ committed \subseteq Callers

\* A connection is with one call from connect() to release(), and goes back to
\* the pool as it came: without a transaction, a lock or a lock_timeout that
\* the next call would inherit (begin, set_config with is_local).
CleanConnections ==
    /\ \A c \in Callers :
        Cardinality({s \in Sessions : session[s].user = c}) =
            IF call[c].pc \in {"idle", "loading", "waiting", "settled"} THEN 0 ELSE 1
    /\ \A s \in Sessions :
        session[s].user = Nobody => session[s] \in {NoSession, [NoSession EXCEPT !.up = TRUE]}

\* Whatever overlaps, fails or breaks: sections under a lock exclude each
\* other up to their COMMIT and lose no count, the commands of an exec become
\* visible together, in order and once, and a call resolves only if its
\* transaction is committed, unless its callback hid a failed statement.
Holder(k) ==
    IF Free(k) THEN Nobody ELSE session[CHOOSE s \in Sessions : k \in session[s].locks].user
Told(c) == IF call[c].job = "query" THEN "none"
           ELSE IF call[c].swallowed /\ call[c].result = "ok" THEN "failed"
           ELSE call[c].result
Calls == INSTANCE AtomicCalls
            WITH batch <- [c \in Callers |-> call[c].batch],
                 holder <- [k \in Locks |-> Holder(k)],
                 told <- [c \in Callers |-> Told(c)]
Serialized == Calls!Spec

\* With a lock_timeout the calls settle, although those that wait for a lock
\* hold the connections which a call in the section of its holder waits for;
\* and close() ends when the connections are back.  There are two exceptions:
\* nothing in the code limits how long pool.connect() and pool.query() take.
\* A pool that is ended never serves the calls which wait for it.  And when
\* every connection of a pool is with a call whose callback awaits another
\* call that waits for that pool, no connection ever comes back.  Hanging are
\* the calls for which that is so, directly or not.  As a call is made once,
\* it is enough that again and again nothing else is under way.
HeldBy(p, S) == \A s \in Sessions : s[1] = p => session[s].user \in S
AwaitsOneOf(c, S) ==
    \/ \E d \in S : Parent[d] = c
    \/ /\ At(c, "waiting")
       /\ \E p \in Pools : c \in ToSet(waiting[p]) /\ (p \in ending \/ HeldBy(p, S))
Awaiting == {c \in Callers : call[c].pc = "waiting" \/ Awaits(c)}
Hanging == UNION {S \in SUBSET Awaiting : \A c \in S : AwaitsOneOf(c, S)}
SettledBut(H) ==
    /\ \A c \in Callers \ H : call[c].pc \in {"idle", "settled"}
    /\ closing # 0 => \E s \in Sessions : s[1] = closing /\ session[s].user \in H
Settles == []<>SettledBut(Hanging)
=============================================================================
