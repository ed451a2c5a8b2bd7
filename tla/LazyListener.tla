---------------------------- MODULE LazyListener ----------------------------
(***************************************************************************)
(* createBunPgListener (src/packages/pgredis/src/pubsub.ts): the listener  *)
(* of @postgresx/bun-listen behind a wrapper that imports it.  What is     *)
(* called before the import has ended waits in a queue of the wrapper,     *)
(* with PgKvCache's subscription to "reconnect", which it makes as soon as *)
(* it has the wrapper (kv-cache.ts), at its head.                          *)
(*                                                                         *)
(* The variables of BunListener are in their initial values until then.    *)
(***************************************************************************)
EXTENDS BunListener

CONSTANT MayFailToLoad      \* the import may fail

ASSUME LoadAssumption == MayFailToLoad \in BOOLEAN

VARIABLES
    handle,     \* loading; set; failed: loadError is; abandoned: neither is
                \* and the import has ended
    queue,      \* the calls made before: numbers of notify(), 0 for on()
    closedEarly,    \* close() was called while handle was null
    dropped,    \* the calls of notify() that close() took off the queue
    handler,    \* the one of "reconnect": queued, on or off
    deaf        \* a "reconnect" was emitted that it did not get

wrapper == <<handle, queue, closedEarly, dropped, handler>>
lazyVars == <<vars, wrapper, deaf>>

Subscription == 0

LazyInit ==
    /\ Init
    /\ handle = "loading" /\ queue = <<Subscription>> /\ closedEarly = FALSE /\ dropped = {}
    /\ handler = "queued" /\ deaf = FALSE

Notified(Q) == {n \in Notifies : n \in ToSet(Q)}

ForwardedLast == Reverse(queue)     \* a mutant of Forwarded: pop instead of splice
ForwardedHead ==                    \* a mutant of Forwarded: if instead of for
    IF queue = <<>> THEN <<>> ELSE <<Head(queue)>>
Forwarded == queue

HandlerLeft == UNCHANGED handler    \* a mutant of HandlerCalled
HandlerCalled == handler' = IF Subscription \in ToSet(queue) THEN "on" ELSE handler

HandleAnyway == TRUE        \* a mutant of MayHandle
MayHandle == ~closedEarly

\* The import ends: the calls in the queue are made, in their order.
Load ==
    /\ handle = "loading"
    /\ IF MayHandle
       THEN /\ handle' = "set" /\ queue' = <<>>
            /\ queryQueue' = LET notifies == RemoveFirst(Forwarded, Subscription)
                             IN  [i \in DOMAIN notifies |-> NotifyQuery(notifies[i])]
            /\ HandlerCalled
       ELSE /\ handle' = "abandoned"
            /\ UNCHANGED <<queue, queryQueue, handler>>
    /\ UNCHANGED <<status, closed, startupReady, readyForQuery, connectionPhase, reconnectTimer,
                   healthTimer, activeQuery, activeError, reconnectAttempts, outcome, peer, link,
                   wire, stale, faults, closedEarly, dropped, deaf>>

RejectedNone == outcome     \* a mutant of Rejected
Rejected == [n \in Notifies |-> IF n \in Notified(queue) THEN "rejected" ELSE outcome[n]]

\* It fails, or createPgListener throws.
LoadFails ==
    /\ MayFailToLoad
    /\ handle = "loading"
    /\ handle' = "failed" /\ queue' = <<>>
    /\ outcome' = Rejected
    /\ UNCHANGED <<status, closed, startupReady, readyForQuery, connectionPhase, reconnectTimer,
                   healthTimer, queryQueue, activeQuery, activeError, reconnectAttempts, peer,
                   link, wire, stale, faults, closedEarly, dropped, handler, deaf>>

\* A step of the listener, which emits "reconnect" when it counts an attempt.
Within(A) ==
    /\ handle = "set"
    /\ A
    /\ deaf' = (deaf \/ (reconnectAttempts' > reconnectAttempts /\ handler = "queued"))
    /\ UNCHANGED wrapper

\* notify(n) without a handle.
LazyNotify(n) ==
    /\ handle # "set"
    /\ outcome[n] = "unused"
    /\ \A m \in Notifies : m < n => outcome[m] # "unused"
    /\ IF handle = "failed"
       THEN outcome' = [outcome EXCEPT ![n] = "rejected"] /\ UNCHANGED queue
       ELSE outcome' = [outcome EXCEPT ![n] = "pending"] /\ queue' = Append(queue, n)
    /\ UNCHANGED <<status, closed, startupReady, readyForQuery, connectionPhase, reconnectTimer,
                   healthTimer, queryQueue, activeQuery, activeError, reconnectAttempts, peer,
                   link, wire, stale, faults, handle, closedEarly, dropped, handler, deaf>>

\* close() without a handle: the promises of the queue are not settled.
LazyClose ==
    /\ handle # "set" /\ ~closedEarly
    /\ closedEarly' = TRUE
    /\ queue' = <<>> /\ dropped' = dropped \cup Notified(queue)
    /\ UNCHANGED <<vars, handle, handler, deaf>>

\* The function that on() has returned: stopInvalidationListener calls it.
Unsubscribe ==
    /\ handler # "off"
    /\ handler' = "off"
    /\ queue' = RemoveFirst(queue, Subscription)
    /\ UNCHANGED <<vars, handle, closedEarly, dropped, deaf>>

-----------------------------------------------------------------------------
(* The specification.                                                      *)

LazyNext ==
    \/ Load \/ LoadFails
    \/ \E n \in Notifies : LazyNotify(n)
    \/ LazyClose
    \/ Unsubscribe
    \/ Within(ReconnectTimer) \/ Within(Open) \/ Within(ConnectFails) \/ Within(SocketClose)
    \/ Within(Messaging)
    \/ \E n \in Notifies : Within(Notify(n))
    \/ Within(HealthCheck)
    \/ Within(Close)
    \/ Within(Peer)

LazySpec == LazyInit /\ [][LazyNext]_lazyVars

\* The import ends, the timer fires, the event loop delivers what arrives, and
\* a server that can be reached answers.
LazyFairness ==
    /\ WF_lazyVars(Load)
    /\ WF_lazyVars(Within(ReconnectTimer)) /\ WF_lazyVars(Within(Open))
    /\ WF_lazyVars(Within(SocketClose)) /\ WF_lazyVars(Within(Messaging))
    /\ WF_lazyVars(Within(SslResponse)) /\ WF_lazyVars(Within(Admit))
    /\ WF_lazyVars(Within(Execute))

LazyFairSpec == LazySpec /\ LazyFairness

-----------------------------------------------------------------------------
(* Properties.                                                             *)

\* Type correctness of the wrapper and of the listener.
LazyTypeOK ==
    /\ TypeOK
    /\ handle \in {"loading", "set", "failed", "abandoned"}
    /\ queue \in Seq(Notifies \cup {Subscription})
    /\ closedEarly \in BOOLEAN /\ deaf \in BOOLEAN /\ dropped \subseteq Notifies
    /\ handler \in {"queued", "on", "off"}

\* No promise of notify() is forgotten, from the wrapper's queue to the answer
\* of the server: it is pending exactly as long as its call is in one place of
\* the two queues, once (run, enqueueQuery, resetConnectionState,
\* rejectActiveQuery and rejectQueuedQueries), except those that close() takes
\* off the wrapper's queue.  None is with the listener after its close(); a
\* call made after the close() of a wrapper that has none still waits in the
\* wrapper's queue.
Accounted ==
    /\ \A n \in Notifies :
            outcome[n] = "pending" <=>
                NotifyQuery(n) \in ToSet(Unanswered) \/ n \in ToSet(queue) \cup dropped
    /\ IsInjective(Unanswered) /\ IsInjective(queue)
    /\ handle = "set" => queue = <<>> /\ dropped = {}
    /\ closed => Unanswered = <<>>

\* What PgKvCache sees: nothing of a connection whose loss it was not told of.
LazyConn ==
    IF closedEarly \/ handler = "off" THEN "off"
    ELSE IF handle # "set" THEN "starting"
    ELSE IF deaf /\ Conn # "up" THEN "lost" ELSE Conn

\* A listener with channels keeps, through the wrapper, the promise PgKvCache
\* clears its L1 on: "reconnect" reaches its handler between the loss of a
\* LISTEN and the next one.
Listener == INSTANCE PgListener WITH conn <- LazyConn
KeepsContract == Listener!Spec

AnyClosed == closed \/ closedEarly

\* The socket, and getHealth().status.
LazyLink == IF handle = "set" THEN link ELSE "none"
LazyStatus == IF handle = "set" THEN status ELSE IF closedEarly THEN "closed" ELSE "connecting"

\* When the failures stop, the listener is connected again, unless it was
\* closed or never loaded.
Reconnects == <>[](AnyClosed \/ handle = "failed" \/ LazyStatus = "connected")

\* Every promise of notify() of a listener with channels (without, see
\* registerListenChannels) is settled, except two kinds that the wrapper
\* forgets: those that close() takes off its queue before the import has
\* ended (close), and those of calls made after that close(), before the end
\* of the import or after it, which wait for a handle that is never set (run;
\* the listener itself rejects a call after close()).  If the import fails,
\* the latter are rejected too.
Orphaned == dropped \cup (IF handle = "abandoned" THEN Notified(queue) ELSE {})
LazySettles == []<>(\A n \in Notifies : outcome[n] = "pending" => n \in Orphaned)

\* Nothing connects again after close(), not even a timer or an import that was
\* pending, and "closed" is the last status (connect, scheduleReconnect and
\* handleSocketClose; the import of createBunPgListener).
ClosedForGood ==
    [][AnyClosed => /\ AnyClosed'
                    /\ LazyLink = "none" => LazyLink' = "none"
                    /\ LazyStatus = "closed" => LazyStatus' = "closed"]_lazyVars

\* After close() the socket is closed, even one that was still connecting or
\* an import away, and the listener reports it; and both for good.
Released == [](AnyClosed => <>[](LazyLink = "none" /\ LazyStatus = "closed")) /\ ClosedForGood
=============================================================================
