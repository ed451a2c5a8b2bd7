----------------------------- MODULE BunListener -----------------------------
(***************************************************************************)
(* createPgListener (src/packages/bun-listen/src/index.ts): a LISTEN /     *)
(* NOTIFY client on one socket that reconnects, with a queue of queries of *)
(* which one at a time is with the server.  An action is one callback: a   *)
(* socket event, a message, a timer, or a call of close() or notify(),     *)
(* with the continuations of the promises it settles.                      *)
(*                                                                         *)
(* The peer is modelled from the protocol: it negotiates TLS, admits or    *)
(* refuses the client, and answers a query with ReadyForQuery.  Message    *)
(* bytes, authentication exchanges and notifications are left out.         *)
(***************************************************************************)
EXTENDS Integers, Sequences, SequencesExt

CONSTANTS
    NotifyCalls,    \* how often notify() is called
    HasChannels,    \* option channels is not empty
    Tls,            \* "off", "prefer" (allowPlainFallback) or "require"
    HealthChecks,   \* healthCheckIntervalMs > 0
    Faults,         \* the kinds of failure that happen
    MaxFaults       \* bound: failures in a behaviour

Notifies == 1..NotifyCalls      \* in the order of the calls
FaultKinds == {"connect", "break", "ssl", "refuse", "query"}

ASSUME NotifyAssumption == NotifyCalls \in Nat
ASSUME OptionAssumption == /\ HasChannels \in BOOLEAN
                           /\ Tls \in {"off", "prefer", "require"}
                           /\ HealthChecks \in BOOLEAN
ASSUME FaultAssumption == Faults \subseteq FaultKinds /\ MaxFaults \in Nat

VARIABLES
    status, closed, startupReady, readyForQuery, connectionPhase,
    reconnectTimer, healthTimer,    \* is it set?
    queryQueue, activeQuery,
    activeError,        \* activeQuery.error is set
    reconnectAttempts,
    outcome,            \* [Notifies -> ...]: the promise of each notify()
    link,               \* the socket: none, connecting, open; or its close
                        \* event is to come: ended (by us), broken
    wire,               \* the messages the client has not read
    server,             \* the peer: off, ssl, tls, startup, idle, busy
    asked,              \* the query it has not answered
    listening,          \* it has executed LISTEN on this connection
    executed,           \* the notify() queries it has executed, in order
    stale,              \* a LISTEN ended without a "reconnect" event since
    faults              \* the failures so far

client == <<status, closed, startupReady, readyForQuery, connectionPhase, reconnectTimer,
            healthTimer, queryQueue, activeQuery, activeError, reconnectAttempts, outcome>>
peer == <<server, asked, listening, executed>>
vars == <<client, peer, link, wire, stale, faults>>

Queries == [kind : {"listen", "notify", "health"}, id : Notifies \cup {0}]
Listen == [kind |-> "listen", id |-> 0]
Health == [kind |-> "health", id |-> 0]
NotifyQuery(n) == [kind |-> "notify", id |-> n]
None == [kind |-> "none", id |-> 0]

Messages == {"S", "N", "secured", "unsecured", "unsupported", "error", "ready"}
Outcomes == {"unused", "pending", "resolved", "rejected"}

\* activeSocket # null: open sets it and close clears it.
HasSocket == link \in {"open", "ended", "broken"}

\* socket.end(): the close event is to come.
Ended == IF link = "open" THEN "ended" ELSE link

Init ==
    /\ status = "connecting" /\ closed = FALSE
    /\ startupReady = FALSE /\ readyForQuery = FALSE /\ connectionPhase = "socket"
    /\ reconnectTimer = FALSE /\ healthTimer = FALSE
    /\ queryQueue = <<>> /\ activeQuery = None /\ activeError = FALSE
    /\ reconnectAttempts = 0
    /\ outcome = [n \in Notifies |-> "unused"]
    /\ link = "connecting" /\ wire = <<>>
    /\ server = "off" /\ asked = None /\ listening = FALSE /\ executed = <<>>
    /\ stale = FALSE /\ faults = 0

-----------------------------------------------------------------------------
(* Queries.                                                                *)

\* The promises of the queries of Q are settled.
Settle(Q, result) == [n \in Notifies |-> IF NotifyQuery(n) \in Q THEN result ELSE outcome[n]]

\* flushQueryQueue, when no query is active: the queue is q.
Flush(q, ready) ==
    IF ~closed /\ HasSocket /\ ready /\ q # <<>>
    THEN /\ activeQuery' = Head(q) /\ activeError' = FALSE
         /\ queryQueue' = Tail(q)
         /\ readyForQuery' = FALSE
         /\ IF link = "open" THEN server' = "busy" /\ asked' = Head(q)
                             ELSE UNCHANGED <<server, asked>>
    ELSE /\ activeQuery' = None /\ activeError' = FALSE
         /\ queryQueue' = q
         /\ readyForQuery' = ready
         /\ UNCHANGED <<server, asked>>

\* enqueueQuery, while not closed.
Enqueue(query) ==
    /\ IF activeQuery = None THEN Flush(Append(queryQueue, query), readyForQuery)
       ELSE /\ queryQueue' = Append(queryQueue, query)
            /\ UNCHANGED <<activeQuery, activeError, readyForQuery, server, asked>>
    /\ UNCHANGED <<listening, executed>>

DropActive ==       \* a mutant of RejectActive: resetConnectionState alone
    /\ activeQuery' = None /\ activeError' = FALSE
    /\ UNCHANGED <<queryQueue, outcome>>
RetryActive ==      \* a mutant of RejectActive: the query is sent again
    /\ activeQuery' = None /\ activeError' = FALSE
    /\ queryQueue' = IF activeQuery = None THEN queryQueue ELSE <<activeQuery>> \o queryQueue
    /\ UNCHANGED outcome
RequeueActive ==    \* a mutant of RejectActive: whether there is one or not
    /\ activeQuery' = None /\ activeError' = FALSE
    /\ queryQueue' = <<activeQuery>> \o queryQueue
    /\ UNCHANGED outcome
\* rejectActiveQuery.
RejectActive ==
    /\ activeQuery' = None /\ activeError' = FALSE
    /\ outcome' = Settle({activeQuery}, "rejected")
    /\ UNCHANGED queryQueue

\* rejectQueuedQueries.
RejectAll ==
    /\ queryQueue' = <<>> /\ activeQuery' = None /\ activeError' = FALSE
    /\ outcome' = Settle(ToSet(queryQueue) \cup {activeQuery}, "rejected")

-----------------------------------------------------------------------------
(* Connecting.                                                             *)

EmitNothing == stale' = (stale \/ listening)   \* a mutant of EmitReconnect
EmitReconnect == stale' = FALSE

\* scheduleReconnect, while not closed.  A handler of its events may call
\* close() before the timer is set, which does not keep it from being set.
ScheduleReconnect ==
    /\ healthTimer' = FALSE
    /\ reconnectAttempts' = reconnectAttempts + 1
    /\ EmitReconnect
    /\ reconnectTimer' = TRUE
    /\ \/ status' = "reconnecting" /\ RejectActive /\ UNCHANGED closed
       \/ status' = "closed" /\ RejectAll /\ closed' = TRUE

StartupKept == UNCHANGED startupReady           \* a mutant of StartupReset
StartupReset == startupReady' = FALSE

ConnectAnyway == TRUE           \* a mutant of MayConnect
MayConnect == ~closed

\* The timer calls connect.
ReconnectTimer ==
    /\ reconnectTimer
    /\ reconnectTimer' = FALSE
    /\ IF MayConnect
       THEN /\ StartupReset /\ readyForQuery' = FALSE /\ connectionPhase' = "socket"
            /\ activeQuery' = None /\ activeError' = FALSE
            /\ status' = IF reconnectAttempts > 0 THEN "reconnecting" ELSE "connecting"
            /\ link' = "connecting"
       ELSE UNCHANGED <<status, startupReady, readyForQuery, connectionPhase, activeQuery,
                        activeError, link>>
    /\ UNCHANGED <<closed, healthTimer, queryQueue, reconnectAttempts, outcome, peer, wire,
                   stale, faults>>

\* The socket opens, even after close().
Open ==
    /\ link = "connecting"
    /\ link' = "open"
    /\ connectionPhase' = IF Tls = "off" THEN "startup" ELSE "ssl-request"
    /\ server' = IF Tls = "off" THEN "startup" ELSE "ssl"
    /\ UNCHANGED <<status, closed, startupReady, readyForQuery, reconnectTimer, healthTimer,
                   queryQueue, activeQuery, activeError, reconnectAttempts, outcome, asked,
                   listening, executed, wire, stale, faults>>

Fault(f) == f \in Faults /\ faults < MaxFaults /\ faults' = faults + 1

ScheduleNothing == UNCHANGED <<client, stale>>      \* a mutant of Retry
Retry == IF closed THEN UNCHANGED <<client, stale>>
         ELSE ScheduleReconnect /\ UNCHANGED <<startupReady, readyForQuery, connectionPhase>>

\* Bun.connect rejects.
ConnectFails ==
    /\ Fault("connect")
    /\ link = "connecting"
    /\ link' = "none"
    /\ Retry
    /\ UNCHANGED <<peer, wire>>

\* handleSocketClose.
SocketClose ==
    /\ link = "ended" \/ (link = "broken" /\ wire = <<>>)
    /\ link' = "none" /\ wire' = <<>>
    /\ readyForQuery' = FALSE
    /\ server' = "off" /\ asked' = None /\ listening' = FALSE
    /\ IF closed
       THEN /\ status' = "closed" /\ healthTimer' = FALSE
            /\ RejectAll
            /\ UNCHANGED <<closed, reconnectTimer, reconnectAttempts, stale>>
       ELSE ScheduleReconnect
    /\ UNCHANGED <<startupReady, connectionPhase, executed, faults>>

-----------------------------------------------------------------------------
(* Messages.                                                               *)

Read(m) == link \in {"open", "ended", "broken"} /\ wire # <<>> /\ Head(wire) = m /\ wire' = Tail(wire)

\* startPostgresStartup.
StartPostgresStartup ==
    /\ connectionPhase' = "startup"
    /\ server' = IF link = "open" THEN "startup" ELSE server

\* processSSLResponse, handshake and handleAuthentication.
Negotiate ==
    /\ \/ /\ Read("S")
          /\ connectionPhase' = "tls-handshake"
          /\ UNCHANGED <<link, server>>
       \/ /\ Read("secured") \/ (Read("N") /\ Tls = "prefer")
          /\ StartPostgresStartup
          /\ UNCHANGED link
       \/ /\ Read("unsecured") \/ Read("unsupported") \/ (Read("N") /\ Tls = "require")
          /\ link' = Ended
          /\ UNCHANGED <<connectionPhase, server>>
    /\ UNCHANGED <<status, closed, startupReady, readyForQuery, reconnectTimer, healthTimer,
                   queryQueue, activeQuery, activeError, reconnectAttempts, outcome, asked,
                   listening, executed, stale, faults>>

\* markConnected, and nothing once closed.
MarkConnected ==
    IF closed THEN UNCHANGED <<connectionPhase, reconnectAttempts, status, healthTimer>>
    ELSE /\ connectionPhase' = "ready"
         /\ reconnectAttempts' = 0
         /\ status' = "connected"
         /\ healthTimer' = HealthChecks

RegisteredAnyway == activeQuery = Listen       \* a mutant of Registered
Registered == activeQuery = Listen /\ ~activeError

\* ReadyForQuery answers the active query, whose promise is settled after the
\* next query has been sent: LISTEN done marks the listener connected, and an
\* error of LISTEN or of a health check ends the connection.
AnswerReady ==
    /\ Read("ready") /\ activeQuery # None
    /\ Flush(queryQueue, TRUE)
    /\ outcome' = Settle({activeQuery}, IF activeError THEN "rejected" ELSE "resolved")
    /\ IF Registered THEN MarkConnected
       ELSE UNCHANGED <<connectionPhase, reconnectAttempts, status, healthTimer>>
    /\ link' = IF activeError /\ activeQuery \in {Listen, Health} THEN Ended ELSE link
    /\ UNCHANGED <<closed, startupReady, reconnectTimer, listening, executed, stale, faults>>

EndNever == link                \* a mutant of EndWhenClosed
EndWhenClosed == IF closed THEN Ended ELSE link

\* The first ReadyForQuery of a connection: registerListenChannels.  When
\* closed, enqueueQuery rejects LISTEN, which ends the connection.
StartupReady ==
    /\ Read("ready") /\ activeQuery = None /\ ~startupReady
    /\ startupReady' = TRUE
    /\ IF HasChannels
       THEN /\ Flush(IF closed THEN queryQueue ELSE <<Listen>> \o queryQueue, TRUE)
            /\ link' = EndWhenClosed
            /\ UNCHANGED <<connectionPhase, reconnectAttempts, status, healthTimer>>
       ELSE /\ readyForQuery' = TRUE
            /\ MarkConnected
            /\ UNCHANGED <<queryQueue, activeQuery, activeError, server, asked, link>>
    /\ UNCHANGED <<closed, reconnectTimer, outcome, listening, executed, stale, faults>>

\* Any other ReadyForQuery.
LateReady ==
    /\ Read("ready") /\ activeQuery = None /\ startupReady
    /\ Flush(queryQueue, TRUE)
    /\ UNCHANGED <<status, closed, startupReady, connectionPhase, reconnectTimer, healthTimer,
                   reconnectAttempts, outcome, link, listening, executed, stale, faults>>

\* handlePostgresError.
PostgresError ==
    /\ Read("error")
    /\ activeError' = (activeQuery # None)
    /\ UNCHANGED <<status, closed, startupReady, readyForQuery, connectionPhase, reconnectTimer,
                   healthTimer, queryQueue, activeQuery, reconnectAttempts, outcome, link, peer,
                   stale, faults>>

-----------------------------------------------------------------------------
(* Calls and the health timer.                                             *)

\* notify(n), the next call; once closed its promise is rejected.
Notify(n) ==
    /\ outcome[n] = "unused"
    /\ \A m \in Notifies : m < n => outcome[m] # "unused"
    /\ outcome' = [outcome EXCEPT ![n] = IF closed THEN "rejected" ELSE "pending"]
    /\ IF closed THEN UNCHANGED <<queryQueue, activeQuery, activeError, readyForQuery, peer>>
                 ELSE Enqueue(NotifyQuery(n))
    /\ UNCHANGED <<status, closed, startupReady, connectionPhase, reconnectTimer, healthTimer,
                   reconnectAttempts, link, wire, stale, faults>>

\* The interval of startHealthTimer, when it enqueues a health check.
HealthCheck ==
    /\ healthTimer /\ ~closed /\ status = "connected"
    /\ activeQuery = None /\ Health \notin ToSet(queryQueue)
    /\ Enqueue(Health)
    /\ UNCHANGED <<status, closed, startupReady, connectionPhase, reconnectTimer, healthTimer,
                   reconnectAttempts, outcome, link, wire, stale, faults>>

Close ==
    /\ ~closed
    /\ closed' = TRUE
    /\ reconnectTimer' = FALSE /\ healthTimer' = FALSE
    /\ link' = Ended
    /\ RejectAll
    /\ status' = IF HasSocket THEN status ELSE "closed"
    /\ UNCHANGED <<startupReady, readyForQuery, connectionPhase, reconnectAttempts, peer, wire,
                   stale, faults>>

-----------------------------------------------------------------------------
(* The peer.                                                               *)

Reachable == link \in {"open", "ended"}

\* It answers the SSLRequest, and the TLS handshake succeeds or fails.
SslResponse ==
    /\ link = "open"
    /\ \/ /\ server = "ssl"
          /\ \/ wire' = Append(wire, "S") /\ server' = "tls" /\ UNCHANGED faults
             \/ wire' = Append(wire, "N") /\ server' = "off" /\ Fault("ssl")
       \/ /\ server = "tls" /\ server' = "off" /\ connectionPhase = "tls-handshake"
          /\ \/ wire' = Append(wire, "secured") /\ UNCHANGED faults
             \/ wire' = Append(wire, "unsecured") /\ Fault("ssl")
    /\ UNCHANGED <<client, asked, listening, executed, link, stale>>

\* It admits the client.
Admit ==
    /\ link = "open" /\ server = "startup"
    /\ wire' = Append(wire, "ready") /\ server' = "idle"
    /\ UNCHANGED <<client, asked, listening, executed, link, stale, faults>>

\* It refuses the client with an ErrorResponse and the end of the connection,
\* or asks for an authentication the client does not support.
Refuse ==
    /\ Fault("refuse")
    /\ link = "open" /\ server = "startup"
    /\ server' = "off"
    /\ \/ wire' = Append(wire, "error") /\ link' = "broken"
       \/ wire' = Append(wire, "unsupported") /\ UNCHANGED link
    /\ UNCHANGED <<client, asked, listening, executed, stale>>

\* It executes the query, or fails to.
Execute ==
    /\ Reachable /\ server = "busy"
    /\ server' = "idle" /\ asked' = None
    /\ \/ /\ wire' = Append(wire, "ready")
          /\ listening' = (listening \/ asked = Listen)
          /\ executed' = IF asked.kind = "notify" THEN Append(executed, asked.id) ELSE executed
          /\ UNCHANGED faults
       \/ /\ Fault("query")
          /\ wire' = wire \o <<"error", "ready">>
          /\ UNCHANGED <<listening, executed>>
    /\ UNCHANGED <<client, link, stale>>

\* The connection breaks: a part of what it sent still arrives.
Break ==
    /\ Fault("break")
    /\ link = "open"
    /\ link' = "broken" /\ server' = "off" /\ asked' = None
    /\ \E n \in 0..Len(wire) : wire' = SubSeq(wire, 1, n)
    /\ UNCHANGED <<client, listening, executed, stale>>

-----------------------------------------------------------------------------
(* The specification.                                                      *)

Messaging == Negotiate \/ AnswerReady \/ StartupReady \/ LateReady \/ PostgresError
Peer == SslResponse \/ Admit \/ Refuse \/ Execute \/ Break

Next ==
    \/ ReconnectTimer \/ Open \/ ConnectFails \/ SocketClose
    \/ Messaging
    \/ \E n \in Notifies : Notify(n)
    \/ HealthCheck
    \/ Close
    \/ Peer

Spec == Init /\ [][Next]_vars

-----------------------------------------------------------------------------
(* Properties.                                                             *)

\* Type correctness of the listener's variables.
TypeOK ==
    /\ status \in {"connecting", "connected", "reconnecting", "closed"}
    /\ {closed, startupReady, readyForQuery, reconnectTimer, healthTimer, activeError} \subseteq BOOLEAN
    /\ connectionPhase \in {"socket", "ssl-request", "tls-handshake", "startup", "ready"}
    /\ queryQueue \in Seq(Queries) /\ activeQuery \in Queries \cup {None}
    /\ reconnectAttempts \in 0..MaxFaults
    /\ outcome \in [Notifies -> Outcomes]
    /\ link \in {"none", "connecting", "open", "ended", "broken"}
    /\ wire \in Seq(Messages)
    /\ server \in {"off", "ssl", "tls", "startup", "idle", "busy"}
    /\ asked \in Queries \cup {None}
    /\ listening \in BOOLEAN /\ executed \in Seq(Notifies) /\ stale \in BOOLEAN
    /\ faults \in 0..MaxFaults

\* The queries whose promises are not settled, in the order of their answers.
Unanswered == IF activeQuery = None THEN queryQueue ELSE <<activeQuery>> \o queryQueue

\* Whatever fails, the server executes a notification at most once and in the
\* order of the calls of notify(), and every one whose promise is resolved.
ExecutedOnce ==
    /\ \A i, j \in DOMAIN executed : i < j => executed[i] < executed[j]
    /\ \A n \in Notifies : outcome[n] = "resolved" => n \in ToSet(executed)

\* Until close(), exactly one of the reconnect timer, a connection attempt
\* and a socket exists; the timer never exists beside one of the others, or
\* connect() would abandon a socket.
OneConnection ==
    /\ ~(reconnectTimer /\ link # "none")
    /\ ~closed => reconnectTimer \/ link # "none"

\* What PgKvCache sees of the listener.
Conn == IF closed THEN "off"
        ELSE IF listening /\ link = "open" THEN "up"
        ELSE IF listening \/ stale THEN "lost"
        ELSE IF reconnectAttempts = 0 THEN "starting" ELSE "down"

\* "connected" is reported only after the server has executed LISTEN on this
\* connection, and until its loss is noticed.
ConnectedListens ==
    HasChannels /\ status = "connected" /\ ~closed => Conn \in {"up", "lost"}
=============================================================================
